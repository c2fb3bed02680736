------------------------ MODULE MMAccounting_proofs -------------------------
(***************************************************************************)
(* What the accounting keeps of the terminals' reports, for every set of   *)
(* terminals, clocks, numbers, cards and cash boxes, however often the     *)
(* program is killed and whichever statements the database refuses.        *)
(***************************************************************************)
EXTENDS MMAccounting, TLAPS

\* The table in work is one that a terminal has sent, and still holds if it is answered;
\* what a terminal is told is forgotten with the reply.
InWork ==
    /\ pc \in {"down", "idle"} => table = None
    /\ pc = "save" => table # None
    /\ pc # "answer" => told = NoReply
    /\ table # None => table \in reported
    /\ table # None /\ table.kind \in Answered => table \in held

\* The rows are reports of terminals; TCASHST is not among these tables.
Known == OnFile \subseteq reported /\ \A m \in OnFile : m.kind # "TCASHST"

\* A terminal does not give two dated reports the same stamp.
Stamped == \A m, n \in reported : m.kind \in Dated /\ SameStamp(m, n) => m = n

\* A table that is about to be answered has been filed or refused.
Worked ==
    pc = "answer" /\ table # None =>
        (table.kind \in Answered => table \in refused \cup OnFile \/ SeqTaken(table))

\* TCASHST has the last box that was saved of each terminal.
BoxesKept ==
    \A t \in Terminals :
        IF lastBox[t] = None THEN cashst[t] = NoBox
        ELSE lastBox[t].kind = "TCASHST" /\ cashst[t] = Columns(lastBox[t])

\* The status rows of a terminal have a last one.
LastExists ==
    \A t \in Plain :
        \/ \A i \in 1..Len(rows) : ~StatusRow(i, t)
        \/ \E i \in 1..Len(rows) : StatusRow(i, t) /\ \A j \in (i + 1)..Len(rows) : ~StatusRow(j, t)

\* The inductive invariant.
IInv ==
    /\ TypeOK /\ AnsweredIsFiled /\ FiledOnce /\ StatusChanges /\ CashBoxIsLast
    /\ InWork /\ Known /\ Stamped /\ Worked /\ BoxesKept /\ LastExists

----------------------------------------------------------------------------
(* Reports and rows *)

LEMMA ReportFacts ==
    ASSUME NEW m \in Reports
    PROVE  /\ m.kind \in Kinds /\ m.from \in Terminals /\ m \in ReportsOf(m.kind)
           /\ m.time \in Times \cup {None}
           /\ m # None
<1>1. PICK k \in Kinds : m \in ReportsOf(k)
  BY DEF Reports
<1>2. m.kind = k /\ m.from \in Terminals /\ m.time \in Times \cup {None}
  BY <1>1 DEF ReportsOf
<1> QED
  BY <1>1, <1>2, NoneAssumption

LEMMA BoxFacts ==
    ASSUME AccountingAssumption, NEW m \in Reports, m.kind = "TCASHST"
    PROVE  /\ Columns(m) \in BoxRows /\ Columns(m) # NoBox
           /\ m.says \in BoxContents /\ m.time \in Times
           /\ Loaded(Columns(m)) \in SentBoxes
           /\ Loaded(Columns(m)).time = m.time
           /\ Loaded(Columns(m)).value = 100 * (m.says.value \div 100)
<1>1. m \in ReportsOf("TCASHST")
  BY ReportFacts
<1>2. m.time \in Times /\ m.says \in Boxes
  BY <1>1 DEF ReportsOf, Dated, Says
<1>3. m.says \in BoxContents
  BY <1>2 DEF AccountingAssumption
<1>4. Columns(m) \in BoxRows
  BY <1>1 DEF BoxRows
<1>5. Columns(m) # NoBox
  <2>1. Columns(m).START # None
    BY <1>2, NoneAssumption DEF Columns
  <2> QED
    BY <2>1 DEF NoBox
<1>6. /\ m.says.status \in 0..MaxByte /\ m.says.percent \in 0..MaxByte
      /\ m.says.value \in Nat /\ m.says.value <= MaxWord
  <2>1. 0..4 \subseteq 0..MaxByte /\ 0..100 \subseteq 0..MaxByte /\ MaxWord \in Nat
    BY SMT DEF MaxByte, MaxWord
  <2>2. /\ m.says.status \in 0..4 /\ m.says.percent \in 0..100
        /\ m.says.value \in 0..MaxWord
    BY <1>3, SMT DEF BoxContents
  <2> QED
    BY <2>1, <2>2, SMT
<1>7. /\ Dollars(m.says.value) \in 0..MaxWord
      /\ Dollars(m.says.value) = 100 * (m.says.value \div 100)
  <2>1. \A v \in Nat : (v \div 100) * 100 \in Nat /\ (v \div 100) * 100 <= v
                     /\ (v \div 100) * 100 = 100 * (v \div 100)
    BY SMT
  <2>2. MaxWord \in Nat
    BY SMT DEF MaxWord
  <2> QED
    BY <1>6, <2>1, <2>2, SMT DEF Dollars
<1>8. Loaded(Columns(m)) = [status |-> m.says.percent, percent |-> m.says.status,
                             value |-> Dollars(m.says.value), time |-> m.time]
  BY DEF Loaded, Columns
<1>9. Loaded(Columns(m)) \in SentBoxes
  BY <1>2, <1>6, <1>7, <1>8, SMT DEF SentBoxes
<1> QED
  BY <1>2, <1>3, <1>4, <1>5, <1>7, <1>8, <1>9

LEMMA AppendFacts ==
    ASSUME NEW S, NEW s \in Seq(S), NEW e \in S
    PROVE  /\ Append(s, e) \in Seq(S) /\ Len(Append(s, e)) = Len(s) + 1 /\ Len(s) \in Nat
           /\ \A i \in 1..Len(s) : Append(s, e)[i] = s[i]
           /\ Append(s, e)[Len(s) + 1] = e
  OBVIOUS

\* Which status row is the last depends on the rows alone.
LEMMA SameRows ==
    ASSUME rows' = rows
    PROVE  /\ OnFile' = OnFile
           /\ \A i, t : StatusRow(i, t)' = StatusRow(i, t)
           /\ LastExists => LastExists'
           /\ StatusChanges /\ refused \subseteq refused' => StatusChanges'
           /\ FiledOnce => FiledOnce'
<1>1. OnFile' = OnFile
  BY DEF OnFile
<1>2. \A i, t : StatusRow(i, t)' = StatusRow(i, t)
  BY DEF StatusRow
<1>3. LastExists => LastExists'
  BY <1>2 DEF LastExists
<1>4. StatusChanges /\ refused \subseteq refused' => StatusChanges'
  BY <1>2 DEF StatusChanges
<1>5. FiledOnce => FiledOnce'
  BY DEF FiledOnce
<1> QED
  BY <1>1, <1>2, <1>3, <1>4, <1>5

\* What a new row adds.
LEMMA NewRow ==
    ASSUME TypeOK, table \in Reports, rows' = Append(rows, Row(table, day))
    PROVE  /\ rows' \in Seq(Rows) /\ Len(rows') = Len(rows) + 1 /\ Len(rows) \in Nat
           /\ \A i \in 1..Len(rows) : rows'[i] = rows[i]
           /\ rows'[Len(rows) + 1] = Row(table, day)
           /\ OnFile' = OnFile \cup {table}
           /\ \A t : \A i \in 1..Len(rows) : StatusRow(i, t)' = StatusRow(i, t)
           /\ \A i, t : i = Len(rows) + 1 =>
                 (StatusRow(i, t)' <=> table.kind = "TSTATUS" /\ table.from = t)
<1>1. rows \in Seq(Rows) /\ Row(table, day) \in Rows
  BY DEF TypeOK, Rows, Row
<1>2. /\ rows' \in Seq(Rows) /\ Len(rows') = Len(rows) + 1 /\ Len(rows) \in Nat
      /\ \A i \in 1..Len(rows) : rows'[i] = rows[i]
      /\ rows'[Len(rows) + 1] = Row(table, day)
  BY <1>1, AppendFacts
<1>3. Row(table, day).msg = table
  BY DEF Row
<1>4. OnFile' = OnFile \cup {table}
  <2>1. 1..Len(rows') = (1..Len(rows)) \cup {Len(rows) + 1}
    BY <1>2
  <2> QED
    BY <2>1, <1>2, <1>3 DEF OnFile
<1>5. \A t : \A i \in 1..Len(rows) : StatusRow(i, t)' = StatusRow(i, t)
  BY <1>2 DEF StatusRow
<1>6. \A i, t : i = Len(rows) + 1 =>
         (StatusRow(i, t)' <=> table.kind = "TSTATUS" /\ table.from = t)
  BY <1>2, <1>3 DEF StatusRow
<1> QED
  BY <1>2, <1>4, <1>5, <1>6

LEMMA NewRowLast ==
    ASSUME TypeOK, LastExists, table \in Reports, rows' = Append(rows, Row(table, day))
    PROVE  LastExists'
<1> SUFFICES ASSUME NEW t \in Plain
             PROVE  \/ \A i \in 1..Len(rows') : ~StatusRow(i, t)'
                    \/ \E i \in 1..Len(rows') :
                          StatusRow(i, t)' /\ \A j \in (i + 1)..Len(rows') : ~StatusRow(j, t)'
  BY DEF LastExists
<1>0. PICK n \in Nat : n = Len(rows) + 1
  BY NewRow
<1>1. CASE StatusRow(n, t)'
  <2>1. n \in 1..Len(rows') /\ (n + 1)..Len(rows') = {}
    BY <1>0, NewRow
  <2> QED
    BY <2>1, <1>1
<1>2. CASE ~StatusRow(n, t)'
  <2>1. \A i \in 1..Len(rows') : StatusRow(i, t)' => i \in 1..Len(rows) /\ StatusRow(i, t)
    BY NewRow, <1>0, <1>2
  <2>2. CASE \A i \in 1..Len(rows) : ~StatusRow(i, t)
    BY <2>1, <2>2
  <2>3. CASE \E i \in 1..Len(rows) : StatusRow(i, t) /\ \A j \in (i + 1)..Len(rows) : ~StatusRow(j, t)
    <3>1. PICK i \in 1..Len(rows) : StatusRow(i, t) /\ \A j \in (i + 1)..Len(rows) : ~StatusRow(j, t)
      BY <2>3
    <3>2. i \in 1..Len(rows') /\ StatusRow(i, t)'
      BY NewRow, <3>1
    <3>3. ASSUME NEW j \in (i + 1)..Len(rows'), StatusRow(j, t)' PROVE FALSE
      <4>1. j \in 1..Len(rows') /\ j \in Nat /\ i \in Nat /\ j >= i + 1
        BY NewRow
      <4>2. j \in 1..Len(rows) /\ StatusRow(j, t)
        BY <2>1, <3>3, <4>1
      <4>3. j \in (i + 1)..Len(rows)
        BY <4>1, <4>2, NewRow
      <4> QED
        BY <3>1, <4>2, <4>3
    <3> QED
      BY <3>2, <3>3
  <2> QED
    BY <2>2, <2>3 DEF LastExists
<1> QED
  BY <1>1, <1>2

\* StatusChanges of one row.
Changes(j, t) ==
    StatusRow(j, t) /\ rows[j].msg \notin refused =>
        \/ \E i \in 1..(j - 1) :
              /\ StatusRow(i, t) /\ rows[i].msg.says # rows[j].msg.says
              /\ \A k \in (i + 1)..(j - 1) : ~StatusRow(k, t)
        \/ rows[j].msg.says # NoStatus /\ \A i \in 1..(j - 1) : ~StatusRow(i, t)

LEMMA NewRowChanges ==
    ASSUME TypeOK, StatusChanges, LastExists, table \in Reports,
           rows' = Append(rows, Row(table, day)), refused \subseteq refused',
           table.kind = "TSTATUS" => table \in refused' \/ ~LastStatus(table.from, table.says)
    PROVE  StatusChanges'
<1> SUFFICES ASSUME NEW j \in 1..Len(rows'), NEW t \in Plain PROVE Changes(j, t)'
  BY DEF StatusChanges, Changes
<1>1. CASE j \in 1..Len(rows)
  <2>1. Changes(j, t)
    BY <1>1 DEF StatusChanges, Changes
  <2>2. j \in Nat /\ \A i \in 1..(j - 1) : i \in 1..Len(rows)
    BY <1>1, NewRow
  <2>3. \A i \in 1..(j - 1) : \A k \in (i + 1)..(j - 1) : k \in 1..(j - 1)
    BY <2>2
  <2>4. /\ rows'[j] = rows[j] /\ StatusRow(j, t)' = StatusRow(j, t)
        /\ \A i \in 1..(j - 1) : rows'[i] = rows[i] /\ StatusRow(i, t)' = StatusRow(i, t)
    BY <1>1, <2>2, NewRow
  <2> QED
    BY <2>1, <2>3, <2>4 DEF Changes
<1>2. CASE j = Len(rows) + 1
  <2> SUFFICES ASSUME StatusRow(j, t)', (rows[j].msg \notin refused)'
               PROVE  \/ \E i \in 1..(j - 1) :
                            /\ StatusRow(i, t)' /\ rows'[i].msg.says # rows'[j].msg.says
                            /\ \A k \in (i + 1)..(j - 1) : ~StatusRow(k, t)'
                      \/ rows'[j].msg.says # NoStatus /\ \A i \in 1..(j - 1) : ~StatusRow(i, t)'
    BY DEF Changes
  <2>1. /\ table.kind = "TSTATUS" /\ table.from = t /\ rows'[j].msg = table
        /\ 1..(j - 1) = 1..Len(rows)
    BY <1>2, NewRow DEF Row
  <2>2. ~LastStatus(t, table.says)
    BY <2>1
  <2>3. CASE \A i \in 1..Len(rows) : ~StatusRow(i, t)
    <3>1. table.says # NoStatus
      BY <2>2, <2>3 DEF LastStatus
    <3> QED
      BY <3>1, <2>1, <2>3, NewRow
  <2>4. CASE \E i \in 1..Len(rows) : StatusRow(i, t) /\ \A k \in (i + 1)..Len(rows) : ~StatusRow(k, t)
    <3>1. PICK i \in 1..Len(rows) : StatusRow(i, t) /\ \A k \in (i + 1)..Len(rows) : ~StatusRow(k, t)
      BY <2>4
    <3>2. rows[i].msg.says # table.says
      BY <2>2, <3>1 DEF LastStatus
    <3>3. \A k \in (i + 1)..Len(rows) : k \in 1..Len(rows)
      BY NewRow
    <3>4. j - 1 = Len(rows)
      BY <1>2, NewRow
    <3> QED
      BY <3>1, <3>2, <3>3, <3>4, <2>1, NewRow
  <2> QED
    BY <2>3, <2>4 DEF LastExists
<1> QED
  BY <1>1, <1>2, NewRow

----------------------------------------------------------------------------
(* Initially *)

LEMMA InitIInv == ASSUME AccountingAssumption, Init PROVE IInv
<1>1. rows = <<>> /\ Len(rows) = 0 /\ 1..Len(rows) = {}
  BY DEF Init
<1>2. OnFile = {}
  BY <1>1 DEF OnFile
<1>3. TypeOK
  <2>1. EmptyBox \in SentBoxes
    BY SMT DEF EmptyBox, SentBoxes, MaxByte, MaxWord
  <2> QED
    BY <2>1 DEF Init, TypeOK, NoReply, AccountingAssumption
<1>4. AnsweredIsFiled /\ InWork /\ Stamped /\ Worked /\ Known
  BY <1>2 DEF Init, AnsweredIsFiled, InWork, Stamped, Worked, Known
<1>5. FiledOnce /\ StatusChanges /\ LastExists
  BY <1>1 DEF FiledOnce, StatusChanges, LastExists
<1>6. CashBoxIsLast
  BY DEF Init, CashBoxIsLast, NoReply
<1>7. BoxesKept
  BY DEF Init, BoxesKept
<1> QED
  BY <1>3, <1>4, <1>5, <1>6, <1>7 DEF IInv

----------------------------------------------------------------------------
(* The steps that leave the database alone *)

LEMMA QuietStep ==
    ASSUME IInv, UNCHANGED <<dbVars, refused, lastBox>>, reported \subseteq reported',
           TypeOK', InWork', Stamped', Worked', AnsweredIsFiled', CashBoxIsLast'
    PROVE  IInv'
<1>1. FiledOnce' /\ StatusChanges' /\ LastExists' /\ OnFile' = OnFile
  BY SameRows DEF IInv, dbVars
<1>2. Known'
  BY <1>1 DEF IInv, Known
<1>3. BoxesKept'
  BY DEF IInv, BoxesKept, dbVars
<1> QED
  BY <1>1, <1>2, <1>3 DEF IInv

\* A number that is taken stays taken while the rows are the same.
LEMMA SameTaken == ASSUME rows' = rows PROVE \A m : SeqTaken(m)' = SeqTaken(m)
  BY DEF SeqTaken, Both, Row

LEMMA OccursStep == ASSUME IInv, NEW m \in Reports, Occurs(m) PROVE IInv'
<1>1. /\ reported' = reported \cup {m} /\ held' = held \cup {m}
      /\ m.kind \in Dated => \A n \in reported : ~SameStamp(m, n)
      /\ UNCHANGED <<progVars, dbVars, day, refused, lastBox>>
  BY DEF Occurs
<1>2. TypeOK'
  BY <1>1 DEF IInv, TypeOK, progVars, dbVars
<1>3. InWork'
  BY <1>1 DEF IInv, InWork, progVars
<1>4. Stamped'
  <2> SUFFICES ASSUME NEW p \in reported', NEW n \in reported', p.kind \in Dated, SameStamp(p, n)
               PROVE  p = n
    BY DEF Stamped
  <2>1. SameStamp(n, p) /\ n.kind \in Dated
    BY DEF SameStamp
  <2>2. CASE p = m
    BY <1>1, <2>2
  <2>3. CASE n = m
    BY <1>1, <2>1, <2>3
  <2> QED
    BY <1>1, <2>2, <2>3 DEF IInv, Stamped
<1>5. OnFile' = OnFile /\ \A n : SeqTaken(n)' = SeqTaken(n)
  BY <1>1, SameRows, SameTaken DEF dbVars
<1>6. Worked' /\ AnsweredIsFiled' /\ CashBoxIsLast'
  BY <1>1, <1>5 DEF IInv, Worked, AnsweredIsFiled, CashBoxIsLast, progVars
<1> QED
  BY <1>1, <1>2, <1>3, <1>4, <1>6, QuietStep

LEMMA MidnightStep == ASSUME AccountingAssumption, IInv, Midnight PROVE IInv'
<1>1. /\ day' = day + 1 /\ day < MaxDay
      /\ UNCHANGED <<progVars, dbVars, termVars, refused, lastBox>>
  BY DEF Midnight
<1>2. TypeOK'
  <2>1. day + 1 \in 0..MaxDay
    BY <1>1 DEF IInv, TypeOK, AccountingAssumption
  <2> QED
    BY <1>1, <2>1 DEF IInv, TypeOK, progVars, dbVars, termVars
<1>3. OnFile' = OnFile /\ \A n : SeqTaken(n)' = SeqTaken(n)
  BY <1>1, SameRows, SameTaken DEF dbVars
<1>4. InWork' /\ Stamped' /\ Worked' /\ AnsweredIsFiled' /\ CashBoxIsLast'
  BY <1>1, <1>3 DEF IInv, InWork, Stamped, Worked, AnsweredIsFiled, CashBoxIsLast, progVars, termVars
<1> QED
  BY <1>1, <1>2, <1>4, QuietStep DEF termVars

LEMMA EmptyBoxSent == NoReply \in [to : Terminals \cup {None}, box : SentBoxes, failed : BOOLEAN]
<1>1. EmptyBox \in SentBoxes
  BY SMT DEF EmptyBox, SentBoxes, MaxByte, MaxWord
<1> QED
  BY <1>1 DEF NoReply

LEMMA OpenStopStep == ASSUME IInv, Open \/ Stop PROVE IInv'
<1>1. /\ pc' \in {"idle", "down"} /\ table' = None /\ told' = NoReply
      /\ UNCHANGED <<dbVars, day, termVars, refused, lastBox>>
  BY DEF Open, Stop, IInv, InWork
<1>2. TypeOK'
  BY <1>1, EmptyBoxSent DEF IInv, TypeOK, dbVars, termVars
<1>3. OnFile' = OnFile /\ \A n : SeqTaken(n)' = SeqTaken(n)
  BY <1>1, SameRows, SameTaken DEF dbVars
<1>4. InWork' /\ Stamped' /\ Worked' /\ AnsweredIsFiled'
  BY <1>1, <1>3 DEF IInv, InWork, Stamped, Worked, AnsweredIsFiled, termVars
<1>5. CashBoxIsLast'
  BY <1>1 DEF CashBoxIsLast, NoReply
<1> QED
  BY <1>1, <1>2, <1>4, <1>5, QuietStep DEF termVars

LEMMA ReceiveStep == ASSUME IInv, NEW m \in Reports, Receive(m) PROVE IInv'
<1>1. /\ pc' = "save" /\ table' = m /\ m \in held
      /\ held' = held \/ (m.kind \notin Answered /\ held' = held \ {m})
      /\ UNCHANGED <<told, dbVars, day, reported, refused, lastBox>>
  BY DEF Receive
<1>2. TypeOK'
  BY <1>1 DEF IInv, TypeOK, dbVars
<1>3. OnFile' = OnFile /\ \A n : SeqTaken(n)' = SeqTaken(n)
  BY <1>1, SameRows, SameTaken DEF dbVars
<1>4. InWork'
  <2>1. pc = "idle" /\ m # None /\ m \in reported
    BY <1>1, ReportFacts DEF IInv, TypeOK, Receive
  <2> QED
    BY <1>1, <2>1 DEF IInv, InWork
<1>5. Stamped' /\ Worked' /\ AnsweredIsFiled' /\ CashBoxIsLast'
  BY <1>1, <1>3 DEF IInv, Stamped, Worked, AnsweredIsFiled, CashBoxIsLast
<1> QED
  BY <1>1, <1>2, <1>4, <1>5, QuietStep

LEMMA LoadTCASHSTStep ==
    ASSUME AccountingAssumption, IInv, NEW t \in Terminals, LoadTCASHST(t)
    PROVE  IInv'
<1>1. /\ pc = "idle" /\ pc' = "answer"
      /\ UNCHANGED <<table, dbVars, day, termVars, refused, lastBox>>
  BY DEF LoadTCASHST
<1>2. told'.to = t /\ told' \in [to : Terminals \cup {None}, box : SentBoxes, failed : BOOLEAN]
  <2>1. cashst[t] # NoBox => Loaded(cashst[t]) \in SentBoxes
    BY BoxFacts DEF IInv, TypeOK, BoxesKept
  <2>2. EmptyBox \in SentBoxes
    BY EmptyBoxSent DEF NoReply
  <2> DEFINE b == IF cashst[t] = NoBox THEN EmptyBox ELSE Loaded(cashst[t])
  <2>3. b \in SentBoxes
    BY <2>1, <2>2
  <2>4. \/ told' = [to |-> t, failed |-> FALSE, box |-> b]
        \/ told' = [to |-> t, failed |-> TRUE, box |-> EmptyBox]
    BY DEF LoadTCASHST
  <2> HIDE DEF b
  <2>5. ASSUME NEW x \in SentBoxes, NEW f \in BOOLEAN, told' = [to |-> t, failed |-> f, box |-> x]
        PROVE  told'.to = t /\ told' \in [to : Terminals \cup {None}, box : SentBoxes, failed : BOOLEAN]
    BY <2>5
  <2> QED
    BY <2>2, <2>3, <2>4, <2>5
<1>3. TypeOK'
  BY <1>1, <1>2 DEF IInv, TypeOK, dbVars, termVars
<1>4. CashBoxIsLast'
  <2>1. CASE told'.failed
    BY <2>1 DEF CashBoxIsLast
  <2>2. CASE ~told'.failed
    <3>1. told'.box = IF cashst[t] = NoBox THEN EmptyBox ELSE Loaded(cashst[t])
      BY <2>2 DEF LoadTCASHST
    <3>2. CASE lastBox[t] = None
      BY <1>1, <1>2, <3>1, <3>2 DEF IInv, BoxesKept, CashBoxIsLast
    <3>3. CASE lastBox[t] # None
      <4>1. lastBox[t] \in Reports /\ lastBox[t].kind = "TCASHST"
        BY <3>3 DEF IInv, TypeOK, BoxesKept
      <4>2. told'.box = Loaded(Columns(lastBox[t]))
        BY <3>1, <3>3, <4>1, BoxFacts DEF IInv, BoxesKept
      <4> QED
        BY <1>1, <1>2, <3>3, <4>1, <4>2, BoxFacts DEF CashBoxIsLast
    <3> QED
      BY <3>2, <3>3
  <2> QED
    BY <2>1, <2>2
<1>5. OnFile' = OnFile /\ \A n : SeqTaken(n)' = SeqTaken(n)
  BY <1>1, SameRows, SameTaken DEF dbVars
<1>6. InWork' /\ Stamped' /\ Worked' /\ AnsweredIsFiled'
  BY <1>1, <1>5 DEF IInv, InWork, Stamped, Worked, AnsweredIsFiled, termVars
<1> QED
  BY <1>1, <1>3, <1>4, <1>6, QuietStep DEF termVars

LEMMA ReplyStep == ASSUME IInv, Reply PROVE IInv'
<1>1. /\ pc = "answer" /\ pc' = "idle" /\ table' = None /\ told' = NoReply
      /\ \/ held' = held
         \/ table # None /\ table.kind \in Answered /\ held' = held \ {table}
      /\ UNCHANGED <<dbVars, day, reported, refused, lastBox>>
  BY DEF Reply
<1>2. TypeOK'
  BY <1>1, EmptyBoxSent DEF IInv, TypeOK, dbVars
<1>3. OnFile' = OnFile /\ \A n : SeqTaken(n)' = SeqTaken(n)
  BY <1>1, SameRows, SameTaken DEF dbVars
<1>4. InWork' /\ Stamped' /\ Worked'
  BY <1>1 DEF IInv, InWork, Stamped, Worked
<1>5. AnsweredIsFiled'
  BY <1>1, <1>3 DEF IInv, AnsweredIsFiled, Worked
<1>6. CashBoxIsLast'
  BY <1>1 DEF CashBoxIsLast, NoReply
<1> QED
  BY <1>1, <1>2, <1>4, <1>5, <1>6, QuietStep

----------------------------------------------------------------------------
(* The steps that save *)

\* What every save leaves alone.
LEMMA SavingFacts ==
    ASSUME IInv, NEW k \in Kinds, Saving(k)
    PROVE  /\ table \in Reports /\ table # None /\ table.kind = k /\ table \in reported
           /\ pc' = "answer" /\ UNCHANGED <<table, told, day, reported, held>>
           /\ InWork' /\ Stamped'
<1>1. /\ pc = "save" /\ table.kind = k /\ pc' = "answer"
      /\ UNCHANGED <<table, told, day, reported, held>>
  BY DEF Saving, termVars
<1>2. table # None /\ table \in reported /\ table \in Reports
  BY <1>1 DEF IInv, InWork, TypeOK
<1>3. InWork' /\ Stamped'
  BY <1>1 DEF IInv, InWork, Stamped
<1> QED
  BY <1>1, <1>2, <1>3

\* A save that adds no row.
LEMMA NoRowStep ==
    ASSUME IInv, NEW k \in Kinds, Saving(k), rows' = rows, refused' \in {refused, refused \cup {table}},
           UNCHANGED <<cashst, lastBox>>,
           k \in Answered => table \in refused' \cup OnFile \/ SeqTaken(table)
    PROVE  IInv'
<1>1. /\ table \in Reports /\ table # None /\ table.kind = k /\ table \in reported
      /\ pc' = "answer" /\ UNCHANGED <<table, told, day, reported, held>>
      /\ InWork' /\ Stamped'
  BY SavingFacts
<1>2. TypeOK'
  BY <1>1 DEF IInv, TypeOK
<1>3. OnFile' = OnFile /\ \A n : SeqTaken(n)' = SeqTaken(n)
  BY SameRows, SameTaken
<1>4. FiledOnce' /\ StatusChanges' /\ LastExists'
  BY SameRows DEF IInv
<1>5. Worked' /\ AnsweredIsFiled' /\ Known'
  BY <1>1, <1>3 DEF IInv, Worked, AnsweredIsFiled, Known
<1>6. CashBoxIsLast' /\ BoxesKept'
  BY <1>1 DEF IInv, CashBoxIsLast, BoxesKept
<1> QED
  BY <1>1, <1>2, <1>4, <1>5, <1>6 DEF IInv

\* A save that adds a row.
LEMMA RowStep ==
    ASSUME IInv, NEW k \in Kinds \ {"TCASHST"}, Saving(k), rows' = Append(rows, Row(table, day)),
           refused' \in {refused, refused \cup {table}}, UNCHANGED <<cashst, lastBox>>,
           k \in Dated => ~Taken(table),
           k = "TSTATUS" => table \in refused' \/ ~LastStatus(table.from, table.says)
    PROVE  IInv'
<1>1. /\ table \in Reports /\ table # None /\ table.kind = k /\ table \in reported
      /\ pc' = "answer" /\ UNCHANGED <<table, told, day, reported, held>>
      /\ InWork' /\ Stamped'
  BY SavingFacts
<1>2. /\ rows' \in Seq(Rows) /\ Len(rows') = Len(rows) + 1 /\ Len(rows) \in Nat
      /\ \A i \in 1..Len(rows) : rows'[i] = rows[i]
      /\ rows'[Len(rows) + 1] = Row(table, day)
      /\ OnFile' = OnFile \cup {table}
  BY <1>1, NewRow DEF IInv
<1>3. TypeOK'
  BY <1>1, <1>2 DEF IInv, TypeOK
<1>4. \A n : SeqTaken(n) => SeqTaken(n)'
  <2> SUFFICES ASSUME NEW n, SeqTaken(n) PROVE SeqTaken(n)'
    OBVIOUS
  <2>1. PICK i \in 1..Len(rows) : /\ Both("TAUTH", rows[i], Row(n, day))
                                  /\ rows[i].msg.from = n.from /\ rows[i].msg.seq = n.seq
    BY DEF SeqTaken
  <2>2. i \in 1..Len(rows') /\ rows'[i] = rows[i]
    BY <1>2
  <2> QED
    BY <2>1, <2>2, <1>1 DEF SeqTaken, Both, Row
<1>5. Worked' /\ AnsweredIsFiled' /\ Known'
  BY <1>1, <1>2, <1>4 DEF IInv, Worked, AnsweredIsFiled, Known
<1>6. LastExists' /\ StatusChanges'
  BY <1>1, NewRowLast, NewRowChanges DEF IInv
<1>7. FiledOnce'
  <2>1. \A i \in 1..Len(rows) : table.kind \in Dated => rows[i].msg # table
    BY <1>1 DEF Taken, Clash, Both, Row, Dated, Stamp, TALARM_Key, TCDR_Key, TCALLST_Key,
                TCOLLST_Key, TPERFST_Key
  <2>2. Row(table, day).msg = table
    BY DEF Row
  <2>3. \A i \in 1..Len(rows') : i \in 1..Len(rows) \/ i = Len(rows) + 1
    BY <1>2
  <2> QED
    BY <1>2, <2>1, <2>2, <2>3 DEF IInv, FiledOnce
<1>8. CashBoxIsLast' /\ BoxesKept'
  BY <1>1 DEF IInv, CashBoxIsLast, BoxesKept
<1> QED
  BY <1>1, <1>3, <1>5, <1>6, <1>7, <1>8 DEF IInv

\* What takes the place of a report is that report, or an authorization of its number.
LEMMA TakenBySame ==
    ASSUME IInv, NEW k \in Kinds, Saving(k), Taken(table), k \in Answered
    PROVE  table \in OnFile \/ SeqTaken(table)
<1>1. /\ table \in Reports /\ table.kind = k /\ table \in reported
  BY SavingFacts
<1>2. PICK i \in 1..Len(rows) : Clash(rows[i], Row(table, day))
  BY DEF Taken
<1>3. rows[i].msg \in OnFile /\ rows[i].msg \in reported
  BY <1>2 DEF IInv, Known, OnFile
<1>4. Row(table, day).msg = table /\ Row(table, day).day = day
  BY DEF Row
<1>5. CASE k = "TAUTH"
  <2>1. Both("TAUTH", rows[i], Row(table, day)) /\ TAUTH_Key(rows[i]) = TAUTH_Key(Row(table, day))
    BY <1>1, <1>2, <1>4, <1>5 DEF Clash, Both
  <2> QED
    BY <2>1, <1>4 DEF SeqTaken, TAUTH_Key
<1>6. CASE k # "TAUTH"
  <2>1. k \in Dated /\ SameStamp(rows[i].msg, table)
    BY <1>1, <1>2, <1>4, <1>6 DEF Clash, Both, Answered, Dated, Stamp, TALARM_Key, TCDR_Key,
                                  TCALLST_Key, TCOLLST_Key, TPERFST_Key, SameStamp
  <2>2. rows[i].msg.kind \in Dated
    BY <2>1, <1>1 DEF SameStamp
  <2>3. rows[i].msg = table
    BY <1>1, <1>3, <2>1, <2>2 DEF IInv, Stamped
  <2> QED
    BY <1>3, <2>3
<1> QED
  BY <1>5, <1>6

LEMMA InsertsStep == ASSUME IInv, NEW k \in Kinds \ {"TCASHST", "TSTATUS"}, Inserts(k) PROVE IInv'
<1>1. Saving(k) /\ Insert /\ UNCHANGED <<cashst, lastBox>>
  BY DEF Inserts
<1>2. CASE ~Taken(table) /\ rows' = Append(rows, Row(table, day)) /\ UNCHANGED refused
  BY <1>1, <1>2, RowStep
<1>3. CASE Taken(table) /\ UNCHANGED <<rows, refused>>
  BY <1>1, <1>3, NoRowStep, TakenBySame
<1>4. CASE Fails /\ UNCHANGED rows
  BY <1>1, <1>4, NoRowStep DEF Fails
<1> QED
  BY <1>1, <1>2, <1>3, <1>4 DEF Insert

LEMMA SaveTSTATUSStep == ASSUME IInv, SaveTSTATUS PROVE IInv'
<1> DEFINE k == "TSTATUS"
<1>1. Saving(k) /\ UNCHANGED <<cashst, lastBox>> /\ k \in Kinds \ {"TCASHST"} /\ k \notin Dated \cup Answered
  BY DEF SaveTSTATUS, Kinds, Dated, Answered
<1>2. CASE LastStatus(table.from, table.says) /\ UNCHANGED <<rows, refused>>
  BY <1>1, <1>2, NoRowStep
<1>3. CASE ~LastStatus(table.from, table.says) /\ Insert
  <2>1. CASE rows' = Append(rows, Row(table, day)) /\ UNCHANGED refused
    BY <1>1, <1>3, <2>1, RowStep
  <2>2. CASE rows' = rows /\ refused' \in {refused, refused \cup {table}}
    BY <1>1, <2>2, NoRowStep
  <2> QED
    BY <1>3, <2>1, <2>2 DEF Insert, Fails
<1>4. CASE Fails /\ rows' = rows
  BY <1>1, <1>4, NoRowStep DEF Fails
<1>5. CASE Fails /\ rows' = Append(rows, Row(table, day))
  <2>1. refused' = refused \cup {table}
    BY <1>5 DEF Fails
  <2> QED
    BY <1>1, <1>5, <2>1, RowStep
<1> QED
  BY <1>2, <1>3, <1>4, <1>5 DEF SaveTSTATUS

LEMMA SaveTCASHSTStep == ASSUME AccountingAssumption, IInv, SaveTCASHST PROVE IInv'
<1> DEFINE k == "TCASHST"
<1>1. Saving(k) /\ k \in Kinds /\ k \notin Answered /\ rows' = rows
  BY DEF SaveTCASHST, Kinds, Answered
<1>2. /\ table \in Reports /\ table # None /\ table.kind = k /\ table \in reported
      /\ pc' = "answer" /\ UNCHANGED <<table, told, day, reported, held>>
      /\ InWork' /\ Stamped'
  BY <1>1, SavingFacts
<1>3. CASE Fails /\ UNCHANGED <<cashst, lastBox>>
  BY <1>1, <1>3, NoRowStep DEF Fails
<1>4. CASE /\ cashst' = [cashst EXCEPT ![table.from] = Columns(table)]
           /\ lastBox' = [lastBox EXCEPT ![table.from] = table]
           /\ UNCHANGED refused
  <2>1. table.from \in Terminals /\ Columns(table) \in BoxRows
    BY <1>2, ReportFacts, BoxFacts
  <2>2. TypeOK'
    BY <1>1, <1>2, <1>4, <2>1 DEF IInv, TypeOK
  <2>3. OnFile' = OnFile /\ \A n : SeqTaken(n)' = SeqTaken(n)
    BY <1>1, SameRows, SameTaken
  <2>4. FiledOnce' /\ StatusChanges' /\ LastExists'
    BY <1>1, <1>4, SameRows DEF IInv
  <2>5. Worked' /\ AnsweredIsFiled' /\ Known'
    BY <1>1, <1>2, <1>4, <2>3 DEF IInv, Worked, AnsweredIsFiled, Known
  <2>6. BoxesKept'
    BY <1>2, <1>4, <2>1 DEF IInv, TypeOK, BoxesKept
  <2>7. CashBoxIsLast'
    <3>1. told' = NoReply
      BY <1>1, <1>2 DEF IInv, InWork, Saving
    <3> QED
      BY <3>1 DEF CashBoxIsLast, NoReply
  <2> QED
    BY <1>2, <2>2, <2>4, <2>5, <2>6, <2>7 DEF IInv
<1> QED
  BY <1>3, <1>4 DEF SaveTCASHST

LEMMA NextIInv == ASSUME AccountingAssumption, IInv, [Next]_vars PROVE IInv'
<1>1. ASSUME NEW m \in Reports, Occurs(m) \/ Receive(m) PROVE IInv'
  BY <1>1, OccursStep, ReceiveStep
<1>2. CASE Midnight \/ Open \/ Stop \/ Reply
  BY <1>2, MidnightStep, OpenStopStep, ReplyStep
<1>3. CASE Save
  BY <1>3, InsertsStep, SaveTSTATUSStep, SaveTCASHSTStep
     DEF Save, Kinds, SaveTALARM, SaveTAUTH, SaveTCDR, SaveTCALLST, SaveTCOLLST, SaveTOPCODE,
         SaveTPERFST, SaveTSWVERS
<1>4. ASSUME NEW t \in Terminals, LoadTCASHST(t) PROVE IInv'
  BY <1>4, LoadTCASHSTStep
<1>5. CASE UNCHANGED vars
  <2>1. UNCHANGED <<progVars, dbVars, day, termVars, refused, lastBox>>
    BY <1>5 DEF vars
  <2>2. TypeOK'
    BY <2>1 DEF IInv, TypeOK, progVars, dbVars, termVars
  <2>3. OnFile' = OnFile /\ \A n : SeqTaken(n)' = SeqTaken(n)
    BY <2>1, SameRows, SameTaken DEF dbVars
  <2>4. InWork' /\ Stamped' /\ Worked' /\ AnsweredIsFiled' /\ CashBoxIsLast'
    BY <2>1, <2>3 DEF IInv, InWork, Stamped, Worked, AnsweredIsFiled, CashBoxIsLast, progVars,
                      termVars
  <2> QED
    BY <2>1, <2>2, <2>4, QuietStep DEF termVars
<1> QED
  BY <1>1, <1>2, <1>3, <1>4, <1>5 DEF Next

----------------------------------------------------------------------------
(* The refinement of MMLedger *)

LEMMA LedgerInit == ASSUME Init PROVE Ledger!Init
<1>1. OnFile = {}
  BY DEF Init, OnFile
<1> QED
  BY <1>1 DEF Init, Ledger!Init, Ledgered

\* A report of a kind that the ledger does not have is not in it.
LEMMA LedgeredFacts ==
    ASSUME NEW ms, NEW m \in Reports
    PROVE  /\ m.kind \in LedgerKinds => Ledgered(ms \cup {m}) = Ledgered(ms) \cup {m}
           /\ m.kind \in LedgerKinds => Ledgered(ms \ {m}) = Ledgered(ms) \ {m}
           /\ m.kind \notin LedgerKinds => Ledgered(ms \cup {m}) = Ledgered(ms)
           /\ m.kind \notin LedgerKinds => Ledgered(ms \ {m}) = Ledgered(ms)
           /\ m.kind \in LedgerKinds /\ m \in ms => m \in Ledgered(ms)
           /\ m.kind \in LedgerKinds => m \in LedgerReports
<1>1. m.kind \in LedgerKinds => m \in LedgerReports
  BY ReportFacts DEF LedgerReports
<1> QED
  BY <1>1 DEF Ledgered

LEMMA LedgerStutter ==
    ASSUME UNCHANGED <<rows, held, refused>>
    PROVE  UNCHANGED Ledger!vars
<1>1. OnFile' = OnFile
  BY DEF OnFile
<1> QED
  BY <1>1 DEF Ledger!vars, Ledgered

LEMMA LedgerOccurs == ASSUME NEW m \in Reports, Occurs(m) PROVE [Ledger!Next]_(Ledger!vars)
<1>1. held' = held \cup {m} /\ m \notin held /\ UNCHANGED <<rows, refused>>
  BY DEF Occurs, dbVars
<1>2. OnFile' = OnFile
  BY <1>1, SameRows
<1>3. CASE m.kind \in LedgerKinds
  <2>1. Ledger!Report(m)
    BY <1>1, <1>2, <1>3, LedgeredFacts DEF Ledger!Report, Ledgered
  <2> QED
    BY <2>1, <1>3, LedgeredFacts DEF Ledger!Next
<1>4. CASE m.kind \notin LedgerKinds
  BY <1>1, <1>2, <1>4, LedgeredFacts DEF Ledger!vars, Ledgered
<1> QED
  BY <1>3, <1>4

LEMMA LedgerSettles ==
    ASSUME IInv, NEW m \in Reports, m \in held, held' \in {held, held \ {m}},
           m.kind \in Answered => held' = held \/ m \in refused \cup OnFile \/ SeqTaken(m),
           UNCHANGED <<rows, refused>>
    PROVE  [Ledger!Next]_(Ledger!vars)
<1>1. OnFile' = OnFile
  BY SameRows
<1>2. CASE held' = held
  BY <1>2, LedgerStutter
<1>3. CASE held' # held /\ m.kind \in LedgerKinds
  <2>1. m \in refused \cup OnFile
    BY <1>3 DEF LedgerKinds, SeqTaken, Both, Row
  <2>2. Ledger!Settle(m)
    <3>1. m \in Ledgered(held) /\ m \in Ledgered(OnFile) \cup Ledgered(refused)
      BY <1>3, <2>1, LedgeredFacts
    <3>2. Ledgered(held') = Ledgered(held) \ {m}
      BY <1>3, LedgeredFacts
    <3>3. Ledgered(OnFile)' = Ledgered(OnFile) /\ Ledgered(refused)' = Ledgered(refused)
      BY <1>1
    <3> QED
      BY <3>1, <3>2, <3>3 DEF Ledger!Settle
  <2> QED
    BY <2>2, <1>3, LedgeredFacts DEF Ledger!Next
<1>4. CASE held' # held /\ m.kind \notin LedgerKinds
  BY <1>1, <1>4, LedgeredFacts DEF Ledger!vars
<1> QED
  BY <1>2, <1>3, <1>4

LEMMA LedgerSaves ==
    ASSUME IInv, NEW k \in Kinds, Saving(k), rows' = rows \/ rows' = Append(rows, Row(table, day)),
           \/ refused' = refused
           \/ refused' = refused \cup {table} /\ (rows' = rows \/ k \notin LedgerKinds)
    PROVE  [Ledger!Next]_(Ledger!vars)
<1>1. table \in Reports /\ table.kind = k /\ UNCHANGED held
  BY SavingFacts
<1>2. OnFile' = OnFile \/ OnFile' = OnFile \cup {table}
  BY <1>1, SameRows, NewRow DEF IInv
<1>3. CASE k \notin LedgerKinds
  <2>1. Ledgered(OnFile') = Ledgered(OnFile)
    BY <1>1, <1>2, <1>3 DEF Ledgered
  <2>2. Ledgered(refused') = Ledgered(refused)
    BY <1>1, <1>3 DEF Ledgered
  <2> QED
    BY <1>1, <2>1, <2>2 DEF Ledger!vars
<1>4. CASE k \in LedgerKinds /\ refused' = refused
  <2>1. CASE OnFile' = OnFile
    BY <1>1, <1>4, <2>1 DEF Ledger!vars, Ledgered
  <2>2. CASE OnFile' = OnFile \cup {table}
    <3>1. Ledger!File(table)
      BY <1>1, <1>4, <2>2, LedgeredFacts DEF Ledger!File
    <3> QED
      BY <3>1, <1>1, <1>4, LedgeredFacts DEF Ledger!Next
  <2> QED
    BY <1>2, <2>1, <2>2
<1>5. CASE k \in LedgerKinds /\ rows' = rows /\ refused' = refused \cup {table}
  <2>1. OnFile' = OnFile
    BY <1>5, SameRows
  <2>2. Ledger!Refuse(table)
    BY <1>1, <1>5, <2>1, LedgeredFacts DEF Ledger!Refuse
  <2> QED
    BY <2>2, <1>1, <1>5, LedgeredFacts DEF Ledger!Next
<1> QED
  BY <1>3, <1>4, <1>5

LEMMA LedgerNext == ASSUME IInv, [Next]_vars PROVE [Ledger!Next]_(Ledger!vars)
<1>1. ASSUME NEW m \in Reports, Occurs(m) PROVE [Ledger!Next]_(Ledger!vars)
  BY <1>1, LedgerOccurs
<1>2. ASSUME NEW m \in Reports, Receive(m) PROVE [Ledger!Next]_(Ledger!vars)
  <2>1. /\ m \in held /\ held' \in {held, held \ {m}} /\ UNCHANGED <<rows, refused>>
        /\ m.kind \in Answered => held' = held
    BY <1>2 DEF Receive, dbVars
  <2> QED
    BY <2>1, LedgerSettles
<1>3. CASE Reply
  <2>1. UNCHANGED <<rows, refused>>
    BY <1>3 DEF Reply, dbVars
  <2>2. CASE held' = held
    BY <2>1, <2>2, LedgerStutter
  <2>3. CASE table # None /\ table.kind \in Answered /\ held' = held \ {table}
    <3>1. table \in Reports /\ table \in held
      BY <2>3 DEF IInv, TypeOK, InWork
    <3>2. table \in refused \cup OnFile \/ SeqTaken(table)
      BY <1>3, <2>3 DEF IInv, Worked, Reply
    <3> QED
      BY <2>1, <2>3, <3>1, <3>2, LedgerSettles
  <2> QED
    BY <1>3, <2>2, <2>3 DEF Reply
<1>4. CASE Midnight \/ Open \/ Stop \/ (\E t \in Terminals : LoadTCASHST(t)) \/ UNCHANGED vars
  <2>1. UNCHANGED <<rows, held, refused>>
    BY <1>4 DEF Midnight, Open, Stop, LoadTCASHST, vars, dbVars, termVars
  <2> QED
    BY <2>1, LedgerStutter
<1>5. ASSUME NEW k \in Kinds, Inserts(k) PROVE [Ledger!Next]_(Ledger!vars)
  <2>1. /\ Saving(k)
        /\ \/ refused' = refused /\ (rows' = rows \/ rows' = Append(rows, Row(table, day)))
           \/ refused' = refused \cup {table} /\ rows' = rows
    BY <1>5 DEF Inserts, Insert, Fails
  <2> QED
    BY <2>1, LedgerSaves
<1>6. CASE SaveTCASHST
  <2>1. Saving("TCASHST") /\ "TCASHST" \in Kinds /\ rows' = rows
    BY <1>6 DEF SaveTCASHST, Kinds
  <2>2. refused' = refused \/ refused' = refused \cup {table}
    BY <1>6 DEF SaveTCASHST, Fails
  <2> QED
    BY <2>1, <2>2, LedgerSaves
<1>7. CASE SaveTSTATUS
  <2>1. Saving("TSTATUS") /\ "TSTATUS" \in Kinds /\ "TSTATUS" \notin LedgerKinds
    BY <1>7 DEF SaveTSTATUS, Kinds, LedgerKinds, Answered
  <2>2. /\ rows' = rows \/ rows' = Append(rows, Row(table, day))
        /\ refused' = refused \/ refused' = refused \cup {table}
    BY <1>7 DEF SaveTSTATUS, Insert, Fails
  <2> QED
    BY <2>1, <2>2, LedgerSaves
<1> QED
  BY <1>1, <1>2, <1>3, <1>4, <1>5, <1>6, <1>7
     DEF Next, Save, Kinds, SaveTALARM, SaveTAUTH, SaveTCDR, SaveTCALLST, SaveTCOLLST,
         SaveTOPCODE, SaveTPERFST, SaveTSWVERS

----------------------------------------------------------------------------
(* The theorems. *)

\* The inductive invariant holds in every state of the program, the database and the terminals.
THEOREM InductiveInvariant == Spec => []IInv
<1>1. Init => IInv
  BY InitIInv, AccountingAssumption
<1>2. IInv /\ [Next]_vars => IInv'
  BY NextIInv, AccountingAssumption
<1> QED
  BY <1>1, <1>2, PTL DEF Spec

\* Type correctness: what a terminal is told of its cash box fits the fields of the table.
THEOREM TypeCorrect == Spec => []TypeOK
<1>1. IInv => TypeOK
  BY DEF IInv
<1> QED
  BY <1>1, InductiveInvariant, PTL

\* An answered report is in the database, or a statement failed.
THEOREM AnswersAreTrue == Spec => []AnsweredIsFiled
<1>1. IInv => AnsweredIsFiled
  BY DEF IInv
<1> QED
  BY <1>1, InductiveInvariant, PTL

\* However often it is sent, a dated report is in the database once.
THEOREM NoDoubles == Spec => []FiledOnce
<1>1. IInv => FiledOnce
  BY DEF IInv
<1> QED
  BY <1>1, InductiveInvariant, PTL

\* Status rows are changes of the status.
THEOREM StatusRowsAreChanges == Spec => []StatusChanges
<1>1. IInv => StatusChanges
  BY DEF IInv
<1> QED
  BY <1>1, InductiveInvariant, PTL

\* A terminal is told of the cash box that was saved last of its own.
THEOREM LastBoxIsTold == Spec => []CashBoxIsLast
<1>1. IInv => CashBoxIsLast
  BY DEF IInv
<1> QED
  BY <1>1, InductiveInvariant, PTL

\* The accounting implements the ledger.
THEOREM AccountingImplementsLedger == Spec => ImplementsLedger
<1>1. Init => Ledger!Init
  BY LedgerInit
<1>2. IInv /\ [Next]_vars => [Ledger!Next]_(Ledger!vars)
  BY LedgerNext
<1> QED
  BY <1>1, <1>2, InductiveInvariant, PTL DEF Spec, ImplementsLedger, Ledger!Spec

=============================================================================
