-------------------------- MODULE MMSession_proofs --------------------------
(***************************************************************************)
(* Machine-checked safety of the session, for every set of terminals and   *)
(* of records, every capacity of the acknowledgement buffer and length of  *)
(* the list of tables.                                                     *)
(***************************************************************************)
EXTENDS MMSession, SequenceTheorems, TLAPS

USE DEF dbVars

\* Outside process_mm_table there is no reply and no table left; in a call there is a caller.
Scopes ==
    /\ pc # "table" => reply = NoReply /\ todo = <<>>
    /\ pc \notin {"wait", "down"} => caller \in Terminals

\* While a terminal uploads, the manager knows, or is about to see ATN_REQ_CDR_UPL; and
\* DLOG_MT_END_DATA is not among the tables it has received.
UploadKnown ==
    uploading =>
        /\ trans_data_in_progress \/ (pc = "table" /\ todo = <<Upload>>)
        /\ \A i \in 1..Len(todo) : todo[i].kind # "end"

\* The inductive invariant.
IInv ==
    /\ TypeOK
    /\ Scopes
    /\ UploadKnown
    /\ SavedBeforeAcked
    /\ UploadAcksWait

----------------------------------------------------------------------------
(* The tables a terminal sends. *)

\* The kinds of table are told apart by their kind, and only a CDR, whole or spoilt, has a number.
LEMMA TableKinds ==
    ASSUME NEW d \in Table
    PROVE  /\ d.kind \in {"cdr", "spoilt", "upload", "end", "update", "other"}
           /\ d.kind \in {"cdr", "spoilt"} => d.seq \in CDRs
  BY DEF Table, Cdr, SpoiltCdr, Upload, EndData, Update, Other

LEMMA SentTables ==
    ASSUME TypeOK, caller \in Terminals, NEW tables \in Sends
    PROVE  /\ tables \in Seq(Table)
           /\ Len(tables) \in 1..2
           /\ Len(tables) = 2 => tables[1].kind # "end"
           /\ UploadsAfter(tables) =>
                \/ tables = <<Upload>>
                \/ uploading /\ \A i \in 1..Len(tables) : tables[i].kind # "end"
<1>1. held[caller] \subseteq CDRs
  BY DEF TypeOK
<1>2. /\ Upload \in Table /\ EndData \in Table /\ Update \in Table /\ Other \in Table
      /\ \A s \in held[caller] : Cdr(s) \in Table
  BY <1>1 DEF Table
<1>3. PICK d \in Table, e \in Table : /\ tables = <<d>> \/ tables = <<d, e>>
                                      /\ tables = <<d, e>> => d.kind \in {"cdr", "other"}
                                      /\ uploading => d.kind # "upload"
                                      /\ tables = <<d, e>> /\ ~uploading => d.kind = "other"
  <2>1. /\ \A s \in held[caller] : Cdr(s).kind = "cdr"
        /\ Upload.kind = "upload" /\ EndData.kind = "end"
        /\ Update.kind = "update" /\ Other.kind = "other"
    BY DEF Cdr, Upload, EndData, Update, Other
  <2>2. CASE \E s \in held[caller] : tables = <<Cdr(s)>>
    BY <1>2, <2>1, <2>2
  <2>3. CASE uploading
    BY <1>2, <2>1, <2>2, <2>3 DEF Sends, Cards
  <2>4. CASE ~uploading
    BY <1>2, <2>1, <2>2, <2>4 DEF Sends, Cards
  <2> QED
    BY <2>3, <2>4
<1>4. CASE tables = <<d>>
  <2>1. tables \in Seq(Table) /\ Len(tables) = 1 /\ tables[1] = d
    BY <1>4
  <2>2. tables[Len(tables)] = d
    BY <2>1
  <2>3. ASSUME UploadsAfter(tables), tables # <<Upload>>
        PROVE  uploading /\ tables[Len(tables)] # EndData
    BY <2>3, Zenon DEF UploadsAfter
  <2>4. d # EndData => d.kind # "end"
    BY DEF Table, Cdr, SpoiltCdr, Upload, EndData, Update, Other
  <2> QED
    BY <2>1, <2>2, <2>3, <2>4
<1>5. CASE tables = <<d, e>>
  <2>1. /\ tables \in Seq(Table) /\ Len(tables) = 2 /\ tables[1] = d /\ tables[2] = e
        /\ d.kind # "end"
    BY <1>3, <1>5
  <2>2. UploadsAfter(tables) => uploading /\ e # EndData
    BY <2>1 DEF UploadsAfter
  <2>3. e # EndData => e.kind # "end"
    BY DEF Table, Cdr, SpoiltCdr, Upload, EndData, Update, Other
  <2> QED
    BY <2>1, <2>2, <2>3
<1> QED
  BY <1>3, <1>4, <1>5

\* The table at the head, and what is left after it.
LEMMA HeadOfTodo ==
    ASSUME TypeOK, todo # <<>>
    PROVE  /\ Head(todo) \in Table
           /\ Head(todo) = todo[1]
           /\ Tail(todo) \in Seq(Table)
           /\ Len(todo) \in Nat /\ Len(todo) > 0
           /\ Len(Tail(todo)) = Len(todo) - 1
           /\ \A i \in 1..Len(Tail(todo)) : Tail(todo)[i] = todo[i + 1]
<1>1. todo \in Seq(Table)
  BY DEF TypeOK
<1> QED
  BY <1>1, HeadTailProperties, LenProperties, SMT

\* What the buffer of acknowledgements holds.
LEMMA QueuedAcks ==
    ASSUME TypeOK
    PROVE  Queued \in SUBSET Acks
<1>1. cdr_ack_buffer \in Seq(Acks)
  BY DEF TypeOK
<1> QED
  BY <1>1, ElementOfSeq DEF Queued

\* An acknowledgement more, or none when there is no room.
LEMMA QueueAckAdds ==
    ASSUME TypeOK, SessionAssumption, NEW a \in Acks, QueueAck(a)
    PROVE  /\ cdr_ack_buffer' \in Seq(Acks)
           /\ Len(cdr_ack_buffer') <= AckRoom
           /\ Queued' \subseteq Queued \cup {a}
<1>1. /\ cdr_ack_buffer \in Seq(Acks) /\ Len(cdr_ack_buffer) <= AckRoom
      /\ Len(cdr_ack_buffer) \in Nat /\ AckRoom \in Nat
  BY LenProperties DEF TypeOK, SessionAssumption
<1>2. CASE Len(cdr_ack_buffer) < AckRoom
  <2>1. cdr_ack_buffer' = Append(cdr_ack_buffer, a)
    BY <1>2 DEF QueueAck
  <2>2. /\ Append(cdr_ack_buffer, a) \in Seq(Acks)
        /\ Len(Append(cdr_ack_buffer, a)) = Len(cdr_ack_buffer) + 1
        /\ \A i \in 1..Len(cdr_ack_buffer) : Append(cdr_ack_buffer, a)[i] = cdr_ack_buffer[i]
        /\ Append(cdr_ack_buffer, a)[Len(cdr_ack_buffer) + 1] = a
    BY <1>1, AppendProperties
  <2> QED
    BY <1>1, <1>2, <2>1, <2>2 DEF Queued
<1>3. CASE ~(Len(cdr_ack_buffer) < AckRoom)
  BY <1>1, <1>3 DEF QueueAck, Queued
<1> QED
  BY <1>2, <1>3

----------------------------------------------------------------------------
(* Every step keeps the invariant. *)

LEMMA NoReplyIsOne == NoReply \in [some : BOOLEAN, acks : SUBSET Acks]
  BY DEF NoReply

LEMMA InitIInv == ASSUME SessionAssumption, Init PROVE IInv
<1>1. Len(cdr_ack_buffer) = 0 /\ Queued = {} /\ cdr_ack_buffer \in Seq(Acks) /\ todo \in Seq(Table)
  BY DEF Init, Queued
<1>2. TypeOK
  <2>1. held \in [Terminals -> SUBSET CDRs] /\ saved \subseteq Terminals \X CDRs
    BY DEF Init
  <2>2. left \in 0..TableCount /\ retries \in 0..MAX_FAILURES /\ 0 <= AckRoom
    BY DEF Init, SessionAssumption, MAX_FAILURES
  <2> QED
    BY <1>1, <2>1, <2>2, NoReplyIsOne DEF Init, TypeOK
<1>3. Scopes /\ UploadKnown /\ SavedBeforeAcked /\ UploadAcksWait
  BY <1>1 DEF Init, Scopes, UploadKnown, SavedBeforeAcked, UploadAcksWait, NoReply
<1> QED
  BY <1>2, <1>3 DEF IInv

\* Steps outside process_mm_table that leave the tables, the upload and the queue alone.
LEMMA ControlStep ==
    ASSUME SessionAssumption, IInv,
           UNCHANGED <<cdrVars, todo, reply, table_download_pending, dbVars, held>>,
           running' \in BOOLEAN, connected' \in BOOLEAN, retries' \in 0..MAX_FAILURES,
           left' \in 0..TableCount,
           pc' = pc \/ pc # "table",
           pc' = pc \/ pc' \in {"wait", "call", "receive", "download", "ack", "retry", "down"},
           \/ caller' = caller /\ uploading' = uploading
           \/ caller' \in Terminals /\ uploading' = uploading
           \/ caller' = None /\ uploading' = FALSE,
           pc' \notin {"wait", "down"} => caller' \in Terminals
    PROVE  IInv'
<1>1. TypeOK'
  BY DEF IInv, TypeOK, cdrVars
<1>2. Scopes'
  BY DEF IInv, Scopes
<1>3. UploadKnown'
  BY DEF IInv, UploadKnown, Scopes, cdrVars
<1>4. SavedBeforeAcked' /\ UploadAcksWait'
  BY DEF IInv, SavedBeforeAcked, UploadAcksWait, Queued, cdrVars
<1> QED
  BY <1>1, <1>2, <1>3, <1>4 DEF IInv
\* The start of process_mm_table on what has arrived.
LEMMA StartStep ==
    ASSUME IInv, pc = "receive", NEW tables \in Seq(Table), Starts(tables),
           UNCHANGED <<running, retries, cdrVars, dbVars, caller, held>>,
           connected' \in BOOLEAN, uploading' \in BOOLEAN,
           uploading' => \/ tables = <<Upload>>
                         \/ uploading /\ \A i \in 1..Len(tables) : tables[i].kind # "end"
    PROVE  IInv'
<1>1. TypeOK'
  BY DEF IInv, TypeOK, Starts, cdrVars
<1>2. Scopes'
  BY DEF IInv, Scopes, Starts
<1>3. UploadKnown'
  <2>1. uploading => trans_data_in_progress
    BY DEF IInv, UploadKnown
  <2>2. Upload.kind # "end" /\ Len(<<Upload>>) = 1 /\ <<Upload>>[1] = Upload
    BY DEF Upload
  <2> QED
    BY <2>1, <2>2 DEF UploadKnown, Starts, cdrVars
<1>4. SavedBeforeAcked' /\ UploadAcksWait'
  BY DEF IInv, Scopes, SavedBeforeAcked, UploadAcksWait, Queued, Starts, cdrVars, NoReply
<1> QED
  BY <1>1, <1>2, <1>3, <1>4 DEF IInv

LEMMA ReceivedStep == ASSUME IInv, Received PROVE IInv'
<1>1. PICK tables \in Sends : Starts(tables) /\ uploading' = UploadsAfter(tables)
  BY DEF Received
<1>2. caller \in Terminals /\ TypeOK
  BY DEF IInv, Scopes, Received
<1>3. uploading' \in BOOLEAN
  BY <1>1, <1>2 DEF UploadsAfter, TypeOK
<1> QED
  BY <1>1, <1>2, <1>3, SentTables, StartStep DEF Received, mainVars, TypeOK

\* A packet that is broken off loses its end, so that DLOG_MT_END_DATA is not in it.
LEMMA BrokenOffTables ==
    ASSUME TypeOK, caller \in Terminals, NEW tables \in Sends, NEW n \in 0..1,
           n < Len(tables), NEW part \in BrokenOff(tables, n)
    PROVE  /\ part \in Seq(Table)
           /\ \A i \in 1..Len(part) : part[i].kind # "end"
<1> DEFINE first == SubSeq(tables, 1, n)
<1>1. /\ tables \in Seq(Table) /\ Len(tables) \in 1..2
      /\ Len(tables) = 2 => tables[1].kind # "end"
  BY SentTables
<1>2. first \in Seq(Table) /\ Len(first) = n /\ \A i \in 1..n : first[i] = tables[i]
  BY <1>1, SubSeqProperties
<1>3. \A i \in 1..n : first[i].kind # "end"
  <2>1. n = 1 => Len(tables) = 2 /\ first[1] = tables[1]
    BY <1>1, <1>2
  <2> HIDE DEF first
  <2> QED
    BY <1>1, <2>1
<1>4. part = first \/ \E s \in CDRs : part = Append(first, SpoiltCdr(s))
  BY DEF BrokenOff
<1> HIDE DEF first
<1>6. CASE part = first
  BY <1>2, <1>3, <1>6
<1>7. ASSUME NEW s \in CDRs, part = Append(first, SpoiltCdr(s))
      PROVE  part \in Seq(Table) /\ \A i \in 1..Len(part) : part[i].kind # "end"
  <2>0. SpoiltCdr(s) \in Table /\ SpoiltCdr(s).kind = "spoilt"
    BY DEF Table, SpoiltCdr
  <2>1. /\ Append(first, SpoiltCdr(s)) \in Seq(Table) /\ Len(Append(first, SpoiltCdr(s))) = n + 1
        /\ \A i \in 1..n : Append(first, SpoiltCdr(s))[i] = first[i]
        /\ Append(first, SpoiltCdr(s))[n + 1] = SpoiltCdr(s)
    BY <1>2, <2>0, AppendProperties
  <2> QED
    BY <1>3, <1>7, <2>0, <2>1
<1> QED
  BY <1>4, <1>6, <1>7

LEMMA ReceivedPartlyStep == ASSUME IInv, ReceivedPartly PROVE IInv'
<1>1. PICK tables \in Sends, n \in 0..1 :
        n < Len(tables) /\ \E p \in BrokenOff(tables, n) : Starts(p)
  BY DEF ReceivedPartly
<1>2. PICK part \in BrokenOff(tables, n) : Starts(part)
  BY <1>1
<1>3. caller \in Terminals /\ TypeOK
  BY DEF IInv, Scopes, ReceivedPartly
<1>4. part \in Seq(Table) /\ \A i \in 1..Len(part) : part[i].kind # "end"
  BY <1>1, <1>2, <1>3, BrokenOffTables
<1> QED
  BY <1>2, <1>3, <1>4, StartStep DEF ReceivedPartly, termVars, TypeOK

\* Damage changes no kind of table but that of the damaged CDR.
LEMMA ReceivedDamagedStep == ASSUME IInv, ReceivedDamaged PROVE IInv'
<1>0. PICK tables \in Sends : \E i \in 1..Len(tables) :
        /\ tables[i].kind = "cdr"
        /\ Starts([tables EXCEPT ![i] = SpoiltCdr(@.seq)])
        /\ uploading' = UploadsAfter(tables)
  BY DEF ReceivedDamaged
<1>1. PICK i \in 1..Len(tables) :
        /\ tables[i].kind = "cdr"
        /\ Starts([tables EXCEPT ![i] = SpoiltCdr(@.seq)])
        /\ uploading' = UploadsAfter(tables)
  BY <1>0
<1>2. caller \in Terminals /\ TypeOK
  BY DEF IInv, Scopes, ReceivedDamaged
<1>3. /\ tables \in Seq(Table) /\ Len(tables) \in 1..2
      /\ UploadsAfter(tables) =>
           \/ tables = <<Upload>>
           \/ uploading /\ \A j \in 1..Len(tables) : tables[j].kind # "end"
  BY <1>2, SentTables
<1>4. tables # <<Upload>>
  <2>1. Len(<<Upload>>) = 1 /\ <<Upload>>[1].kind = "upload"
    BY DEF Upload
  <2> QED
    BY <1>1, <2>1
<1> DEFINE d == SpoiltCdr(tables[i].seq)
           part == [tables EXCEPT ![i] = d]
<1>5. d \in Table /\ d.kind = "spoilt"
  <2>1. tables[i] \in Table
    BY <1>3
  <2> QED
    BY <1>1, <2>1, TableKinds DEF Table, SpoiltCdr
<1>6. Starts(part)
  BY <1>1
<1> HIDE DEF d
<1>7. /\ part \in Seq(Table) /\ Len(part) = Len(tables)
      /\ \A j \in 1..Len(tables) : part[j] = IF j = i THEN d ELSE tables[j]
  BY <1>3, <1>5, ExceptSeq
<1> HIDE DEF part
<1>8. uploading' => uploading /\ \A j \in 1..Len(part) : part[j].kind # "end"
  BY <1>1, <1>3, <1>4, <1>5, <1>7
<1>9. uploading' \in BOOLEAN
  BY <1>1, <1>2 DEF UploadsAfter, TypeOK
<1> QED
  BY <1>2, <1>6, <1>7, <1>8, <1>9, StartStep DEF ReceivedDamaged, mainVars, TypeOK

LEMMA ReceivedShortStep == ASSUME IInv, ReceivedShort PROVE IInv'
<1>1. Len(<<>>) = 0 /\ <<>> \in Seq(Table)
  OBVIOUS
<1>2. uploading \in BOOLEAN /\ connected \in BOOLEAN
  BY DEF IInv, TypeOK
<1>3. uploading => \A i \in 1..Len(<<>>) : <<>>[i].kind # "end"
  BY <1>1
<1> QED
  BY <1>1, <1>2, <1>3, StartStep DEF ReceivedShort, mainVars, termVars

\* What the loop over the tables of a packet leaves alone.
LEMMA TodoStep ==
    ASSUME IInv, NEW k, ThisTable(k)
    PROVE  /\ pc = "table" /\ todo # <<>> /\ Head(todo) \in Table /\ Head(todo).kind = k
           /\ todo' \in Seq(Table)
           /\ caller \in Terminals
           /\ uploading' =>
                /\ trans_data_in_progress \/ k = "upload"
                /\ k # "end"
                /\ \A i \in 1..Len(todo') : todo'[i].kind # "end"
<1>1. /\ pc = "table" /\ todo # <<>> /\ Head(todo).kind = k /\ todo' = Tail(todo)
      /\ uploading' = uploading /\ TypeOK
  BY DEF ThisTable, IInv, termVars
<1>2. caller \in Terminals
  BY <1>1 DEF IInv, Scopes
<1>3. /\ Head(todo) \in Table /\ Head(todo) = todo[1] /\ Tail(todo) \in Seq(Table)
      /\ Len(todo) \in Nat /\ Len(todo) > 0 /\ Len(Tail(todo)) = Len(todo) - 1
      /\ \A i \in 1..Len(Tail(todo)) : Tail(todo)[i] = todo[i + 1]
  BY <1>1, HeadOfTodo
<1>4. ASSUME uploading
      PROVE  /\ trans_data_in_progress \/ k = "upload"
             /\ \A i \in 1..Len(todo) : todo[i].kind # "end"
  <2>1. todo = <<Upload>> => Head(todo) = Upload
    BY <1>3
  <2> QED
    BY <1>1, <1>4, <2>1 DEF IInv, UploadKnown, Upload
<1> QED
  BY <1>1, <1>2, <1>3, <1>4

\* Steps of that loop that add no acknowledgement.
LEMMA NoAckStep ==
    ASSUME IInv, NEW k, ThisTable(k), k # "end",
           trans_data_in_progress' \in BOOLEAN,
           trans_data_in_progress => trans_data_in_progress',
           k = "upload" => trans_data_in_progress',
           UNCHANGED <<cdr_ack_buffer, dbVars>>,
           table_download_pending' \in BOOLEAN,
           NEW some \in BOOLEAN, reply' = [some |-> some, acks |-> reply.acks]
    PROVE  IInv'
<1> USE TodoStep
<1>1. TypeOK'
  BY DEF IInv, TypeOK, ThisTable, mainVars, termVars
<1>2. Scopes' /\ UploadKnown'
  BY DEF IInv, Scopes, UploadKnown, ThisTable, termVars
<1>3. SavedBeforeAcked' /\ UploadAcksWait'
  BY DEF IInv, SavedBeforeAcked, UploadAcksWait, Queued, ThisTable, termVars
<1> QED
  BY <1>1, <1>2, <1>3 DEF IInv

LEMMA BeginUploadStep == ASSUME IInv, BeginUpload PROVE IInv'
<1>1. reply' = [some |-> TRUE, acks |-> reply.acks]
  BY DEF BeginUpload, IInv, TypeOK
<1> QED
  BY <1>1, NoAckStep DEF BeginUpload, IInv, TypeOK

LEMMA RequestTablesStep == ASSUME IInv, RequestTables PROVE IInv'
<1>1. reply' = [some |-> TRUE, acks |-> reply.acks]
  BY DEF RequestTables, IInv, TypeOK
<1> QED
  BY <1>1, NoAckStep DEF RequestTables, cdrVars, IInv, TypeOK

LEMMA OtherTableStep == ASSUME IInv, OtherTable PROVE IInv'
<1>1. PICK b \in BOOLEAN : reply' = [reply EXCEPT !.some = @ \/ b]
  BY DEF OtherTable
<1>2. /\ reply' = [some |-> (reply.some \/ b), acks |-> reply.acks]
      /\ (reply.some \/ b) \in BOOLEAN
  BY <1>1 DEF IInv, TypeOK
<1> QED
  BY <1>2, NoAckStep DEF OtherTable, cdrVars, IInv, TypeOK

LEMMA EndUploadStep == ASSUME SessionAssumption, IInv, EndUpload PROVE IInv'
<1> USE DEF EndUpload
<1>1. /\ ThisTable("end") /\ ~uploading' /\ uploading' = uploading
      /\ todo' \in Seq(Table) /\ pc = "table" /\ caller \in Terminals
  BY TodoStep DEF ThisTable, termVars, IInv, TypeOK
<1>2. Queued' = {} /\ Len(cdr_ack_buffer') = 0 /\ cdr_ack_buffer' \in Seq(Acks)
  BY DEF Queued
<1>3. TypeOK'
  <2>1. reply' \in [some : BOOLEAN, acks : SUBSET Acks]
    BY QueuedAcks DEF IInv, TypeOK
  <2>2. Len(cdr_ack_buffer') <= AckRoom
    BY <1>2 DEF SessionAssumption
  <2>3. trans_data_in_progress' \in BOOLEAN /\ table_download_pending' \in BOOLEAN
    BY DEF IInv, TypeOK
  <2>4. UNCHANGED <<running, connected, retries, pc, left, caller, uploading, held, dbVars>>
    BY <1>1 DEF ThisTable, mainVars, termVars
  <2> HIDE DEF EndUpload
  <2> QED
    BY <1>1, <1>2, <2>1, <2>2, <2>3, <2>4 DEF IInv, TypeOK
<1>4. Scopes' /\ UploadKnown'
  BY <1>1 DEF IInv, Scopes, UploadKnown, ThisTable, termVars
<1>5. SavedBeforeAcked' /\ UploadAcksWait'
  BY <1>1, <1>2 DEF IInv, SavedBeforeAcked, UploadAcksWait
<1> QED
  BY <1>3, <1>4, <1>5 DEF IInv

LEMMA SaveCDRStep == ASSUME SessionAssumption, IInv, SaveCDR PROVE IInv'
<1> DEFINE a == [from |-> caller, seq |-> Head(todo).seq]
<1> HIDE DEF a
<1>0. PICK k \in {"cdr", "spoilt"} : ThisTable(k)
  BY DEF SaveCDR
<1>1. /\ Save(a)
      /\ UNCHANGED <<trans_data_in_progress, table_download_pending>>
      /\ \/ trans_data_in_progress /\ QueueAck(a) /\ UNCHANGED reply
         \/ /\ ~trans_data_in_progress
            /\ reply' = [some |-> TRUE, acks |-> reply.acks \cup {a}]
            /\ UNCHANGED cdr_ack_buffer
  BY DEF SaveCDR, a
<1>2. /\ pc = "table" /\ caller \in Terminals /\ todo' \in Seq(Table)
      /\ Head(todo) \in Table /\ Head(todo).kind \in {"cdr", "spoilt"}
      /\ uploading' => /\ trans_data_in_progress
                       /\ \A i \in 1..Len(todo') : todo'[i].kind # "end"
  BY <1>0, TodoStep
<1>3. a \in Acks /\ a.from = caller /\ <<a.from, a.seq>> \in Terminals \X CDRs
  BY <1>2, TableKinds DEF a, Acks
<1>4. saved' = saved \cup {<<a.from, a.seq>>} /\ spoilt' \subseteq saved'
  BY <1>1 DEF Save, IInv, TypeOK
<1>5. UNCHANGED <<running, connected, retries, pc, left, caller, uploading, held>>
  BY <1>0 DEF ThisTable, mainVars, termVars
<1>6. CASE trans_data_in_progress
  <2>1. QueueAck(a) /\ UNCHANGED reply
    BY <1>1, <1>6
  <2>2. /\ cdr_ack_buffer' \in Seq(Acks) /\ Len(cdr_ack_buffer') <= AckRoom
        /\ Queued' \subseteq Queued \cup {a}
    BY <1>3, <2>1, QueueAckAdds DEF IInv
  <2>3. TypeOK'
    BY <1>1, <1>2, <1>3, <1>4, <1>5, <2>1, <2>2 DEF IInv, TypeOK
  <2>4. Scopes' /\ UploadKnown'
    BY <1>1, <1>2, <1>5, <1>6 DEF Scopes, UploadKnown
  <2>5. SavedBeforeAcked' /\ UploadAcksWait'
    BY <1>4, <1>5, <2>1, <2>2 DEF IInv, SavedBeforeAcked, UploadAcksWait
  <2> QED
    BY <2>3, <2>4, <2>5 DEF IInv
<1>7. CASE ~trans_data_in_progress
  <2>1. /\ reply' = [some |-> TRUE, acks |-> reply.acks \cup {a}]
        /\ UNCHANGED cdr_ack_buffer /\ ~uploading'
    BY <1>1, <1>2, <1>7
  <2>2. TypeOK'
    BY <1>1, <1>2, <1>3, <1>4, <1>5, <2>1 DEF IInv, TypeOK
  <2>3. Scopes' /\ UploadKnown'
    BY <1>2, <1>5, <2>1 DEF Scopes, UploadKnown
  <2>4. SavedBeforeAcked' /\ UploadAcksWait'
    BY <1>4, <2>1 DEF IInv, SavedBeforeAcked, UploadAcksWait, Queued
  <2> QED
    BY <2>2, <2>3, <2>4 DEF IInv
<1> QED
  BY <1>6, <1>7

LEMMA ReplyStep == ASSUME SessionAssumption, IInv, Reply PROVE IInv'
<1> USE DEF Reply
<1>1. connected' \in BOOLEAN /\ held' \in [Terminals -> SUBSET CDRs]
  BY DEF IInv, TypeOK, Drop
<1>2. left' \in 0..TableCount /\ retries' \in 0..MAX_FAILURES
  BY DEF IInv, TypeOK, SessionAssumption, MAX_FAILURES
<1>3. pc' \in {"download", "call"} /\ reply' = NoReply /\ todo' = todo /\ todo = <<>>
  OBVIOUS
<1>4. TypeOK'
  BY <1>1, <1>2, <1>3, NoReplyIsOne DEF IInv, TypeOK, cdrVars
<1>5. Scopes'
  BY <1>3 DEF IInv, Scopes
<1>6. UploadKnown'
  BY <1>3 DEF IInv, UploadKnown, cdrVars
<1>7. SavedBeforeAcked' /\ UploadAcksWait'
  BY <1>3 DEF IInv, SavedBeforeAcked, UploadAcksWait, Queued, cdrVars, NoReply
<1> QED
  BY <1>4, <1>5, <1>6, <1>7 DEF IInv

\* The steps of main, of the download, and of SIGINT.
LEMMA MainStep ==
    ASSUME SessionAssumption, IInv,
           \/ Interrupt \/ (\E t \in Terminals : Call(t)) \/ ModemError \/ NoCall
           \/ NextTable \/ EndCall \/ NotReceived
    PROVE  IInv'
<1>1. /\ TypeOK /\ Scopes
  BY DEF IInv
<1>2. CASE Interrupt
  BY <1>1, <1>2, ControlStep DEF Interrupt, TypeOK, Scopes, cdrVars, tableVars, termVars
<1>3. ASSUME NEW t \in Terminals, Call(t) PROVE IInv'
  BY <1>1, <1>3, ControlStep DEF Call, TypeOK, cdrVars, tableVars
<1>4. CASE ModemError
  BY <1>1, <1>4, ControlStep DEF ModemError, TypeOK, cdrVars, tableVars, termVars
<1>5. CASE NoCall
  BY <1>1, <1>5, ControlStep DEF NoCall, TypeOK, mainVars, cdrVars, tableVars, termVars
<1>6. CASE NextTable
  <2>1. retries' \in 0..MAX_FAILURES
    BY <1>1, <1>6 DEF NextTable, GoesOn, TypeOK, MAX_FAILURES
  <2> QED
    BY <1>1, <1>6, <2>1, ControlStep DEF NextTable, TypeOK, Scopes, cdrVars, tableVars, termVars
<1>7. CASE EndCall
  <2>0. connected' \in BOOLEAN /\ retries' = 0
    BY <1>7 DEF EndCall
  <2>1. retries' \in 0..MAX_FAILURES
    BY <2>0 DEF MAX_FAILURES
  <2>2. pc' \in {"wait", "down"}
    BY <1>7 DEF EndCall
  <2> QED
    BY <1>1, <1>7, <2>0, <2>1, <2>2, ControlStep DEF EndCall, TypeOK, cdrVars, tableVars
<1>8. CASE NotReceived
  BY <1>1, <1>8, ControlStep DEF NotReceived, TypeOK, Scopes, cdrVars, tableVars, termVars
<1> QED
  BY <1>2, <1>3, <1>4, <1>5, <1>6, <1>7, <1>8

LEMMA DownloadStep == ASSUME SessionAssumption, IInv, Download PROVE IInv'
<1>1. TypeOK /\ Scopes
  BY DEF IInv
<1>2. LinkMayDrop => connected' \in BOOLEAN
  BY DEF LinkMayDrop
<1>3. CASE NotAwaited
  <2>1. left' \in 0..TableCount
    BY <1>1, <1>3 DEF NotAwaited, TypeOK, SessionAssumption
  <2> QED
    BY <1>1, <1>2, <1>3, <2>1, ControlStep DEF NotAwaited, TypeOK, Scopes, cdrVars, termVars
<1>4. CASE Sent
  <2>1. left' \in 0..TableCount
    BY <1>1, <1>4 DEF Sent, TypeOK, SessionAssumption
  <2> QED
    BY <1>1, <1>2, <1>4, <2>1, ControlStep DEF Sent, TypeOK, Scopes, cdrVars, termVars
<1>5. CASE EndDownload
  <2>1. left' \in 0..TableCount /\ retries' \in 0..MAX_FAILURES
    BY <1>5 DEF EndDownload, SessionAssumption, MAX_FAILURES
  <2> QED
    BY <1>1, <1>5, <2>1, ControlStep DEF EndDownload, TypeOK, Scopes, cdrVars, termVars
<1>6. CASE TableAckEnds
  BY <1>1, <1>2, <1>6, ControlStep DEF TableAckEnds, TypeOK, Scopes, cdrVars, tableVars, termVars
<1>7. CASE AskRetry
  BY <1>1, <1>7, ControlStep DEF AskRetry, TypeOK, Scopes, mainVars, cdrVars, tableVars, termVars
<1>8. CASE RetryAnswered
  <2>1. pc' \in {"ack", "download"}
    BY <1>8 DEF RetryAnswered
  <2> QED
    BY <1>1, <1>2, <1>8, <2>1, ControlStep DEF RetryAnswered, TypeOK, Scopes, cdrVars, tableVars, termVars
<1> QED
  BY <1>3, <1>4, <1>5, <1>6, <1>7, <1>8 DEF Download

LEMMA Stutter == ASSUME IInv, UNCHANGED vars PROVE IInv'
<1> USE DEF vars, mainVars, cdrVars, tableVars, termVars
<1>1. TypeOK'
  BY DEF IInv, TypeOK
<1>2. Scopes' /\ UploadKnown'
  BY DEF IInv, Scopes, UploadKnown
<1>3. SavedBeforeAcked' /\ UploadAcksWait'
  BY DEF IInv, SavedBeforeAcked, UploadAcksWait, Queued
<1> QED
  BY <1>1, <1>2, <1>3 DEF IInv

LEMMA NextIInv == ASSUME SessionAssumption, IInv, [Next]_vars PROVE IInv'
<1>1. CASE Interrupt \/ (\E t \in Terminals : Call(t))
  BY <1>1, MainStep
<1>2. CASE Manager
  <2>1. CASE NoCall \/ ModemError \/ NextTable \/ EndCall
    BY <2>1, MainStep
  <2>2. CASE Receive
    BY <2>2, ReceivedStep, ReceivedPartlyStep, ReceivedDamagedStep, ReceivedShortStep,
       MainStep DEF Receive
  <2>3. CASE ProcessTable
    BY <2>3, SaveCDRStep, BeginUploadStep, EndUploadStep, RequestTablesStep, OtherTableStep
       DEF ProcessTable
  <2>4. CASE Reply
    BY <2>4, ReplyStep
  <2>5. CASE Download
    BY <2>5, DownloadStep
  <2> QED
    BY <1>2, <2>1, <2>2, <2>3, <2>4, <2>5 DEF Manager
<1>3. CASE UNCHANGED vars
  BY <1>3, Stutter
<1> QED
  BY <1>1, <1>2, <1>3 DEF Next

----------------------------------------------------------------------------
(* The theorems. *)

\* The inductive invariant holds in every state of the session.
THEOREM InductiveInvariant == Spec => []IInv
<1>1. Init => IInv
  BY InitIInv, SessionAssumption
<1>2. IInv /\ [Next]_vars => IInv'
  BY NextIInv, SessionAssumption
<1> QED
  BY <1>1, <1>2, PTL DEF Spec

\* Type correctness: cdr_ack_buffer never holds more than it has room for, and the failures
\* main counts stay within MAX_FAILURES, whatever the terminals send and wherever a call
\* drops.
THEOREM TypeCorrect == Spec => []TypeOK
<1>1. IInv => TypeOK
  BY DEF IInv
<1> QED
  BY <1>1, InductiveInvariant, PTL

\* process_mm_table never has an acknowledgement to send, now or queued from an earlier
\* call, of a record that it has not handed to mm_acct_save_TCDR under its terminal.
THEOREM AcksFollowSaves == Spec => []SavedBeforeAcked
<1>1. IInv => SavedBeforeAcked
  BY DEF IInv
<1> QED
  BY <1>1, InductiveInvariant, PTL

\* While a terminal uploads, process_mm_table acknowledges none of its records, even when
\* the upload follows a call that dropped in the middle of another.
THEOREM AcksWaitForEnd == Spec => []UploadAcksWait
<1>1. IInv => UploadAcksWait
  BY DEF IInv
<1> QED
  BY <1>1, InductiveInvariant, PTL

\* With a single terminal no record is lost: an acknowledgement that a dropped call leaves in
\* the queue can only come back to the terminal that sent the record.  With two it can not be
\* proved, and the model has the counterexample.
THEOREM OneTerminalLosesNothing ==
    ASSUME \A t, u \in Terminals : t = u
    PROVE  Spec => []NoRecordLost
<1>1. Init => NoRecordLost
  BY DEF Init, NoRecordLost
<1>2. IInv /\ NoRecordLost /\ [Next]_vars => NoRecordLost'
  <2> SUFFICES ASSUME IInv, NoRecordLost, [Next]_vars PROVE NoRecordLost'
    OBVIOUS
  <2>1. saved \subseteq saved'
    <3>1. Next => saved \subseteq saved'
      BY DEF Next, Manager, Receive, ProcessTable, Download, Interrupt, Call, ModemError, NoCall,
             NextTable, EndCall, Received, ReceivedPartly, ReceivedDamaged, ReceivedShort,
             NotReceived, SaveCDR,
             Save, BeginUpload, EndUpload, RequestTables, OtherTable, Reply, NotAwaited, Sent,
             EndDownload, TableAckEnds, AskRetry, RetryAnswered
    <3> QED
      BY <3>1 DEF vars
  <2>2. held' = held \/ (Reply /\ Drop(reply.acks))
    <3>1. Next => held' = held \/ (Reply /\ Drop(reply.acks))
      BY DEF Next, Manager, Receive, ProcessTable, Download, Interrupt, Call, ModemError, NoCall,
             NextTable, EndCall, Received, ReceivedPartly, ReceivedDamaged, ReceivedShort,
             NotReceived, SaveCDR,
             BeginUpload, EndUpload, RequestTables, OtherTable, Reply, NotAwaited, Sent,
             EndDownload, TableAckEnds, AskRetry, RetryAnswered, ThisTable, termVars
    <3> QED
      BY <3>1 DEF vars, termVars
  <2>3. CASE held' = held
    BY <2>1, <2>3 DEF NoRecordLost
  <2>4. CASE Reply /\ Drop(reply.acks)
    <3>1. caller \in Terminals /\ reply.acks \subseteq Acks /\ held \in [Terminals -> SUBSET CDRs]
      BY <2>4 DEF IInv, Scopes, TypeOK, Reply
    <3>2. \A a \in reply.acks : a.from = caller /\ <<caller, a.seq>> \in saved
      BY <3>1 DEF IInv, SavedBeforeAcked, Acks
    <3>3. held' = [held EXCEPT ![caller] = @ \ {a.seq : a \in reply.acks}]
      BY <2>4 DEF Drop
    <3> SUFFICES ASSUME NEW t \in Terminals, NEW s \in CDRs, s \notin held'[t]
                 PROVE  <<t, s>> \in saved'
      BY DEF NoRecordLost
    <3>4. CASE s \in held[t]
      BY <2>1, <3>1, <3>2, <3>3, <3>4
    <3>5. CASE s \notin held[t]
      BY <2>1, <3>5 DEF NoRecordLost
    <3> QED
      BY <3>4, <3>5
  <2> QED
    BY <2>2, <2>3, <2>4
<1> QED
  BY <1>1, <1>2, InductiveInvariant, PTL DEF Spec

=============================================================================
