-------------------------------- MODULE MMModem --------------------------------
(***************************************************************************)
(* The modem and how mm_manager talks to it (mm_modem.c, mm_serial.c,      *)
(* mm_serial_posix.c): AT commands and their answers, and what the modem   *)
(* says unasked: RING, CONNECT, NO CARRIER.  MMLifecycle composes it with  *)
(* the program that opens the modem and waits for calls.                   *)
(*                                                                         *)
(* The modem's words come in lines.  A read waits one second for a byte; a *)
(* line that comes in two pieces with a longer pause between them is torn: *)
(* wait_for_modem_response looks at each piece by itself, and at the next  *)
(* piece with an empty buffer.                                             *)
(***************************************************************************)
EXTENDS Naturals, Sequences

CONSTANTS
    None,
    AT_TRIES,       \* the tries of send_at_command (3)
    RSP_TRIES,      \* the tries of its wait_for_modem_response (5)
    MaxLines,       \* bound: lines waiting to be read
    MaxSaid,        \* bound: what the modem says unasked
    MaxTorn         \* bound: lines that come in two pieces

ASSUME ModemAssumption ==
    /\ {AT_TRIES, RSP_TRIES} \subseteq Nat \ {0}
    /\ {MaxLines, MaxSaid, MaxTorn} \subseteq Nat
    /\ None \notin {"OK", "ERROR", "RING", "CONNECT", "NO CARRIER", "other", "NULL",
                    "READ_ERROR", "reset", "init"}

\* modem_responses; "other" is any line that holds none of them.
Words == {"OK", "ERROR", "RING", "CONNECT", "NO CARRIER"}
Responses == Words \cup {"NULL", "READ_ERROR"}
Commands == {"reset", "init"}
Pieces == [word : Words \cup {"other"}, part : {"line", "head", "tail"}]
Line(w) == [word |-> w, part |-> "line"]

VARIABLES
    \* wait_for_modem_response: the tries it has left (0: not in it), its buffer
    left, buf,
    \* send_at_command: the command (None: not in it), the tries made
    command, tries,
    \* the port: what it holds for the next read; does reading it fail?  Or is it a file?
    rx, broken, testing,
    \* the modem: commands it has to answer, the last it accepted, its line, the rest of a
    \* line it is sending
    cmds, config, line, saying,
    \* history: an answer came after the try it answers; CONNECT did not reach
    \* mm_connection_wait in one piece; bounded counts of the modem's doings
    late, missed, said, torn

readVars == <<left, buf>>
cmdVars == <<command, tries>>
portVars == <<broken, testing>>
modemVars == <<cmds, config, line, saying, late, said, torn>>
allModemVars == <<readVars, cmdVars, rx, portVars, modemVars, missed>>

ModemTypeOK ==
    /\ left \in 0..RSP_TRIES /\ buf \in Words \cup {"other", None}
    /\ command \in Commands \cup {None} /\ tries \in 0..AT_TRIES
    /\ rx \in Seq(Pieces) /\ broken \in BOOLEAN /\ testing \in BOOLEAN
    /\ cmds \in Seq([text : Commands, old : BOOLEAN])
    /\ config \in Commands \cup {None, "kept"}
    /\ line \in {"idle", "up"} /\ saying \in Words \cup {"other", None}
    /\ late \in BOOLEAN /\ missed \in BOOLEAN
    /\ said \in 0..MaxSaid /\ torn \in 0..MaxTorn

\* "kept" is what an earlier start left in the modem: it answers calls already.
ModemInit ==
    /\ left = 0 /\ buf = None
    /\ command = None /\ tries = 0
    /\ rx = <<>> /\ broken = FALSE /\ testing = TRUE
    /\ cmds = <<>> /\ config \in {None, "kept"} /\ line = "idle" /\ saying = None
    /\ late = FALSE /\ missed = FALSE /\ said = 0 /\ torn = 0

----------------------------------------------------------------------------
(* The modem and the line. *)

\* A word reaches the port in a line, or in two pieces.
Says(w) ==
    /\ saying = None /\ Len(rx) < MaxLines
    /\ \/ rx' = Append(rx, Line(w)) /\ UNCHANGED <<saying, torn>>
       \/ /\ ~testing /\ torn < MaxTorn /\ torn' = torn + 1
          /\ rx' = Append(rx, [word |-> w, part |-> "head"])
          /\ saying' = w

Finishes ==
    /\ saying # None
    /\ rx' = Append(rx, [word |-> saying, part |-> "tail"])
    /\ saying' = None
    /\ UNCHANGED <<readVars, cmdVars, portVars, cmds, config, line, late, missed, said, torn>>

\* The modem accepts a command or refuses it.
Answers ==
    /\ cmds # <<>> /\ line = "idle"
    /\ \/ Says("OK") /\ config' = Head(cmds).text
       \/ Says("ERROR") /\ UNCHANGED config
    /\ cmds' = Tail(cmds)
    /\ late' = (late \/ Head(cmds).old)
    /\ UNCHANGED <<readVars, cmdVars, portVars, line, missed, said>>

Unasked(w) ==
    /\ said < MaxSaid /\ said' = said + 1
    /\ Says(w)
    /\ UNCHANGED <<readVars, cmdVars, portVars, cmds, config, late>>

\* The echo of a command, the second byte of an ended line, noise; in a test also any other
\* response.
Babbles == Unasked("other") /\ UNCHANGED <<line, missed>>
FileSays == testing /\ \E w \in Words : Unasked(w) /\ UNCHANGED <<line, missed>>
Rings == ~testing /\ line = "idle" /\ Unasked("RING") /\ UNCHANGED <<line, missed>>

\* S0=1: the modem answers the call.
CallComes ==
    /\ ~testing /\ line = "idle" /\ cmds = <<>> /\ config \in {"kept", "init"}
    /\ Unasked("CONNECT")
    /\ line' = "up" /\ missed' = FALSE
CallGoes ==
    /\ line = "up"
    /\ Unasked("NO CARRIER")
    /\ line' = "idle" /\ UNCHANGED missed

PortFails ==
    /\ ~testing /\ ~broken
    /\ broken' = TRUE
    /\ UNCHANGED <<readVars, cmdVars, rx, testing, modemVars, missed>>

ModemNext ==
    \/ Finishes \/ Answers \/ Babbles \/ FileSays \/ Rings \/ CallComes \/ CallGoes
    \/ PortFails

----------------------------------------------------------------------------
(* mm_modem.c *)

Holds(w) == \E i \in 1..Len(rx) : rx[i].word = w

\* tcdrain waits for the output; the input stays.
Drained_Input(s) == <<>>
Drained(s) == s

\* flush_serial discards the input of a port, and nothing of a file.
Flushed_Not(s) == s
Flushed(s) == IF testing THEN s ELSE <<>>

\* wait_for_modem_response begins, with s in the port.
BeginWait(n, s) ==
    /\ left = 0
    /\ left' = n /\ buf' = None /\ rx' = Drained(s)

\* One try of send_at_command: flush, write, wait.  A write of no bytes is a try too; a
\* write that fails is not seen.  A modem that is in a call takes a command for data.
Old(c) == [i \in 1..Len(c) |-> [c[i] EXCEPT !.old = TRUE]]

CanTry_Again == tries <= AT_TRIES
CanTry == tries < AT_TRIES
TryCommand ==
    /\ command # None /\ left = 0 /\ CanTry
    /\ tries' = tries + 1
    /\ missed' = (missed \/ line = "up")
    /\ \/ /\ BeginWait(RSP_TRIES, Flushed(rx))
          /\ cmds' = IF broken \/ testing \/ line = "up" THEN Old(cmds)
                     ELSE Append(Old(cmds), [text |-> command, old |-> FALSE])
       \/ ~testing /\ rx' = Flushed(rx) /\ cmds' = Old(cmds) /\ UNCHANGED readVars
    /\ UNCHANGED <<command, portVars, config, line, saying, late, said, torn>>

\* send_at_command is at the end of its tries, of which none was answered by OK.
CommandFailed == command # None /\ left = 0 /\ ~CanTry

\* A try ends with a line or a piece of one; r is what the caller gets, or None as long as
\* tries are left.
Try(w, r) ==
    /\ buf' = None
    /\ IF w = "other" /\ left > 1 THEN r = None /\ left' = left - 1
       ELSE r = (IF w = "other" THEN "NULL" ELSE w) /\ left' = 0

\* What is read of a line when its first piece is in the buffer or was lost with it.
Whole(piece) ==
    IF piece.part = "line" \/ (piece.part = "tail" /\ buf = piece.word) THEN piece.word
    ELSE "other"

\* read_serial, once or more: the rest of a line, its first piece, a second without a byte,
\* an error.  A file has no pauses: at its end the program ends (MMLifecycle).
ReadsLine(r) ==
    /\ ~broken /\ rx # <<>> /\ Head(rx).part # "head"
    /\ Try(Whole(Head(rx)), r)
    /\ rx' = Tail(rx)
    /\ missed' = (missed \/ (command # None /\ Head(rx).word = "CONNECT"))
ReadsPiece(r) ==
    /\ ~broken /\ rx # <<>> /\ Head(rx).part = "head"
    /\ r = None /\ buf' = Head(rx).word /\ rx' = Tail(rx)
    /\ UNCHANGED <<left, missed>>
ReadsNothing(r) ==
    /\ ~broken /\ ~testing /\ rx = <<>>
    /\ Try("other", r)
    /\ missed' = (missed \/ buf = "CONNECT")
    /\ UNCHANGED rx
ReadFails(r) ==
    /\ broken
    /\ r = "READ_ERROR" /\ left' = 0 /\ buf' = None
    /\ UNCHANGED <<rx, missed>>

Reads(r) ==
    /\ left > 0
    /\ ReadsLine(r) \/ ReadsPiece(r) \/ ReadsNothing(r) \/ ReadFails(r)
    /\ UNCHANGED <<portVars, modemVars>>

\* hangup_modem: DTR off for a second.  A modem in a call hangs up, and may say so.
HangsUp ==
    /\ line' = "idle"
    /\ \/ UNCHANGED <<rx, saying, torn>>
       \/ ~testing /\ line = "up" /\ Says("NO CARRIER")

================================================================================
