------------------------------ MODULE MMLifecycle ------------------------------
(***************************************************************************)
(* mm_manager from its command line to its end: the options, the database  *)
(* and its table of terminal types, the connection to the modem (MMModem), *)
(* the calls, SIGINT and mm_shutdown; what it opens and what it closes.    *)
(* What happens in a call is MMProto, MMSession and MMDownload.            *)
(*                                                                         *)
(* pc says where main is:                                                  *)
(*   exited    not running                                                 *)
(*   options   in the loop over the options                                *)
(*   database  in mm_open_database                                         *)
(*   connect   in mm_connection_open, before the modem is initialized      *)
(*   reset, init   in init_modem                                           *)
(*   loop      at the head of the main loop                                *)
(*   wait      in mm_connection_wait                                       *)
(*   call      in a call                                                   *)
(*   hangup    in proto_disconnect                                         *)
(***************************************************************************)
EXTENDS MMModem, FiniteSets

CONSTANTS
    Editions,       \* control ROM editions
    Types,          \* terminal types
    Unknown,        \* MTR_UNKNOWN: what is read where there is no row
    Failed,         \* 0xFF: what is read when the SELECT fails
    FirstFiles,     \* bound: the files of terminal types that are there at first
    MaxStarts,      \* bound: starts of the program
    MaxOptions,     \* bound: things opened by options in one start
    MaxEdits,       \* bound: edits of the file of terminal types
    Mixed           \* bound: does the modem speak unasked, too, when options open something
                    \* or the program is started again?

NoFile == [e \in Editions |-> Failed]       \* there is no file
Files == [Editions -> Types \cup {Unknown}] \cup {NoFile}

ASSUME LifecycleAssumption ==
    /\ {Unknown, Failed, None} \cap Types = {}
    /\ FirstFiles \subseteq Files
    /\ {MaxStarts, MaxOptions, MaxEdits} \subseteq Nat
    /\ Mixed \in BOOLEAN

\* What is opened: the log, the packet capture, the UDP socket, the database, the test
\* file, the serial port.
ObjectKinds == {"log", "pcap", "udp", "database", "file", "port"}
Objects == [kind : ObjectKinds, closed : 0..4]
Streams == {"log", "pcap", "file"}

Repeatable == {"log", "pcap", "udp"}
Locals == {"log", "pcap", "udp", "database", "file", "port"}

VARIABLES
    pc, running, connected,
    \* everything opened in this start, and which of it each variable of the program means
    \* (0: none); is send_udp set?
    objects, cur, send_udp,
    \* the database's table of terminal types and the file it is filled from; the type of
    \* the terminal
    termtyp, csv, terminal_type,
    \* bounded counts; history: the options given, and given again, and how this start went
    starts, edits, given, again, opened, ending

mainVars == <<pc, running, connected>>
objVars == <<objects, cur, send_udp>>
typeVars == <<termtyp, csv, terminal_type, edits>>
optVars == <<given, again>>
endVars == <<opened, ending>>
vars == <<allModemVars, mainVars, objVars, typeVars, starts, optVars, endVars>>


NoObjects == [l \in Locals |-> 0]

TypeOK ==
    /\ ModemTypeOK
    /\ pc \in {"exited", "options", "database", "connect", "reset", "init", "loop", "wait",
               "hangup", "call"}
    /\ running \in BOOLEAN /\ connected \in BOOLEAN
    /\ objects \in Seq(Objects)
    /\ cur \in [Locals -> 0..(MaxOptions + 2)] /\ send_udp \in BOOLEAN
    /\ termtyp \in [Editions -> Types \cup {Unknown}]
    /\ csv \in Files
    /\ terminal_type \in Types \cup {Unknown, Failed}
    /\ starts \in 0..MaxStarts /\ edits \in 0..MaxEdits
    /\ given \subseteq Repeatable /\ again \subseteq given
    /\ opened \in {"not", "failed", "yes"} /\ ending \in {"none", "shutdown", "left", "eof"}

Init ==
    /\ ModemInit
    /\ pc = "exited" /\ running = TRUE /\ connected = FALSE
    /\ objects = <<>> /\ cur = NoObjects /\ send_udp = FALSE
    /\ termtyp = [e \in Editions |-> Unknown] /\ csv \in FirstFiles
    /\ terminal_type = Unknown
    /\ starts = 0 /\ edits = 0 /\ given = {} /\ again = {}
    /\ opened = "not" /\ ending = "none"

----------------------------------------------------------------------------
(* Opening and closing. *)

Opened(objs, k) == Append(objs, [kind |-> k, closed |-> 0])

\* The object is closed by every one of its names that is closed.
ClosedIn(objs, c, names) ==
    [i \in 1..Len(objs) |->
        [objs[i] EXCEPT !.closed = @ + Cardinality({l \in names : c[l] = i})]]

\* mm_connection_close.  Only serial_context is forgotten.
CloseNames == {"port", "file", "log", "pcap"} \cup (IF send_udp THEN {"udp"} ELSE {})
Forgotten_Nothing(c) == c
Forgotten(c) == [c EXCEPT !["port"] = 0]

ShutdownNames_OnceOpen == CloseNames \cup (IF opened = "yes" THEN {"database"} ELSE {})
ShutdownNames == CloseNames \cup {"database"}

\* mm_shutdown and the end of main, after objects and cur have become objs and c.  The port
\* is closed with HUPCL, which hangs up.
Shutdown(objs, c) ==
    /\ objects' = ClosedIn(objs, c, ShutdownNames)
    /\ cur' = NoObjects
    /\ pc' = "exited" /\ ending' = "shutdown"
    /\ UNCHANGED <<running, connected, typeVars, starts, send_udp>>

\* Nothing of the port and the program's context is left to the next start.
StaysOnLine == UNCHANGED allModemVars
PortClosed ==
    /\ line' = "idle" /\ rx' = <<>> /\ cmds' = <<>> /\ saying' = None
    /\ left' = 0 /\ buf' = None /\ command' = None /\ tries' = 0
    /\ UNCHANGED <<portVars, config, late, said, torn, missed>>

Start ==
    /\ pc = "exited" /\ starts < MaxStarts
    /\ starts' = starts + 1
    /\ pc' = "options" /\ running' = TRUE /\ connected' = FALSE
    /\ objects' = <<>> /\ cur' = NoObjects /\ send_udp' = FALSE
    /\ terminal_type' = Unknown
    /\ given' = {} /\ again' = {}
    /\ opened' = "not" /\ ending' = "none"
    /\ broken' = FALSE /\ testing' = TRUE
    /\ config' = IF config = "init" THEN "kept" ELSE config
    /\ late' = FALSE /\ missed' = FALSE /\ said' = 0 /\ torn' = 0
    /\ UNCHANGED <<readVars, cmdVars, rx, cmds, line, saying, termtyp, csv, edits>>

----------------------------------------------------------------------------
(* The options. *)

Option(k) ==
    /\ pc = "options" /\ Len(objects) < MaxOptions
    /\ given' = given \cup {k}
    /\ again' = IF k \in given THEN again \cup {k} ELSE again
New == Len(objects) + 1

\* -l: a second one takes the place of the first, which stays open.
OptionLog ==
    /\ Option("log")
    /\ \/ /\ objects' = Opened(objects, "log") /\ cur' = [cur EXCEPT !["log"] = New]
          /\ UNCHANGED <<mainVars, typeVars, starts, endVars, send_udp>>
       \/ Shutdown(objects, [cur EXCEPT !["log"] = 0]) /\ UNCHANGED opened
    /\ StaysOnLine

\* -p: mm_create_pcap closes the file itself if it cannot write the header.
OptionPcap ==
    /\ Option("pcap")
    /\ \/ /\ objects' = Opened(objects, "pcap") /\ cur' = [cur EXCEPT !["pcap"] = New]
          /\ UNCHANGED <<mainVars, typeVars, starts, endVars, send_udp>>
       \/ Shutdown(objects, [cur EXCEPT !["pcap"] = 0]) /\ UNCHANGED opened
       \/ /\ Shutdown(Append(objects, [kind |-> "pcap", closed |-> 1]),
                      [cur EXCEPT !["pcap"] = 0])
          /\ UNCHANGED opened
    /\ StaysOnLine

\* -u: mm_create_udp closes the socket it could not bind, which stays in sock; the second
\* socket cannot be bound while the first has the port.
OptionUdp ==
    /\ Option("udp")
    /\ \/ /\ ~send_udp /\ send_udp' = TRUE
          /\ objects' = Opened(objects, "udp") /\ cur' = [cur EXCEPT !["udp"] = New]
          /\ UNCHANGED <<mainVars, typeVars, starts, endVars>>
       \/ Shutdown(objects, [cur EXCEPT !["udp"] = 0]) /\ UNCHANGED opened
       \/ /\ Shutdown(Append(objects, [kind |-> "udp", closed |-> 1]),
                      [cur EXCEPT !["udp"] = New])
          /\ UNCHANGED opened
    /\ StaysOnLine

\* -m
OptionModem ==
    /\ pc = "options"
    /\ testing' = FALSE
    /\ UNCHANGED <<readVars, cmdVars, rx, broken, modemVars, missed, mainVars, objVars,
                   typeVars, starts, optVars,
                   endVars>>

\* -h, an option with a wrong argument, one too many, or none; no NCC number for the modem.
OptionsEnd ==
    /\ pc = "options"
    /\ Shutdown(objects, cur) /\ UNCHANGED <<optVars, opened>>
    /\ StaysOnLine

\* The baud rate is less than 1200: main returns without mm_shutdown.
OptionsLeave ==
    /\ pc = "options"
    /\ pc' = "exited" /\ ending' = "left"
    /\ UNCHANGED <<running, connected, objVars, typeVars, starts, optVars, opened>>
    /\ StaysOnLine

OptionsDone ==
    /\ pc = "options"
    /\ pc' = "database"
    /\ UNCHANGED <<running, connected, objVars, typeVars, starts, optVars,
                   endVars>>
    /\ StaysOnLine

----------------------------------------------------------------------------
(* The database and its terminal types. *)

\* The operator edits config/control_rom_versions.csv (it is read at a start only).
EditTypes ==
    /\ pc = "exited" /\ edits < MaxEdits /\ edits' = edits + 1
    /\ csv' \in Files \ {csv}
    /\ UNCHANGED <<allModemVars, mainVars, objVars, termtyp, terminal_type, starts, optVars,
                   endVars>>

\* mm_config_add_TERMTYP_entry for the editions the file has: an INSERT, refused when the
\* edition has a row; the result of each is ignored, and a bad line ends the file.
AddTypes_Replace(inserted) ==
    [e \in Editions |-> IF csv[e] # Unknown /\ e \in inserted THEN csv[e] ELSE termtyp[e]]
AddTypes(inserted) ==
    [e \in Editions |->
        IF termtyp[e] = Unknown /\ e \in inserted THEN csv[e] ELSE termtyp[e]]

\* mm_open_database: it fails if the file or a table cannot be had, or the file of types.
OpenDatabase ==
    /\ pc = "database" /\ csv # NoFile
    /\ pc' = "connect"
    /\ objects' = Opened(objects, "database") /\ cur' = [cur EXCEPT !["database"] = New]
    /\ \E inserted \in SUBSET Editions : termtyp' = AddTypes(inserted)
    /\ UNCHANGED <<running, connected, send_udp, csv, terminal_type, edits, starts, optVars,
                   endVars>>
    /\ StaysOnLine
DatabaseFails ==
    /\ pc = "database"
    /\ Shutdown(Append(objects, [kind |-> "database", closed |-> 1]), cur)
    /\ UNCHANGED <<optVars, opened>>
    /\ StaysOnLine

----------------------------------------------------------------------------
(* mm_connection_open *)

\* An error path: mm_connection_close, and then mm_shutdown closes again what it finds.
ConnectionFails(objs, c) ==
    /\ Shutdown(ClosedIn(objs, c, CloseNames), Forgotten(c))
    /\ opened' = "failed"

\* No -f, or the test file cannot be opened.
ConnectFails ==
    /\ pc = "connect"
    /\ ConnectionFails(objects, cur) /\ UNCHANGED optVars
    /\ StaysOnLine

\* open_serial returns a context even when the device cannot be opened: the port is -1.
Connect ==
    /\ pc = "connect"
    /\ pc' \in {"reset", "init"} /\ command' = pc' /\ tries' = 0
    /\ LET name == IF testing THEN "file" ELSE "port" IN
       \/ /\ objects' = Opened(objects, name) /\ cur' = [cur EXCEPT ![name] = New]
          /\ UNCHANGED broken
       \/ ~testing /\ broken' = TRUE /\ UNCHANGED <<objects, cur>>
    /\ UNCHANGED <<running, connected, send_udp, typeVars, starts, optVars, endVars,
                   readVars, rx,
                   testing, modemVars, missed>>

\* init_modem, after each command.  The reset string may be empty.
CommandOK ==
    /\ pc \in {"reset", "init"}
    /\ Reads("OK")
    /\ tries' = 0
    /\ IF pc = "reset" THEN pc' = "init" /\ command' = "init" /\ UNCHANGED <<optVars, opened>>
       ELSE pc' = "loop" /\ command' = None /\ opened' = "yes"
    /\ UNCHANGED <<running, connected, objVars, typeVars, starts, optVars, ending>>

CommandWaits ==
    /\ pc \in {"reset", "init"}
    /\ \E r \in (Responses \ {"OK"}) \cup {None} : Reads(r)
    /\ UNCHANGED <<cmdVars, mainVars, objVars, typeVars, starts, optVars, endVars>>

CommandTries ==
    /\ pc \in {"reset", "init"}
    /\ TryCommand
    /\ UNCHANGED <<mainVars, objVars, typeVars, starts, optVars, endVars>>

CommandEnds ==
    /\ pc \in {"reset", "init"} /\ CommandFailed
    /\ ConnectionFails(objects, cur) /\ UNCHANGED optVars
    /\ PortClosed

----------------------------------------------------------------------------
(* The main loop. *)

LoopGoesOn_Always == TRUE
LoopGoesOn == running

\* mm_connection_wait reads one response at a time.  Where it goes round by itself it tests
\* manager_running as the main loop does: the model is at "loop" again.
WaitForCall ==
    /\ pc = "loop" /\ LoopGoesOn
    /\ pc' = "wait"
    /\ BeginWait(1, rx)
    /\ UNCHANGED <<cmdVars, portVars, modemVars, missed, running, connected, objVars, typeVars,
                   starts, optVars,
                   endVars>>

Waits ==
    /\ pc = "wait" /\ Reads(None)
    /\ UNCHANGED <<cmdVars, mainVars, objVars, typeVars, starts, optVars, endVars>>

\* RING, OK, NULL, and the unhandled ERROR.
NoCall ==
    /\ pc = "wait"
    /\ \E r \in {"RING", "OK", "NULL", "ERROR"} : Reads(r)
    /\ pc' = "loop"
    /\ UNCHANGED <<cmdVars, running, connected, objVars, typeVars, starts, optVars,
                   endVars>>

\* The session of MMSession begins; it is left at once after a SIGINT.
CallConnects ==
    /\ pc = "wait" /\ Reads("CONNECT")
    /\ connected' = TRUE
    /\ pc' = IF running THEN "call" ELSE "hangup"
    /\ UNCHANGED <<cmdVars, running, objVars, typeVars, starts, optVars,
                   endVars>>

CarrierLost ==
    /\ pc = "wait" /\ Reads("NO CARRIER")
    /\ pc' = "hangup"
    /\ UNCHANGED <<cmdVars, running, connected, objVars, typeVars, starts, optVars,
                   endVars>>

ModemError ==
    /\ pc = "wait" /\ Reads("READ_ERROR")
    /\ running' = FALSE /\ pc' = "loop"
    /\ UNCHANGED <<cmdVars, connected, objVars, typeVars, starts, optVars,
                   endVars>>

\* proto_disconnect
HangUp ==
    /\ pc = "hangup"
    /\ HangsUp
    /\ connected' = FALSE /\ pc' = "loop"
    /\ UNCHANGED <<readVars, cmdVars, portVars, cmds, config, late, said, missed, running,
                   objVars, typeVars, starts, optVars,
                   endVars>>

\* What the modem says in a call is taken for data.
SessionReads ==
    /\ pc = "call" /\ rx # <<>>
    /\ rx' = Tail(rx)
    /\ UNCHANGED <<readVars, cmdVars, portVars, modemVars, missed, mainVars, objVars, typeVars,
                   starts, optVars,
                   endVars>>

\* mm_acct_save_TSWVERS looks up the type of the terminal.
Identify(e) ==
    /\ pc = "call"
    /\ terminal_type' \in {termtyp[e], Unknown, Failed}
    /\ UNCHANGED <<allModemVars, mainVars, objVars, termtyp, csv, edits, starts, optVars,
                   endVars>>

\* The session ends, for a reason of MMSession.
SessionEnds ==
    /\ pc = "call"
    /\ pc' = "hangup"
    /\ UNCHANGED <<allModemVars, running, connected, objVars, typeVars, starts, optVars,
                   endVars>>

MainEnds ==
    /\ pc = "loop" /\ ~LoopGoesOn
    /\ Shutdown(objects, cur) /\ UNCHANGED <<optVars, opened>>
    /\ PortClosed

\* read_serial, at the end of the test file.
EndOfFile ==
    /\ testing /\ rx = <<>>
    /\ left > 0 \/ pc = "call"
    /\ PortClosed
    /\ objects' = ClosedIn(objects, cur, {"file"})
    /\ pc' = "exited" /\ ending' = "eof"
    /\ UNCHANGED <<running, connected, cur, send_udp, typeVars, starts, optVars, opened>>

----------------------------------------------------------------------------
(* From outside. *)

Interrupt ==
    /\ pc # "exited" /\ running
    /\ running' = FALSE
    /\ UNCHANGED <<allModemVars, pc, connected, objVars, typeVars, starts, optVars,
                   endVars>>

Kill ==
    /\ pc # "exited"
    /\ pc' = "exited" /\ ending' = "left"
    /\ PortClosed
    /\ UNCHANGED <<running, connected, objVars, typeVars, starts, optVars, opened>>

Modem ==
    /\ pc \notin {"exited", "options", "database", "connect"}
    /\ ModemNext
    /\ Mixed \/ (given = {} /\ starts = 1) \/ (said' = said /\ torn' = torn)
    /\ UNCHANGED <<mainVars, objVars, typeVars, starts, optVars, endVars>>

----------------------------------------------------------------------------
Options ==
    \/ OptionLog \/ OptionPcap \/ OptionUdp \/ OptionModem \/ OptionsEnd \/ OptionsLeave
    \/ OptionsDone

Main ==
    \/ OpenDatabase \/ DatabaseFails \/ ConnectFails \/ Connect
    \/ CommandOK \/ CommandWaits \/ CommandTries \/ CommandEnds
    \/ WaitForCall \/ Waits \/ NoCall \/ CallConnects \/ CarrierLost \/ ModemError
    \/ HangUp \/ MainEnds \/ EndOfFile

Session == SessionReads \/ SessionEnds \/ \E e \in Editions : Identify(e)

Next == Start \/ Options \/ Main \/ Session \/ Modem \/ Interrupt \/ Kill \/ EditTypes

Spec == Init /\ [][Next]_vars

\* The thread runs, and a read that waits ends after a second; nothing is asked of the modem,
\* the session or the operator.
FairSpec == Spec /\ WF_vars(Options \/ Main)

----------------------------------------------------------------------------
(* Properties *)

\* The manager waits for calls only with a modem that accepted its initialization string,
\* unless an answer came so late that it was taken for that of another command.
InitMeansConfigured ==
    pc \in {"loop", "wait", "call"} /\ opened = "yes" /\ ~testing /\ ~late => config = "init"

\* No CONNECT is lost in mm_connection_wait: when the modem is in a call and the port has
\* been read, the manager is in the call, unless the line was torn, or came while the modem
\* was being initialized.
ConnectNoticed ==
    line = "up" /\ rx = <<>> /\ saying = None /\ pc \in {"loop", "wait"} => missed

\* After a SIGINT outside of a call, or an error of the modem, the program ends (in a call:
\* MMSession).
InterruptStops == ~running /\ pc # "call" ~> pc = "exited"

\* No stream or port is closed twice (fclose of a closed stream is undefined), except on the
\* error paths of mm_connection_open, and for the socket of a second -u.
ClosedOnce ==
    \A i \in 1..Len(objects) :
        objects[i].closed > 1 =>
            \/ objects[i].kind \in Streams \cup {"udp"} /\ opened = "failed"
            \/ objects[i].kind = "udp" /\ "udp" \in again

\* Whatever mm_shutdown ends, on any path, it leaves nothing open, except what a repeated
\* -l, -p or -u replaced.
EndsClosed ==
    ending = "shutdown" =>
        \A i \in 1..Len(objects) : objects[i].closed = 0 => objects[i].kind \in again

\* The type a start has given to an edition stays: later files do not change it, so that a
\* terminal does not change its type between two calls.
TypesKept ==
    [][\A e \in Editions : termtyp[e] # Unknown => termtyp'[e] = termtyp[e]]_vars
================================================================================
