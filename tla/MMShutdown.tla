----------------------------- MODULE MMShutdown -----------------------------
(***************************************************************************)
(* What becomes of SIGINT in a session of MMSession, over the reads of     *)
(* receive_mm_packet.  Its loop looks at neither manager_running nor the   *)
(* time it has taken: as long as there are bytes to throw away it does not *)
(* return, whatever it was called for.  MMReceive counts its time-out.     *)
(***************************************************************************)
EXTENDS MMSession

VARIABLE noise          \* a byte that belongs to no packet is in the port

lineVars == <<vars, noise>>

\* Where the thread may be in receive_mm_packet: for a table or an acknowledgement of one,
\* or in send_mm_packet for the answer to what it sends.
InReceive ==
    /\ connected
    /\ \/ pc \in {"receive", "ack", "retry"}
       \/ pc = "download" /\ left > 0
       \/ pc = "table" /\ todo = <<>> /\ reply.some

ShutdownInit == Init /\ noise = FALSE

\* The line.
Noise ==
    /\ InReceive /\ ~noise
    /\ noise' = TRUE
    /\ UNCHANGED vars

\* The byte is no START: it is thrown away, and the loop of receive_mm_packet goes round.
ReadNoise ==
    /\ noise
    /\ noise' = FALSE
    /\ UNCHANGED vars

\* A packet, silence, a carrier that is lost: the thread gets on.
Proceeds == ~noise /\ Manager /\ UNCHANGED noise

Thread == ReadNoise \/ Proceeds

Outside ==
    /\ Interrupt \/ \E t \in Terminals : Call(t)
    /\ UNCHANGED noise

ShutdownNext == Noise \/ Outside \/ Thread

\* Every read of the serial port ends after a second (VTIME), with a byte or without; that a
\* loop over them ends is not assumed, nor that anybody calls or interrupts.
FairShutdownSpec == ShutdownInit /\ [][ShutdownNext]_lineVars /\ WF_lineVars(Thread)

----------------------------------------------------------------------------
(* Properties *)

\* The line comes to rest: from some time on it has nothing but whole packets, or silence.
\* The code does not see to that, the hardware has to.
LineSettles == <>[]~noise

\* After SIGINT the manager goes down, or is waiting for a terminal to acknowledge a table,
\* once the line settles: main, mm_download_tables and mm_connection_wait all look at
\* manager_running, and the retries they wait for run out.
ShutdownUnlessAwaiting == LineSettles => (~running ~> pc \in {"down", "ack", "retry"})

\* "Received ^C, wait for shutdown." (signal_handler): the shutdown comes, if the line
\* settles.
ShutdownHappens == LineSettles => (~running ~> pc = "down")
=============================================================================
