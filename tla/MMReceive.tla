----------------------------- MODULE MMReceive ------------------------------
(***************************************************************************)
(* How long an operation of MMProto stays blocked in receive_mm_packet:    *)
(* its loop over the reads of the serial port.  A read ends after a        *)
(* second, with a byte or without; timeout counts the reads without one    *)
(* and is reset by every byte, whether it belongs to a packet or not.      *)
(*                                                                         *)
(* A step of MMProto is what happens when the loop ends.  The bytes of the *)
(* packet it returns, if any, are read in that step; a byte that is part   *)
(* of no packet it returns (noise on the line, the start of a frame that   *)
(* breaks off) is read in a step of its own.  MMFraming has the bytes, but *)
(* neither operations nor retries.                                         *)
(***************************************************************************)
EXTENDS MMProto

CONSTANT PKT_TIMEOUT_MAX    \* reads without a byte that the loop puts up with

ASSUME TimeoutAssumption == PKT_TIMEOUT_MAX \in Nat

VARIABLES
    timeout,            \* local to receive_mm_packet, up to PKT_TIMEOUT_MAX
    noise               \* a byte that belongs to no packet is in the port

recvVars == <<timeout, noise>>
allVars == <<vars, recvVars>>

Blocked == pc # "Idle"

ReceiveInit == Init /\ timeout = 0 /\ noise = FALSE

\* The line.
Noise ==
    /\ Blocked /\ ~noise
    /\ noise' = TRUE
    /\ UNCHANGED <<vars, timeout>>

\* SEARCH_FOR_START throws a byte away, as often as there is one.
ReadNoise ==
    /\ Blocked /\ noise
    /\ noise' = FALSE
    /\ timeout' = 0
    /\ UNCHANGED vars

ReadNothing ==
    /\ Blocked /\ ~noise /\ timeout < PKT_TIMEOUT_MAX
    /\ timeout' = timeout + 1
    /\ UNCHANGED <<vars, noise>>

\* A packet is complete, the carrier is lost, a read fails; or there was no byte for too long.
Returned(r) == r.status = {"TIMEOUT"} => timeout = PKT_TIMEOUT_MAX

Returns ==
    /\ Blocked /\ ~noise
    /\ \E r \in Results : Returned(r) /\ Resume(r)
    /\ timeout' = 0
    /\ UNCHANGED noise

Calls == Client /\ UNCHANGED recvVars

Reads == ReadNoise \/ ReadNothing \/ Returns

ReceiveNext == Calls \/ Noise \/ Reads

ReceiveSpec == ReceiveInit /\ [][ReceiveNext]_allVars

\* Every single read ends after a second (VTIME); that the loop over them ends is not
\* assumed, nor anything of what it returns, of the client or of the line.
FairReceiveSpec == ReceiveSpec /\ WF_allVars(Reads)

----------------------------------------------------------------------------
(* Properties *)

\* The line comes to rest: from some time on it has nothing but whole packets, or silence.
\* The code does not see to that, the hardware has to.
LineSettles == <>[]~noise

\* receive_mm_table and send_mm_table return on a line that settles, whatever answers them
\* there and however often it was disturbed before: the retries run out, a NACK is waited
\* for once, and silence is noticed.  (wait_for_table_ack gives no such promise, and on a
\* line that does not settle none of them does.)
CallsReturn == LineSettles => (pc \in {"RxTable", "RxNak", "TxAck"} ~> pc = "Idle")
=============================================================================
