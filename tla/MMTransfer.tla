----------------------------- MODULE MMTransfer -----------------------------
(***************************************************************************)
(* What send_mm_table promises its clients, whatever the line does: the    *)
(* packets of the table reach the terminal once each and in order, and     *)
(* success is reported of a table that has arrived whole.                  *)
(***************************************************************************)
EXTENDS Naturals, Sequences

VARIABLES
    state,          \* idle, sending, sent, or failed
    size,           \* packets the table is cut into
    got             \* the packets the terminal has accepted of this table, by number

vars == <<state, size, got>>

Init == state = "idle" /\ size = 0 /\ got = <<>>

Start ==
    /\ state # "sending"
    /\ state' = "sending" /\ size' \in Nat \ {0} /\ got' = <<>>

\* The next packet of the table, and no other, is accepted.
Accept ==
    /\ state = "sending" /\ Len(got) < size
    /\ got' = Append(got, Len(got) + 1)
    /\ UNCHANGED <<state, size>>

Succeed ==
    /\ state = "sending" /\ Len(got) = size
    /\ state' = "sent"
    /\ UNCHANGED <<size, got>>

\* The manager may fail with all or part of the table accepted.
Fail ==
    /\ state = "sending"
    /\ state' = "failed"
    /\ UNCHANGED <<size, got>>

\* A send on a dead call.
Refuse ==
    /\ state # "sending"
    /\ state' = "failed" /\ size' \in Nat \ {0} /\ got' = <<>>

Forget ==
    /\ state # "sending"
    /\ state' = "idle" /\ size' = 0 /\ got' = <<>>

Next == Start \/ Accept \/ Succeed \/ Fail \/ Refuse \/ Forget

Spec == Init /\ [][Next]_vars
=============================================================================
