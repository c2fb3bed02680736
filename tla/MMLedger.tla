------------------------------ MODULE MMLedger ------------------------------
(***************************************************************************)
(* What the accounting of mm_manager promises a terminal: a report that    *)
(* the terminal may forget, because it was answered, is filed, or the      *)
(* database has refused it; and what is filed stays filed, over crashes,   *)
(* restarts and reports sent twice.                                        *)
(***************************************************************************)
EXTENDS Naturals

CONSTANT Reports

VARIABLES
    open,           \* the reports a terminal still has to deliver
    filed,          \* the reports in the ledger
    refused         \* the reports the ledger could not take

vars == <<open, filed, refused>>

Init == open = {} /\ filed = {} /\ refused = {}

Report(r) ==
    /\ r \notin open
    /\ open' = open \cup {r}
    /\ UNCHANGED <<filed, refused>>

File(r) ==
    /\ filed' = filed \cup {r}
    /\ UNCHANGED <<open, refused>>

Refuse(r) ==
    /\ refused' = refused \cup {r}
    /\ UNCHANGED <<open, filed>>

Settle(r) ==
    /\ r \in open /\ r \in filed \cup refused
    /\ open' = open \ {r}
    /\ UNCHANGED <<filed, refused>>

Next == \E r \in Reports : Report(r) \/ File(r) \/ Refuse(r) \/ Settle(r)

Spec == Init /\ [][Next]_vars
=============================================================================
