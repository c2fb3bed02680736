--------------------------- MODULE MMAccountingMC ---------------------------
(* Two payphones; the number of one of them begins with a zero. *)
EXTENDS MMAccounting

\* A nearly empty cash box, and one that is full above its threshold.
MCBoxes == {[status |-> 0, percent |-> 1, value |-> 150],
            [status |-> 2, percent |-> 90, value |-> 65535]}
=============================================================================
