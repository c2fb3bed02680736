----------------------------- MODULE MMLifecycleMC -----------------------------
(* A small instance of MMLifecycle for TLC: one edition, two types for it. *)
EXTENDS MMLifecycle

CONSTANTS e1, t1, t2

MCEditions == {e1}
MCTypes == {t1, t2}
MCFiles == {[e \in MCEditions |-> t1]}
================================================================================
