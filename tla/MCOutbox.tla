-------------------------------- MODULE MCOutbox --------------------------------
(***************************************************************************)
(* Instances of Outbox for TLC: two events of one commit, which share      *)
(* their time, and a later one.                                            *)
(***************************************************************************)
EXTENDS Outbox

CONSTANTS e1, e2, e3, p1, p2

MCOccurredAt == [e \in Events |-> IF e = e3 THEN 2 ELSE 1]
================================================================================
