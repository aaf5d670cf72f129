--------------------------------- MODULE MCReads ---------------------------------
(***************************************************************************)
(* Instances of LedgerReads for TLC: a credit and two debits that the      *)
(* balance cannot all cover, whose random ids sort against their order.    *)
(***************************************************************************)
EXTENDS LedgerReads

CONSTANTS w1, w2, w3

MCDeltaOf == [w \in Writers |-> IF w = w1 THEN 1 ELSE -2]
MCIdOf    == [w \in Writers |-> IF w = w1 THEN 3 ELSE IF w = w2 THEN 2 ELSE 1]
================================================================================
