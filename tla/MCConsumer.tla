-------------------------------- MODULE MCConsumer -------------------------------
(***************************************************************************)
(* Instances of Consumer for TLC.  Group wA: a message that cannot be      *)
(* decoded, and behind it a bet.  Group wB: a message that is refused      *)
(* every time, and behind it the same bet, sent again by its producer.     *)
(***************************************************************************)
EXTENDS Consumer

CONSTANTS c1, c2, i1, i3, i4, bet, betAgain, garbage, conflict, wA, wB

MCIdOf    == [m \in Messages |-> << i4, i1, i3, i1 >>[m]]
MCBodyOf  == [m \in Messages |-> << garbage, bet, conflict, bet >>[m]]
MCGroupOf == [m \in Messages |-> << wA, wA, wB, wB >>[m]]

\* Two messages of one id whose bodies differ.
AlteredIdOf    == [m \in Messages |-> i1]
AlteredBodyOf  == [m \in Messages |-> << bet, betAgain >>[m]]
AlteredGroupOf == [m \in Messages |-> wA]
================================================================================
