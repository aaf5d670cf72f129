-------------------------------- MODULE MCMoney --------------------------------
(* An instance of Money for TLC: integers of ten bits, from -5.12 to 5.11.      *)
EXTENDS Money, TLC

CONSTANTS BRL, USD, brl, xyz

Text(sign, int, frac) == [stray |-> FALSE, sign |-> sign, int |-> int, frac |-> frac]

\* Both sides of the largest amount, more than two decimals, one, none, and the
\* ways a text is none.
MCTexts == { Text("none", 0, << >>), Text("none", 0, << 0, 1 >>), Text("plus", 0, << 3 >>),
             Text("none", 1, << 2, 5 >>), Text("none", 5, << 1, 1 >>),
             Text("none", 5, << 1, 2 >>), Text("none", 6, << >>), Text("none", 512, << >>),
             Text("minus", 2, << 5, 0 >>), Text("minus", 0, << 0, 0 >>),
             Text("minus", 5, << 1, 2 >>), Text("none", 1, << 0, 0, 1 >>),
             Text("none", None, << 5 >>), [Text("none", 1, << >>) EXCEPT !.stray = TRUE] }

\* Both ends of the range, one unit, and amounts that get there in a few steps.
MCColumns == {-512, -511, -250, -1, 0, 1, 30, 511}

MCCanonical == (BRL :> BRL) @@ (brl :> BRL) @@ (USD :> USD)
================================================================================
