-------------------------------- MODULE MCWagers --------------------------------
(* Instances of WagerLedger for TLC: wallets, and what the requests may ask.   *)
EXTENDS WagerRefinement, TLC

CONSTANTS r1, r2, r3, r4,      \* requests
          g1, g2,              \* worker goroutines
          w1, w2, w3,          \* wallets
          alice, bob,          \* players
          o1, o2, o3, o4,      \* operations
          k1, k2, k3, k4,      \* idempotency keys
          ra, rb               \* rounds

Symmetry == Permutations(Requests) \cup Permutations(Workers)

\* Wallets of alice: w2 and w3 compete for her purse in the second currency, one
\* of them without an opening balance.
MCPlayerOf   == [w \in Wallets |-> alice]
MCCurrencyOf == [w \in Wallets |-> IF w = w1 THEN "BRL" ELSE "USD"]
MCInitial    == [w \in Wallets |-> IF w = w2 THEN 0 ELSE 3]

In(op, key, kind, amount, ref) ==
    [op |-> op, key |-> key, player |-> alice, wallet |-> w1, round |-> ra,
     kind |-> kind, amount |-> amount, cur |-> "BRL", ref |-> ref]

\* A balance of 3 that covers either of two bets but not both, one of them to the
\* last unit, a win beyond the overflow at 5, and a loss: every pair of decisions
\* on one wallet that can disagree.
BetInputs == { In(o1, k1, "BET", 2, None), In(o2, k2, "BET", 3, None),
               In(o3, k3, "WIN", 3, None), In(o4, k4, "LOSS", 0, None) }

\* A bet and everything that may refer to it, and each reversal's own reversal.
ReversalInputs == { In(o1, k1, "BET", 2, None), In(o2, k2, "REFUND", 2, o1),
                    In(o3, k3, "ROLLBACK", 2, o1), In(o4, k4, "ROLLBACK", 2, o2) }

\* A win that a rollback takes back and a bet may have spent before.
TakebackInputs == { In(o1, k1, "WIN", 2, None), In(o2, k2, "ROLLBACK", 2, o1),
                    In(o3, k3, "ROLLBACK", 2, o1), In(o4, k4, "BET", 4, None) }

\* References that never serve: a win of another round, a reference to
\* a loss, to itself, and to an operation that ends REJECTED.
MisfitInputs == { In(o1, k1, "BET", 2, None), In(o1, k1, "BET", 4, None),
                  In(o1, k1, "LOSS", 0, None),
                  In(o2, k2, "WIN", 2, o1),
                  [In(o2, k2, "WIN", 2, o1) EXCEPT !.round = rb],
                  In(o2, k2, "REFUND", 2, o2), In(o3, k3, "ROLLBACK", 2, o2) }

\* One operation under two keys, one key for two operations, the same call again
\* with another content, and calls that never reach the database.
IdempotencyInputs == { In(o1, k1, "BET", 2, None), In(o1, k2, "BET", 2, None),
                       In(o2, k1, "BET", 2, None), In(o1, k1, "BET", 1, None),
                       In(o2, k2, "WIN", 1, o1), In(o2, None, "BET", 1, None),
                       In(o1, k2, "OPENING", 2, None), In(o2, k2, "REFUND", 1, None),
                       [In(o1, k1, "BET", 2, None) EXCEPT !.player = bob],
                       [In(o2, k2, "BET", 2, None) EXCEPT !.cur = "USD"] }

\* Calls that race with the opening of the wallets they name.
In2(op, key, kind, amount, ref, w) ==
    [In(op, key, kind, amount, ref) EXCEPT !.wallet = w, !.cur = "USD"]
OpeningInputs == { In2(o1, k1, "BET", 2, None, w3), In2(o2, k2, "REFUND", 2, o1, w3),
                   In2(o3, k3, "WIN", 1, None, w2) }

AllInputs == BetInputs \cup ReversalInputs \cup TakebackInputs
                \cup MisfitInputs \cup IdempotencyInputs
MovementInputs == BetInputs \cup ReversalInputs \cup TakebackInputs \cup OpeningInputs

\* A refund that expires, replayed before and after the balance moves.
DocReplayInputs == { In(o2, k2, "REFUND", 2, o1), In(o4, k4, "BET", 2, None) }

\* A bet, what may refer to it, and the same refund sent again.
LivenessInputs == { In(o1, k1, "BET", 2, None), In(o2, k2, "REFUND", 2, o1),
                    In(o3, k3, "WIN", 2, o1) }

--------------------------------------------------------------------------------
(* The scenarios of a run: requests ask within one of these sets.            *)

Of(scenarios) == UNION {[Requests -> asked] : asked \in scenarios}

\* Nobody opens another wallet, or both openings race with calls that name them.
MovementInit ==
    \/ /\ input \in Of({BetInputs, ReversalInputs, TakebackInputs}) /\ Init
       /\ \A w \in Wallets : openReply[w] # "none"
    \/ /\ input \in Of({OpeningInputs}) /\ Init
       /\ \A w \in Wallets : openReply[w] # "unasked"
RaceInit     == input \in Of({ReversalInputs, MisfitInputs, IdempotencyInputs}) /\ Init

MovementSpec == MovementInit /\ [][Next]_vars
RaceSpec     == RaceInit /\ [][Next]_vars
================================================================================
