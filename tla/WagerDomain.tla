------------------------------ MODULE WagerDomain ------------------------------
(***************************************************************************)
(* The business rules of a wager transaction, as functions of values: what *)
(* the domain package (internal/domain) and the pure part of the use case  *)
(* decide once the rows they need have been read.  Nothing here has state; *)
(* WagerLedger is the machine that reads the rows and applies the answers. *)
(*                                                                         *)
(* An input is one provider call, a record                                 *)
(*   op     (providerId, externalTransactionId), one value for the pair    *)
(*   key    the Idempotency-Key, None when it is empty                     *)
(*   player, wallet, round, kind, amount, cur                              *)
(*   ref    the operation it refers to, of the same provider, or None      *)
(* gameId is left out: only the payload hash reads it, and to the hash a   *)
(* different game is one more way of being a different call, as a          *)
(* different round is.                                                     *)
(***************************************************************************)
EXTENDS Integers

CONSTANTS MaxMinor,   \* the largest amount of minor units (math.MaxInt64)
          None        \* the absent value: NULL in a column, the empty string in Go

ASSUME MaxMinorAssumption == MaxMinor \in Nat

(* An operator whose name ends in Bug is a mistake the code could contain.  *)
(* No specification uses it: each shows that a property notices it.         *)

Kinds     == {"BET", "WIN", "LOSS", "REFUND", "ROLLBACK"}
Reversals == {"REFUND", "ROLLBACK"}
Terminal  == {"PROCESSED", "REJECTED", "FAILED"}
Statuses  == {"PENDING", "PENDING_REFERENCE"} \cup Terminal
NoFailure == "none"   \* a NULL failure_code
FailureCodes == {"INSUFFICIENT_BALANCE", "REVERSAL_INSUFFICIENT_BALANCE",
                 "CURRENCY_MISMATCH", "REFERENCE_MISMATCH",
                 "REFERENCE_NOT_PROCESSABLE", "REFERENCE_ALREADY_REVERSED",
                 "REFERENCE_EXPIRED"}

\* NULL and the empty string are no kind.
ASSUME NoneAssumption == None \notin Kinds

\* rulesFor and NewExternalTransaction: the amount and the reference that a
\* kind demands.  Without a key no transaction is built.
AmountAllowed(kind, amount) == IF kind = "LOSS" THEN amount = 0 ELSE amount > 0
RefAllowed(kind, ref) ==
    /\ kind \in Reversals => ref # None
    /\ kind \in {"BET", "LOSS"} => ref = None

ValidInput(in) ==
    /\ in.key # None
    /\ AmountAllowed(in.kind, in.amount)
    /\ RefAllowed(in.kind, in.ref)

\* The payload hash covers every field but the key; equal hashes are taken to
\* mean equal content.
SameContent(a, b) == [a EXCEPT !.key = None] = [b EXCEPT !.key = None]

--------------------------------------------------------------------------------
(* validateReference: the code it returns, if any.                          *)

Agrees(in, ref) ==
    /\ in.player = ref.player
    /\ in.wallet = ref.wallet
    /\ in.round  = ref.round
    /\ in.amount = ref.amount
    /\ in.cur    = ref.cur

ReferableKinds(kind) ==
    IF kind = "ROLLBACK" THEN {"BET", "WIN", "REFUND"} ELSE {"BET"}

ReferenceFailure(in, ref) ==
    IF ~ Agrees(in, ref) THEN "REFERENCE_MISMATCH"
    ELSE IF ref.kind \notin ReferableKinds(in.kind) THEN "REFERENCE_NOT_PROCESSABLE"
    ELSE NoFailure

--------------------------------------------------------------------------------
(* What an operation does to a balance.  refKind is the kind of the         *)
(* resolved reference, None when there is none.                             *)

Direction_AlwaysCreditBug(kind, refKind) == IF kind = "BET" THEN "DEBIT" ELSE "CREDIT"

Direction(kind, refKind) ==
    IF kind = "BET" \/ (kind = "ROLLBACK" /\ refKind \in {"WIN", "REFUND"})
    THEN "DEBIT" ELSE "CREDIT"

\* ledger.NewEntry recomputes the balance after an entry this way.
Applied(dir, balance, amount) ==
    IF dir = "DEBIT" THEN balance - amount ELSE balance + amount

\* Wallet.Debit refuses a negative balance, Wallet.Credit an overflow of int64.
Covered_OffByOneBug(balance, amount) == amount <= balance + 1
Covered_StrictBug(balance, amount)   == amount < balance
Covered(balance, amount)   == amount <= balance
Overflows(balance, amount) == balance + amount > MaxMinor

InsufficientCode(kind) ==
    IF kind = "BET" THEN "INSUFFICIENT_BALANCE" ELSE "REVERSAL_INSUFFICIENT_BALANCE"

\* The switch on the kind: what to do with the row, and the failure code of a
\* rejection.
Decision(in, refKind, balance) ==
    LET dir == Direction(in.kind, refKind) IN
    CASE in.kind = "LOSS" -> [do |-> "loss", code |-> NoFailure]
      [] in.kind # "LOSS" /\ dir = "DEBIT" /\ ~ Covered(balance, in.amount) ->
            [do |-> "reject", code |-> InsufficientCode(in.kind)]
      [] in.kind # "LOSS" /\ dir = "CREDIT" /\ Overflows(balance, in.amount) ->
            [do |-> "overflow", code |-> NoFailure]
      [] OTHER -> [do |-> "settle", code |-> NoFailure]
================================================================================
