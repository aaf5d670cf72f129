---------------------------- MODULE OperationLedger ----------------------------
(***************************************************************************)
(* What the service promises its providers, without sessions, snapshots,   *)
(* retries or rows: a book of operations and the balance of each wallet.   *)
(* An operation enters the book once, as the call that first named it, and *)
(* money moves in one step, which is right at the moment it happens: the   *)
(* balance covers it, what it refers to has been processed, and nothing    *)
(* has reversed that before.  A refusal promises less: its reason may have *)
(* passed by the time it is written.                                       *)
(***************************************************************************)
EXTENDS WagerDomain, Functions

CONSTANTS
    Operations,                        \* (providerId, externalTransactionId)
    Calls,                             \* what may be asked, as in WagerDomain
    Wallets, PlayerOf, CurrencyOf, InitialOf, Preopened

VARIABLES
    balance,    \* of each wallet, Closed until it is opened
    book        \* status of each operation and the call that it is

Closed  == -1
Unknown == [status |-> "ABSENT", call |-> None]

Init ==
    /\ balance = [w \in Wallets |-> IF w \in Preopened THEN InitialOf[w] ELSE Closed]
    /\ book = [o \in Operations |-> Unknown]

\* One player has one wallet per currency.
Open(w) ==
    /\ balance[w] = Closed
    /\ \A v \in Wallets :
          balance[v] # Closed => PlayerOf[v] # PlayerOf[w] \/ CurrencyOf[v] # CurrencyOf[w]
    /\ balance' = [balance EXCEPT ![w] = InitialOf[w]]
    /\ UNCHANGED book

--------------------------------------------------------------------------------
(* A call enters the book if its operation and its key are unknown.          *)

Enters(in) ==
    /\ book[in.op] = Unknown
    /\ \A o \in Operations : book[o] # Unknown => book[o].call.key # in.key
    /\ ValidInput(in)
    /\ balance[in.wallet] # Closed /\ PlayerOf[in.wallet] = in.player

Waits(in) == book[in.op] = [status |-> "PENDING_REFERENCE", call |-> in]

Records(in, status) ==
    book' = [book EXCEPT ![in.op] = [status |-> status, call |-> in]]

Processed(o) == book[o].status = "PROCESSED"
KindOfRef(in) == IF in.ref = None THEN None ELSE book[in.ref].call.kind

ReferenceServes(in) ==
    /\ Processed(in.ref)
    /\ ReferenceFailure(in, book[in.ref].call) = NoFailure
    /\ in.kind \in Reversals =>
          \A o \in Operations : Processed(o) /\ book[o].call.kind \in Reversals
                                   => book[o].call.ref # in.ref

Settle(in) ==
    LET refKind == KindOfRef(in)
        before  == balance[in.wallet]
    IN /\ Records(in, "PROCESSED")
       /\ Enters(in) \/ Waits(in)
       /\ in.cur = CurrencyOf[in.wallet]
       /\ in.ref # None => ReferenceServes(in)
       /\ \/ Decision(in, refKind, before).do = "loss" /\ UNCHANGED balance
          \/ /\ Decision(in, refKind, before).do = "settle"
             /\ balance' = [balance EXCEPT ![in.wallet] =
                               Applied(Direction(in.kind, refKind), @, in.amount)]

\* Only a bet, a call with a reference or one in another currency is ever refused.
Refuse(in) ==
    /\ Records(in, "REJECTED")
    /\ Enters(in) \/ Waits(in)
    /\ in.kind = "BET" \/ in.ref # None \/ in.cur # CurrencyOf[in.wallet]
    /\ UNCHANGED balance

Wait(in) ==
    /\ Records(in, "PENDING_REFERENCE")
    /\ Enters(in) /\ in.ref # None
    /\ UNCHANGED balance

Expire(in) ==
    /\ Records(in, "FAILED")
    /\ Waits(in)
    /\ UNCHANGED balance

Next ==
    \/ \E w \in Wallets : Open(w)
    \/ \E o \in Operations :
          /\ book'[o] # book[o]
          /\ \E in \in Calls :
                in.op = o /\ (Settle(in) \/ Refuse(in) \/ Wait(in) \/ Expire(in))

Spec == Init /\ [][Next]_<< balance, book >>

--------------------------------------------------------------------------------
(* What follows.                                                             *)

\* What a processed operation adds to its wallet.
Effect(o) == Applied(Direction(book[o].call.kind, KindOfRef(book[o].call)), 0, book[o].call.amount)

Settled(w) == {o \in Operations : Processed(o) /\ book[o].call.wallet = w}

\* Money is conserved: a wallet holds what it was opened with and what its
\* processed operations have moved, each counted once, in the direction that the
\* kind of its reference gives it (process_wager_transaction.go:383-430).
BalancesFollowTheBook ==
    \A w \in Wallets :
        balance[w] # Closed =>
            balance[w] = InitialOf[w] + SumFunction([o \in Settled(w) |-> Effect(o)])
================================================================================
