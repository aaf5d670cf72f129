---------------------------- MODULE WagerRefinement ----------------------------
(***************************************************************************)
(* The database, as WagerLedger's sessions write it, is a ledger of        *)
(* operations: its rows are the book, its wallets the balances.            *)
(***************************************************************************)
EXTENDS WagerLedger

OperationsAsked == {in.op : in \in Inputs} \cup ({in.ref : in \in Inputs} \ {None})

RowsOf(o) == {t \in Requests : input[t].op = o /\ txs[t].status # "ABSENT"}
BookOf(o) ==
    IF RowsOf(o) = {} THEN [status |-> "ABSENT", call |-> None]
    ELSE LET t == CHOOSE t \in RowsOf(o) : TRUE
         IN [status |-> txs[t].status, call |-> input[t]]

Promise == INSTANCE OperationLedger WITH
    Operations <- OperationsAsked,
    Calls <- Inputs,
    balance <- [w \in Wallets |-> IF IsOpen(w) THEN wallets[w].balance ELSE -1],
    book <- [o \in OperationsAsked |-> BookOf(o)]

\* However calls, workers and the expiry interleave, the committed database only
\* takes steps of the ledger of operations: every settlement, decided on a
\* snapshot, is right in the state it commits to (process_wager_transaction.go:289-430).
KeepsThePromise == Promise!Spec

\* No movement is lost, doubled, made up or turned round: the committed balance of
\* a wallet is what it was opened with and what the processed operations in the
\* database that name it have moved (wallet_repository.go:60-74).
BalancesFollowTheBook == Promise!BalancesFollowTheBook
================================================================================
