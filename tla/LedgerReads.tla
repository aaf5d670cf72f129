------------------------------- MODULE LedgerReads -------------------------------
(***************************************************************************)
(* What the read side sees of one wallet while settlements commit: the     *)
(* paginated ledger (ListByWallet, one statement a page, each on the rows  *)
(* committed by then) and the reconciliation (three statements on one      *)
(* REPEATABLE READ snapshot).                                              *)
(*                                                                         *)
(* A writer is a session of WagerLedger reduced to what orders entries: it *)
(* reads the wallet row, stamps the attempt with the time, and commits an  *)
(* entry with that created_at if the version it read is still the current  *)
(* one.  Pages are ordered by created_at, not by commit.                   *)
(*                                                                         *)
(* One clock serves all writers, and it advances between a commit and the  *)
(* next stamp: created_at keeps microseconds, a commit takes longer.       *)
(***************************************************************************)
EXTENDS Integers, Sequences, FiniteSets

(* An operator whose name ends in Bug is a mistake the code could contain.  *)
(* No specification uses it: each shows that a property notices it.         *)

CONSTANTS
    Writers,
    DeltaOf,        \* of each writer: what its entry adds to the balance
    IdOf,           \* of each writer: the random UUID of its entry
    Initials,       \* the balances the wallet may have been opened with
    Limit,          \* entries of a page (50 by default, at most 200)
    None,
    MaxClock        \* BOUND: time passes this often

ASSUME ReadsAssumption ==
    /\ IsFiniteSet(Writers)
    /\ DeltaOf \in [Writers -> Int] /\ IdOf \in [Writers -> Nat]
    /\ \A w \in Writers : DeltaOf[w] # 0 /\ IdOf[w] > 0
    /\ \A v, w \in Writers : IdOf[v] = IdOf[w] => v = w
    /\ None \notin Nat /\ None \notin [at : Int, id : Nat]
    /\ Initials \subseteq Nat /\ Limit \in Nat \ {0} /\ MaxClock \in Nat

VARIABLES
    clock,
    balance, version, entries,   \* the wallet and its entries, as committed
    pc, seen, stamp,             \* of a writer: the row it read, its time
    cursor, listed, before,      \* the reader: entries got, entries there at first
    step, view, checked, report  \* the reconciliation: its snapshot, its answer

wallet  == << balance, version, entries >>
writers == << pc, seen, stamp >>
reader  == << cursor, listed, before >>
audit   == << step, view, checked, report >>
vars    == << clock, wallet, writers, reader, audit >>

Entry(at, id, delta) == [at |-> at, id |-> id, delta |-> delta]
Row == [balance |-> balance, version |-> version]
NoCursor == [at |-> -1, id |-> 0]
NoReport == [stored |-> 0, calculated |-> 0, consistent |-> TRUE, checkedEntries |-> 0]

Init ==
    /\ clock = 1
    /\ balance \in Initials /\ version = 1
    /\ entries = IF balance = 0 THEN << >> ELSE << Entry(0, 0, balance) >>
    /\ pc = [w \in Writers |-> "read"]
    /\ seen = [w \in Writers |-> Row]
    /\ stamp = [w \in Writers |-> 0]
    /\ cursor = NoCursor /\ listed = << >> /\ before = None
    /\ step = "idle" /\ view = << >> /\ checked = 0 /\ report = NoReport

Tick ==
    /\ clock < MaxClock
    /\ clock' = clock + 1
    /\ UNCHANGED << wallet, writers, reader, audit >>

--------------------------------------------------------------------------------
(* Writers.                                                                  *)

FindWallet(w) ==
    /\ pc[w] = "read"
    /\ seen' = [seen EXCEPT ![w] = Row]
    /\ pc' = [pc EXCEPT ![w] = "stamp"]
    /\ UNCHANGED << clock, wallet, stamp, reader, audit >>

\* now is taken after the wallet is read, in every attempt anew.
Now_OfFirstAttemptBug(w) == IF stamp[w] = 0 THEN clock ELSE stamp[w]
Now(w) == clock

Stamp(w) ==
    /\ pc[w] = "stamp"
    /\ stamp' = [stamp EXCEPT ![w] = Now(w)]
    /\ pc' = [pc EXCEPT ![w] = "commit"]
    /\ UNCHANGED << clock, wallet, seen, reader, audit >>

Covered(w) == seen[w].balance + DeltaOf[w] >= 0

Settle(w) ==
    /\ pc[w] = "commit" /\ Covered(w)
    /\ seen[w].version = version
    /\ balance' = seen[w].balance + DeltaOf[w]
    /\ version' = version + 1
    /\ entries' = Append(entries, Entry(stamp[w], IdOf[w], DeltaOf[w]))
    /\ clock' = clock + 1
    /\ pc' = [pc EXCEPT ![w] = "done"]
    /\ UNCHANGED << seen, stamp, reader, audit >>

Retry(w) ==
    /\ pc[w] = "commit" /\ Covered(w)
    /\ seen[w].version # version
    /\ pc' = [pc EXCEPT ![w] = "read"]
    /\ UNCHANGED << clock, wallet, seen, stamp, reader, audit >>

\* A rejection writes no entry.
Reject(w) ==
    /\ pc[w] = "commit" /\ ~ Covered(w)
    /\ pc' = [pc EXCEPT ![w] = "done"]
    /\ UNCHANGED << clock, wallet, seen, stamp, reader, audit >>

--------------------------------------------------------------------------------
(* The paginated ledger.                                                     *)

\* (created_at, id) > (cursor), the comparison of SQL rows.
Follows(e, c) == e.at > c.at \/ (e.at = c.at /\ e.id > c.id)

\* ORDER BY created_at, id.
Ordered(S) ==
    CHOOSE rows \in [1..Cardinality(S) -> S] :
        \A i, j \in DOMAIN rows : i < j => Follows(rows[j], rows[i])

\* LIMIT limit + 1.
Fetched ==
    LET found == {entries[i] : i \in DOMAIN entries}
        rows  == Ordered({e \in found : Follows(e, cursor)})
    IN SubSeq(rows, 1, IF Len(rows) > Limit THEN Limit + 1 ELSE Len(rows))

Cursor(e) == [at |-> e.at, id |-> e.id]
NextCursor_ExtraRowBug(rows) == IF Len(rows) > Limit THEN Cursor(rows[Limit + 1]) ELSE None
NextCursor(rows) == IF Len(rows) > Limit THEN Cursor(rows[Limit]) ELSE None

ListByWallet ==
    /\ cursor # None
    /\ listed' = listed \o SubSeq(Fetched, 1, IF Len(Fetched) > Limit THEN Limit ELSE Len(Fetched))
    /\ cursor' = NextCursor(Fetched)
    /\ before' = IF before = None THEN Len(entries) ELSE before
    /\ UNCHANGED << clock, wallet, writers, audit >>

\* A client that has the last page may start again from the first.
StartOver ==
    /\ cursor = None
    /\ cursor' = NoCursor /\ listed' = << >> /\ before' = None
    /\ UNCHANGED << clock, wallet, writers, audit >>

--------------------------------------------------------------------------------
(* The reconciliation.                                                       *)

\* The entries a later statement of the transaction sees.
Visible_ReadCommittedBug == entries
Visible == view

SumOf(s) ==
    LET upTo[i \in 0..Len(s)] == IF i = 0 THEN 0 ELSE upTo[i - 1] + s[i].delta
    IN upTo[Len(s)]

ReadStored ==
    /\ step = "idle"
    /\ view' = entries
    /\ report' = [report EXCEPT !.stored = balance]
    /\ step' = "count"
    /\ UNCHANGED << clock, wallet, writers, reader, checked >>

Count ==
    /\ step = "count"
    /\ checked' = Len(Visible)
    /\ step' = "sum"
    /\ UNCHANGED << clock, wallet, writers, reader, view, report >>

\* Without entries SumByWallet would report a missing wallet: it is not asked.
Sum ==
    /\ step = "sum"
    /\ LET calculated == IF checked = 0 THEN 0 ELSE SumOf(Visible)
       IN report' = [stored |-> report.stored, calculated |-> calculated,
                     consistent |-> report.stored = calculated, checkedEntries |-> checked]
    /\ step' = "done"
    /\ UNCHANGED << clock, wallet, writers, reader, view, checked >>

ReconcileAgain ==
    /\ step = "done"
    /\ step' = "idle" /\ view' = << >> /\ checked' = 0 /\ report' = NoReport
    /\ UNCHANGED << clock, wallet, writers, reader >>

Reconcile == ReadStored \/ Count \/ Sum \/ ReconcileAgain

Next ==
    \/ \E w \in Writers : FindWallet(w) \/ Stamp(w) \/ Settle(w) \/ Retry(w) \/ Reject(w)
    \/ ListByWallet \/ StartOver \/ Reconcile \/ Tick

Spec == Init /\ [][Next]_vars

--------------------------------------------------------------------------------
(* Properties.                                                               *)

\* The pages a client has got, one after the other, are the first entries of the
\* ledger in the order they were committed: none is skipped, repeated or out of
\* order, although pages follow created_at and settlements commit between them
\* (ledger_repository.go:104-146, process_wager_transaction.go:296-304).
PagesFollowTheLedger ==
    /\ Len(listed) <= Len(entries)
    /\ listed = SubSeq(entries, 1, Len(listed))

\* A listing that has ended holds at least what the wallet had when it began
\* (ledger_repository.go:148-155).
ListingIsComplete == cursor = None => Len(listed) >= before

\* A reconciliation that races with settlements reports no divergence, and the
\* entries it counted are the ones that make up the stored balance it reports
\* (reconcile_wallet.go:39-64, txmanager.go:62-80).
NoFalseDivergence ==
    step = "done" =>
        /\ report.consistent
        /\ report.stored = SumOf(SubSeq(entries, 1, report.checkedEntries))
================================================================================
