--------------------------- MODULE WagerEffectProofs ---------------------------
(*****************************************************************************)
(* Theorems about money: what the entries of a wallet and the outbox rows    *)
(* of a transaction say of its row; and that the database keeps the promise  *)
(* of OperationLedger.  Both stand on IInv, KInv and OInv.                   *)
(*                                                                           *)
(* MInv looks at one entry at a time and only backwards, at the entries      *)
(* before it, at a row that is final and at events that are never removed:   *)
(* what is true of an entry when it is appended stays true.                  *)
(*                                                                           *)
(* The promise: Init maps to Init, and every step of every session, of the   *)
(* expiry and of OpenWallet maps to one step of the book of operations or    *)
(* to none.  The book promises that a settlement is right at the moment it   *)
(* happens; a session decides it earlier, on rows it has read.  What carries *)
(* one to the other is KInv: what a session relies on stays true, except     *)
(* that nothing has reversed its reference yet, and whoever has done that    *)
(* has moved the version of the wallet on.                                   *)
(*                                                                           *)
(* Conservation: that balances are the sums of what processed operations     *)
(* have moved is proved of the book (Agree), which has no sessions to worry  *)
(* about, and holds of the database because it keeps the promise.            *)
(*****************************************************************************)
EXTENDS WagerRefinement, WagerLedgerProofs, FiniteSetTheorems

\* All that an entry tells: its row moved money in this wallet, by this amount, in
\* the direction of its kind, to the result it reports, once, after what it
\* reverses, and its event carries the version the wallet had then.
EntryTrue(w, i) ==
    LET e == ledger[w][i]
        t == e.tx
    IN /\ Moved(t) /\ WalletOf(t) = w /\ e.amount = AmountOf(t)
       /\ t \in Requests =>
             /\ e.after = txs[t].result
             /\ e.dir = Direction(input[t].kind, RefKind(txs[t].resolved))
             /\ input[t].kind \in Reversals =>
                   \E j \in 1..(i - 1) : ledger[w][j].tx = txs[t].resolved
       /\ \E k \in 1..Len(events[t]) :
             events[t][k] = Event("BalanceChanged", MovementVersion(w, i))
       /\ \A j \in 1..(i - 1) : ledger[w][j].tx # t

\* A row that moved money has an entry.
HasEntry(t) ==
    \E i \in 1..Len(ledger[WalletOf(t)]) : ledger[WalletOf(t)][i].tx = t

\* The version of a wallet counts its opening and its entries.
VersionCounts(w) ==
    wallets[w].version = IF IsOpen(w) THEN MovementVersion(w, Len(ledger[w])) ELSE 0

\* The events of a row: its waiting first, if it waited, and its outcome last.
Waited(t, n) == n = 1 => events[t][1].type = "PendingReference"

\* How many events the outcome of a row has: a movement of money has its own.
Finals(t) == IF txs[t].status = "PROCESSED" /\ input[t].kind # "LOSS" THEN 2 ELSE 1

\* The events of a row that has ended, n of them from its waiting.
Ended(t, n) ==
    /\ Waited(t, n) /\ Len(events[t]) = n + Finals(t)
    /\ txs[t].status = "FAILED" => n = 1 /\ events[t][n + 1].type = "Expired"
    /\ txs[t].status = "REJECTED" => events[t][n + 1].type = "Rejected"
    /\ txs[t].status = "PROCESSED" => events[t][n + 1].type = "Processed"
    /\ Finals(t) = 2 => events[t][n + 2].type = "BalanceChanged"

\* The events of a row tell what it has been through.
Story(t) ==
    /\ txs[t].status = "ABSENT" => events[t] = << >>
    /\ txs[t].status = "PENDING_REFERENCE" => Len(events[t]) = 1 /\ Waited(t, 1)
    /\ txs[t].status \in Terminal => \E n \in {0, 1} : Ended(t, n)

\* The inductive invariant of what settlements leave behind.
MInv ==
    /\ \A w \in Wallets : \A i \in 1..Len(ledger[w]) : EntryTrue(w, i)
    /\ \A t \in TxIds : Moved(t) => HasEntry(t)
    /\ \A w \in Wallets : VersionCounts(w)
    /\ \A t \in Requests : Story(t)

--------------------------------------------------------------------------------
(* What is true of an entry stays true of it.                                 *)

\* No event is changed or removed.
EventsGrow ==
    \A t \in TxIds :
        /\ Len(events'[t]) >= Len(events[t])
        /\ \A k \in 1..Len(events[t]) : events'[t][k] = events[t][k]

\* The rows, entries and lengths are what their types say.
LEMMA EntriesTyped ==
    ASSUME TypeOK, NEW w \in Wallets
    PROVE  /\ ledger[w] \in Seq(Entries) /\ Len(ledger[w]) \in Nat
           /\ \A i \in 1..Len(ledger[w]) : ledger[w][i] \in Entries /\ ledger[w][i].tx \in TxIds
           /\ wallets[w].version \in Nat
  <1>1. ledger[w] \in Seq(Entries) /\ wallets[w].version \in Nat
    BY DEF TypeOK, RowsTypeOK, WalletRows
  <1>2. \A i \in 1..Len(ledger[w]) : ledger[w][i] \in Entries
    BY <1>1
  <1> QED
    BY <1>1, <1>2 DEF Entries

\* A row that moved money has done so for ever.
LEMMA MovedStays ==
    ASSUME Grows, NEW t \in TxIds, Moved(t)
    PROVE  Moved(t)' /\ txs'[t] = txs[t]
  BY DEF Grows, RowsFreeze, Moved, Terminal, KindOf

\* Nothing that an entry tells can change.
LEMMA EntryStays ==
    ASSUME TypeOK, Grows, EventsGrow, NEW w \in Wallets, NEW i \in 1..Len(ledger[w]),
           EntryTrue(w, i)
    PROVE  EntryTrue(w, i)'
  <1> SUFFICES ASSUME NEW e, e = ledger[w][i], NEW t, t = e.tx
               PROVE  EntryTrue(w, i)'
    OBVIOUS
  <1>1. /\ i \in Nat /\ Len(ledger[w]) \in Nat /\ t \in TxIds
        /\ \A j \in 1..Len(ledger[w]) : ledger'[w][j] = ledger[w][j]
        /\ Len(ledger'[w]) >= Len(ledger[w]) /\ input' = input
    BY EntriesTyped DEF Grows, LedgerGrows
  <1>2. ledger'[w][i] = e /\ \A j \in 1..(i - 1) : ledger'[w][j] = ledger[w][j]
    BY <1>1
  <1>3. Moved(t) /\ Moved(t)' /\ txs'[t] = txs[t]
    BY <1>1, MovedStays DEF EntryTrue
  <1>4. \E k \in 1..Len(events'[t]) :
             events'[t][k] = Event("BalanceChanged", MovementVersion(w, i))
    <2>1. PICK k \in 1..Len(events[t]) :
             events[t][k] = Event("BalanceChanged", MovementVersion(w, i))
      BY DEF EntryTrue
    <2>2. Len(events[t]) \in Nat /\ Len(events'[t]) >= Len(events[t]) /\ events'[t][k] = events[t][k]
      BY <1>1, <2>1 DEF EventsGrow, TypeOK, RowsTypeOK
    <2> QED
      BY <2>1, <2>2
  <1>5. e.amount = AmountOf(t) /\ WalletOf(t) = w /\ AmountOf(t)' = AmountOf(t)
        /\ WalletOf(t)' = WalletOf(t)
    BY <1>1 DEF EntryTrue, AmountOf, WalletOf
  <1>6. t \in Requests =>
             /\ e.after = txs[t].result
             /\ e.dir = Direction(input[t].kind, RefKind(txs[t].resolved))
             /\ input[t].kind \in Reversals =>
                   \E j \in 1..(i - 1) : ledger[w][j].tx = txs[t].resolved
    BY DEF EntryTrue
  <1>7. \A j \in 1..(i - 1) : ledger[w][j].tx # t
    BY DEF EntryTrue
  <1>8. RefKind(txs[t].resolved)' = RefKind(txs[t].resolved)
    BY <1>1, <1>3 DEF RefKind
  <1>9. t \in Requests /\ input[t].kind \in Reversals =>
             \E j \in 1..(i - 1) : ledger'[w][j].tx = txs'[t].resolved
    BY <1>2, <1>3, <1>6
  <1>10. \A j \in 1..(i - 1) : ledger'[w][j].tx # t
    BY <1>2, <1>7
  <1>11. MovementVersion(w, i)' = MovementVersion(w, i)
    BY DEF MovementVersion
  <1> QED
    BY <1>1, <1>2, <1>3, <1>4, <1>5, <1>6, <1>8, <1>9, <1>10, <1>11 DEF EntryTrue

\* A row keeps its entry.
LEMMA HasEntryStays ==
    ASSUME TypeOK, Grows, NEW t \in TxIds, WalletOf(t) \in Wallets, HasEntry(t)
    PROVE  HasEntry(t)'
  <1>1. PICK i \in 1..Len(ledger[WalletOf(t)]) : ledger[WalletOf(t)][i].tx = t
    BY DEF HasEntry
  <1>2. WalletOf(t)' = WalletOf(t)
    BY DEF Grows, WalletOf
  <1>3. /\ Len(ledger[WalletOf(t)]) \in Nat
        /\ Len(ledger'[WalletOf(t)]) >= Len(ledger[WalletOf(t)])
        /\ ledger'[WalletOf(t)][i] = ledger[WalletOf(t)][i]
    BY <1>1, EntriesTyped DEF Grows, LedgerGrows
  <1> QED
    BY <1>1, <1>2, <1>3 DEF HasEntry

--------------------------------------------------------------------------------
(* A commit.                                                                  *)

\* What a commit announces.
LEMMA AnnouncedMeans ==
    ASSUME IInv, KInv, NEW p \in Sessions, pc[p] = "commit", NEW s, s = Announced(p)
    PROVE  /\ s \in Seq(Events)
           /\ plan[p].do = "settle" =>
                 /\ Len(s) = 2 /\ s[1].type = "Processed" /\ s[2].type = "BalanceChanged"
                 /\ s[2] = Event("BalanceChanged", MovedWallet(p).version)
           /\ plan[p].do = "loss" => Len(s) = 1 /\ s[1].type = "Processed"
           /\ plan[p].do = "reject" => Len(s) = 1 /\ s[1].type = "Rejected"
           /\ plan[p].do = "pend" => Len(s) = 1 /\ s[1].type = "PendingReference"
           /\ plan[p].do = "retry" => s = << >>
  <1>1. s \in Seq(Events)
    BY CommitTyped
  <1>2. CASE plan[p].do = "settle"
    <2>1. s = << Event("Processed", 0), Event("BalanceChanged", MovedWallet(p).version) >>
      BY <1>2 DEF Announced
    <2> QED
      BY <1>1, <1>2, <2>1 DEF Event
  <1>3. CASE plan[p].do = "loss"
    <2>1. s = << Event("Processed", 0) >>
      BY <1>3 DEF Announced
    <2> QED
      BY <1>1, <1>3, <2>1 DEF Event
  <1>4. CASE plan[p].do = "reject"
    <2>1. s = << Event("Rejected", 0) >>
      BY <1>4 DEF Announced
    <2> QED
      BY <1>1, <1>4, <2>1 DEF Event
  <1>5. CASE plan[p].do = "pend"
    <2>1. s = << Event("PendingReference", 0) >>
      BY <1>5 DEF Announced
    <2> QED
      BY <1>1, <1>5, <2>1 DEF Event
  <1>6. CASE plan[p].do = "retry"
    <2>1. s = << >>
      BY <1>6 DEF Announced
    <2> QED
      BY <1>1, <1>6, <2>1
  <1>7. plan[p].do \in {"settle", "loss", "reject", "pend", "retry"}
    BY OutcomeMeans
  <1> QED
    BY <1>1, <1>2, <1>3, <1>4, <1>5, <1>6, <1>7

\* One sequence after another: the elements of the first, then those of the second.
LEMMA JoinFacts ==
    ASSUME NEW S, NEW a \in Seq(S), NEW b \in Seq(S), NEW c, c = a \o b,
           NEW n, n = Len(a), NEW m, m = Len(b)
    PROVE  /\ n \in Nat /\ m \in Nat /\ Len(c) = n + m
           /\ \A k \in 1..n : c[k] = a[k]
           /\ \A k \in 1..m : c[n + k] = b[k]
  <1>1. /\ n \in Nat /\ m \in Nat /\ Len(c) = n + m
        /\ \A i \in 1..n + m : c[i] = IF i <= n THEN a[i] ELSE b[i - n]
    BY ConcatProperties
  <1>2. ASSUME NEW k \in 1..m PROVE c[n + k] = b[k]
    <2> DEFINE i == n + k
    <2>1. i \in 1..n + m /\ ~ (i <= n) /\ i - n = k
      BY <1>1
    <2> HIDE DEF i
    <2>2. c[i] = b[k]
      BY <1>1, <2>1
    <2> QED
      BY <2>2 DEF i
  <1> QED
    BY <1>1, <1>2

\* What can be read off a short sequence b appended to a.
Joined(a, n, b, c) ==
    /\ b = << >> => Len(c) = n
    /\ Len(b) = 1 => Len(c) = n + 1 /\ c[n + 1] = b[1]
    /\ Len(b) = 2 => Len(c) = n + 2 /\ c[n + 1] = b[1] /\ c[n + 2] = b[2]
    /\ n = 1 => c[1] = a[1]

\* Appending joins.
LEMMA JoinShort ==
    ASSUME NEW S, NEW a \in Seq(S), NEW b \in Seq(S), NEW c, c = a \o b,
           NEW n, n = Len(a)
    PROVE  Joined(a, n, b, c)
  <1>1. /\ n \in Nat /\ Len(b) \in Nat /\ Len(c) = n + Len(b)
        /\ \A k \in 1..n : c[k] = a[k]
        /\ \A k \in 1..Len(b) : c[n + k] = b[k]
    BY JoinFacts
  <1>2. b = << >> => Len(c) = n
    BY <1>1
  <1>3. ASSUME Len(b) = 1 PROVE Len(c) = n + 1 /\ c[n + 1] = b[1]
    <2>1. 1 \in 1..Len(b)
      BY <1>3
    <2> QED
      BY <1>1, <1>3, <2>1
  <1>4. ASSUME Len(b) = 2 PROVE Len(c) = n + 2 /\ c[n + 1] = b[1] /\ c[n + 2] = b[2]
    <2>1. 1 \in 1..Len(b) /\ 2 \in 1..Len(b)
      BY <1>4
    <2> QED
      BY <1>1, <1>4, <2>1
  <1>5. n = 1 => c[1] = a[1]
    BY <1>1
  <1> QED
    BY <1>2, <1>3, <1>4, <1>5 DEF Joined

\* A commit adds to the events of its row and to no other.
LEMMA CommitAppends ==
    ASSUME IInv, IInv', KInv, NEW p \in Sessions, Commit(p)
    PROVE  /\ EventsGrow
           /\ events'[task[p]] = events[task[p]] \o Announced(p)
           /\ events[task[p]] \in Seq(Events) /\ Announced(p) \in Seq(Events)
           /\ \A u \in TxIds : u # task[p] => events'[u] = events[u]
  <1> SUFFICES ASSUME NEW t, t = task[p], NEW s, s = Announced(p)
               PROVE  /\ EventsGrow
                      /\ events'[t] = events[t] \o s
                      /\ events[t] \in Seq(Events) /\ s \in Seq(Events)
                      /\ \A u \in TxIds : u # t => events'[u] = events[u]
    OBVIOUS
  <1>1. /\ t \in TxIds /\ events' = [events EXCEPT ![t] = @ \o s] /\ pc[p] = "commit"
    BY CommitMeans
  <1>2. /\ events[t] \in Seq(Events) /\ s \in Seq(Events)
        /\ events'[t] = events[t] \o s
        /\ \A u \in TxIds : u # t => events'[u] = events[u]
        /\ \A u \in TxIds : Len(events[u]) \in Nat
    BY <1>1, AnnouncedMeans DEF IInv, TypeOK, RowsTypeOK
  <1>3. /\ Len(events'[t]) >= Len(events[t])
        /\ \A k \in 1..Len(events[t]) : events'[t][k] = events[t][k]
    BY <1>2, JoinFacts
  <1>4. EventsGrow
    <2> SUFFICES ASSUME NEW u \in TxIds
                 PROVE  /\ Len(events'[u]) >= Len(events[u])
                        /\ \A k \in 1..Len(events[u]) : events'[u][k] = events[u][k]
      BY DEF EventsGrow
    <2>1. CASE u = t
      BY <1>3, <2>1
    <2>2. CASE u # t
      BY <1>2, <2>2
    <2> QED
      BY <2>1, <2>2
  <1> QED
    BY <1>2, <1>4

\* A commit goes on with the story of its row, after its waiting if it waited.
LEMMA CommitStory ==
    ASSUME IInv, IInv', KInv, MInv, NEW p \in Sessions, Commit(p)
    PROVE  \A u \in Requests : Story(u)'
  <1> SUFFICES ASSUME NEW t, t = task[p], NEW s, s = Announced(p), NEW o, o = Outcome(p),
                      NEW n, n = Len(events[t]), NEW u \in Requests
               PROVE  Story(u)'
    OBVIOUS
  <1>1. /\ t \in Requests /\ t \in TxIds /\ pc[p] = "commit" /\ input' = input
        /\ Asked(p) = input[t] /\ txs' = [txs EXCEPT ![t] = o]
    BY CommitMeans
  <1>2. txs'[t] = o /\ \A v \in TxIds : v # t => txs'[v] = txs[v]
    BY <1>1 DEF IInv, TypeOK, RowsTypeOK
  <1>3. /\ events'[t] = events[t] \o s
        /\ events[t] \in Seq(Events) /\ s \in Seq(Events)
        /\ \A v \in TxIds : v # t => events'[v] = events[v]
    BY CommitAppends
  <1>4. CASE u # t
    <2>1. txs'[u] = txs[u] /\ events'[u] = events[u] /\ Story(u)
      BY <1>2, <1>3, <1>4 DEF TxIds, MInv
    <2> QED
      BY <1>1, <2>1 DEF Story, Ended, Waited, Finals
  <1>5. CASE u = t
    <2>1. /\ s = << >> => Len(events'[t]) = n
          /\ Len(s) = 1 => Len(events'[t]) = n + 1 /\ events'[t][n + 1] = s[1]
          /\ Len(s) = 2 => /\ Len(events'[t]) = n + 2
                           /\ events'[t][n + 1] = s[1] /\ events'[t][n + 2] = s[2]
          /\ n = 1 => events'[t][1] = events[t][1]
      <3>1. Joined(events[t], n, s, events'[t])
        BY <1>3, JoinShort
      <3> QED
        BY <3>1 DEF Joined
    <2>2. /\ p \in Requests => n = 0
          /\ p \in Workers => n = 1 /\ events[t][1].type = "PendingReference"
      <3>1. Story(t)
        BY <1>1 DEF MInv
      <3>2. /\ p \in Requests => txs[t].status = "ABSENT"
            /\ p \in Workers => txs[t].status = "PENDING_REFERENCE"
        BY <1>1, HeldRow
      <3> QED
        BY <3>1, <3>2 DEF Story, Waited
    <2>3. n \in {0, 1} /\ Waited(t, n)'
      BY <2>1, <2>2 DEF Waited, Sessions
    <2>4. /\ plan[p].do \in {"settle", "loss", "reject", "pend", "retry"}
          /\ plan[p].do \in {"settle", "loss"} => o.status = "PROCESSED"
          /\ plan[p].do = "reject" => o.status = "REJECTED"
          /\ plan[p].do \in {"pend", "retry"} => o.status = "PENDING_REFERENCE"
      BY <1>1, OutcomeMeans
    <2>5. /\ plan[p].do = "settle" => input[t].kind # "LOSS"
          /\ plan[p].do = "loss" => input[t].kind = "LOSS"
          /\ plan[p].do = "pend" => p \in Requests
          /\ plan[p].do = "retry" => p \in Workers
      BY <1>1 DEF KInv, Knows, PlanHonest, Settling
    <2>6. CASE plan[p].do = "settle"
      <3>1. o.status = "PROCESSED" /\ Finals(t)' = 2
        BY <1>1, <1>2, <2>4, <2>5, <2>6 DEF Finals
      <3>2. Len(s) = 2 /\ s[1].type = "Processed" /\ s[2].type = "BalanceChanged"
        BY <1>1, <2>6, AnnouncedMeans
      <3>3. Ended(t, n)'
        BY <1>2, <2>1, <2>3, <3>1, <3>2 DEF Ended
      <3> QED
        BY <1>2, <1>5, <2>3, <3>1, <3>3 DEF Story
    <2>7. CASE plan[p].do = "loss"
      <3>1. o.status = "PROCESSED" /\ Finals(t)' = 1
        BY <1>1, <1>2, <2>4, <2>5, <2>7 DEF Finals
      <3>2. Len(s) = 1 /\ s[1].type = "Processed"
        BY <1>1, <2>7, AnnouncedMeans
      <3>3. Ended(t, n)'
        BY <1>2, <2>1, <2>3, <3>1, <3>2 DEF Ended
      <3> QED
        BY <1>2, <1>5, <2>3, <3>1, <3>3 DEF Story
    <2>8. CASE plan[p].do = "reject"
      <3>1. o.status = "REJECTED" /\ Finals(t)' = 1
        BY <1>1, <1>2, <2>4, <2>8 DEF Finals
      <3>2. Len(s) = 1 /\ s[1].type = "Rejected"
        BY <1>1, <2>8, AnnouncedMeans
      <3>3. Ended(t, n)'
        BY <1>2, <2>1, <2>3, <3>1, <3>2 DEF Ended
      <3> QED
        BY <1>2, <1>5, <2>3, <3>1, <3>3 DEF Story
    <2>9. CASE plan[p].do = "pend"
      <3>1. o.status = "PENDING_REFERENCE" /\ n = 0
        BY <2>2, <2>4, <2>5, <2>9
      <3>2. Len(s) = 1 /\ s[1].type = "PendingReference"
        BY <1>1, <2>9, AnnouncedMeans
      <3>3. Len(events'[t]) = 1 /\ events'[t][1].type = "PendingReference"
        BY <2>1, <3>1, <3>2
      <3> QED
        BY <1>2, <1>5, <3>1, <3>3 DEF Story, Waited, Terminal
    <2>10. CASE plan[p].do = "retry"
      <3>1. o.status = "PENDING_REFERENCE" /\ n = 1
        BY <2>2, <2>4, <2>5, <2>10
      <3>2. s = << >>
        BY <1>1, <2>10, AnnouncedMeans
      <3> QED
        BY <1>2, <1>5, <2>1, <2>3, <3>1, <3>2 DEF Story, Terminal
    <2> QED
      BY <2>4, <2>6, <2>7, <2>8, <2>9, <2>10
  <1> QED
    BY <1>4, <1>5

\* The version after one more movement.
LEMMA NextVersion ==
    ASSUME NEW w \in Wallets, NEW n \in Nat
    PROVE  MovementVersion(w, n + 1) = MovementVersion(w, n) + 1
  BY DEF MovementVersion

\* What a commit leaves alone: a row that moved money before it is another one.
LEMMA CommitOthers ==
    ASSUME IInv, IInv', KInv, NEW p \in Sessions, Commit(p), NEW t, t = task[p]
    PROVE  /\ ~ Moved(t)
           /\ \A u \in TxIds : u # t => txs'[u] = txs[u] /\ Moved(u)' = Moved(u)
           /\ txs'[t] = Outcome(p)
           /\ Moved(t)' <=> plan[p].do = "settle"
  <1>1. /\ t \in Requests /\ t \in TxIds /\ t \notin Wallets /\ pc[p] = "commit" /\ input' = input
        /\ Asked(p) = input[t] /\ txs' = [txs EXCEPT ![t] = Outcome(p)]
    BY CommitMeans
  <1>2. txs[t].status \in {"ABSENT", "PENDING_REFERENCE"}
    BY <1>1, HeldRow
  <1>3. /\ \A u \in TxIds : u # t => txs'[u] = txs[u]
        /\ txs'[t] = Outcome(p)
    BY <1>1 DEF IInv, TypeOK, RowsTypeOK
  <1>4. /\ plan[p].do \in {"settle", "loss", "reject", "pend", "retry"}
        /\ plan[p].do \in {"settle", "loss"} => Outcome(p).status = "PROCESSED"
        /\ plan[p].do \in {"reject", "pend", "retry"} => Outcome(p).status # "PROCESSED"
    BY <1>1, OutcomeMeans
  <1>5. /\ plan[p].do = "settle" => input[t].kind # "LOSS"
        /\ plan[p].do = "loss" => input[t].kind = "LOSS"
    BY <1>1 DEF KInv, Knows, PlanHonest, Settling
  <1>6. Moved(t)' <=> plan[p].do = "settle"
    BY <1>1, <1>3, <1>4, <1>5 DEF Moved, KindOf
  <1> QED
    BY <1>1, <1>2, <1>3, <1>6 DEF Moved, KindOf

\* The entry of a settlement is true when it is appended.
LEMMA NewEntryTrue ==
    ASSUME IInv, IInv', KInv, MInv, NEW p \in Sessions, Commit(p), plan[p].do = "settle",
           NEW t, t = task[p], NEW w, w = Asked(p).wallet, NEW n, n = Len(ledger[w])
    PROVE  /\ n \in Nat /\ Len(ledger'[w]) = n + 1 /\ ledger'[w][n + 1].tx = t
           /\ EntryTrue(w, n + 1)'
           /\ wallets'[w].version = MovementVersion(w, n + 1)
  <1>1. /\ t \in Requests /\ t \in TxIds /\ t \notin Wallets /\ w \in Wallets
        /\ Asked(p) = input[t] /\ IsOpen(w) /\ pc[p] = "commit"
        /\ wallets' = [wallets EXCEPT ![w] = MovedWallet(p)]
        /\ ledger' = [ledger EXCEPT ![w] = Append(@, Movement(p))]
        /\ snap[p] = wallets[w] /\ input' = input
    BY CommitMeans
  <1>2. TypeOK /\ Grows /\ EventsGrow
    BY CommitGrows, CommitAppends DEF IInv
  <1>3. /\ n \in Nat /\ Len(ledger'[w]) = n + 1 /\ ledger'[w][n + 1] = Movement(p)
        /\ \A j \in 1..n : ledger'[w][j] = ledger[w][j]
    <2>1. Movement(p) \in Entries /\ ledger[w] \in Seq(Entries)
      BY <1>1, <1>2, MovementTyped, EntriesTyped
    <2>2. ledger'[w] = Append(ledger[w], Movement(p))
      BY <1>1, <1>2 DEF TypeOK, RowsTypeOK
    <2> QED
      BY <2>1, <2>2, AppendFacts
  <1>4. /\ ~ Moved(t) /\ Moved(t)' /\ txs'[t] = Outcome(p)
        /\ txs'[t].resolved = plan[p].ref /\ txs'[t].result = MovedBalance(p)
        /\ txs'[t].status = "PROCESSED"
    BY <1>1, CommitOthers, OutcomeMeans
  <1>5. /\ Movement(p).tx = t /\ Movement(p).amount = input[t].amount
        /\ Movement(p).dir = Direction(input[t].kind, RefKind(plan[p].ref))
        /\ Movement(p).after = MovedBalance(p)
    BY <1>1 DEF Movement, Entry, MovedBalance, MoveOf
  <1>6. wallets'[w].version = MovementVersion(w, n + 1)
        /\ MovedWallet(p).version = MovementVersion(w, n + 1)
    <2>1. wallets[w].version = MovementVersion(w, n)
      BY <1>1 DEF MInv, VersionCounts
    <2>2. wallets'[w] = MovedWallet(p) /\ MovedWallet(p).version = wallets[w].version + 1
      BY <1>1, <1>2 DEF MovedWallet, TypeOK, RowsTypeOK
    <2> QED
      BY <1>1, <1>3, <2>1, <2>2, NextVersion
  <1>7. \E k \in 1..Len(events'[t]) :
            events'[t][k] = Event("BalanceChanged", MovementVersion(w, n + 1))
    <2>1. /\ events'[t] = events[t] \o Announced(p)
          /\ events[t] \in Seq(Events) /\ Announced(p) \in Seq(Events)
      BY CommitAppends
    <2>2. Joined(events[t], Len(events[t]), Announced(p), events'[t])
      BY <2>1, JoinShort
    <2>3. /\ Len(Announced(p)) = 2
          /\ Announced(p)[2] = Event("BalanceChanged", MovementVersion(w, n + 1))
      BY <1>1, <1>6, AnnouncedMeans
    <2>4. /\ Len(events'[t]) = Len(events[t]) + 2
          /\ events'[t][Len(events[t]) + 2] = Event("BalanceChanged", MovementVersion(w, n + 1))
      BY <2>2, <2>3 DEF Joined
    <2>5. Len(events[t]) \in Nat
      BY <2>1
    <2> QED
      BY <2>4, <2>5
  <1>8. ASSUME NEW j \in 1..n PROVE ledger'[w][j].tx # t
    <2>1. EntryTrue(w, j)
      BY <1>1, <1>3 DEF MInv
    <2>2. Moved(ledger[w][j].tx)
      BY <2>1 DEF EntryTrue
    <2> QED
      BY <1>3, <1>4, <2>2
  <1>9. ASSUME input[t].kind \in Reversals
        PROVE  \E j \in 1..n : ledger'[w][j].tx = txs'[t].resolved
    <2> SUFFICES ASSUME NEW v, v = plan[p].ref PROVE \E j \in 1..n : ledger'[w][j].tx = v
      BY <1>4
    <2>1. v # None
      BY <1>1, <1>4, <1>9, OutcomeHonest DEF RowHonest
    <2>2. Serves(v, input[t])
      BY <1>1, <2>1 DEF KInv, Knows, PlanHonest
    <2>3. /\ v \in Requests /\ v \in TxIds /\ txs[v].status = "PROCESSED"
          /\ input[v].wallet = w /\ input[v].kind \in ReferableKinds(input[t].kind)
      BY <1>1, <2>2 DEF Serves, ReferenceFailure, Agrees, NoFailure, TxIds
    <2>4. Moved(v) /\ WalletOf(v) = w
      BY <2>3, SessionsAssumption DEF Moved, KindOf, WalletOf, ReferableKinds
    <2>5. HasEntry(v)
      BY <2>3, <2>4 DEF MInv
    <2> QED
      BY <1>3, <2>4, <2>5 DEF HasEntry
  <1>10. /\ WalletOf(t)' = w /\ AmountOf(t)' = input[t].amount
         /\ RefKind(txs'[t].resolved) = RefKind(plan[p].ref)
         /\ RefKind(txs[t].resolved)' = RefKind(plan[p].ref)
    BY <1>1, <1>4 DEF WalletOf, AmountOf, RefKind
  <1>11. MovementVersion(w, n + 1)' = MovementVersion(w, n + 1) /\ 1..(n + 1 - 1) = 1..n
    BY <1>3 DEF MovementVersion
  <1>12. ASSUME NEW i, i = n + 1 PROVE EntryTrue(w, i)'
    <2> SUFFICES ASSUME NEW e, e = Movement(p) PROVE EntryTrue(w, i)'
      OBVIOUS
    <2>1. ledger'[w][i] = e /\ e.tx = t /\ 1..(i - 1) = 1..n
      BY <1>3, <1>5, <1>12
    <2>2. t \in Requests /\ input[t].kind \in Reversals =>
               \E j \in 1..(i - 1) : ledger'[w][j].tx = txs'[t].resolved
      BY <1>9, <2>1
    <2>3. \A j \in 1..(i - 1) : ledger'[w][j].tx # t
      BY <1>8, <2>1
    <2>4. \E k \in 1..Len(events'[t]) :
               events'[t][k] = Event("BalanceChanged", MovementVersion(w, i))
      BY <1>7, <1>12
    <2>5. MovementVersion(w, i)' = MovementVersion(w, i)
      BY DEF MovementVersion
    <2>6. /\ Moved(t)' /\ WalletOf(t)' = w /\ e.amount = AmountOf(t)'
          /\ e.after = txs'[t].result /\ input' = input
          /\ e.dir = Direction(input[t].kind, RefKind(txs[t].resolved)')
      BY <1>1, <1>4, <1>5, <1>10
    <2> QED
      BY <1>1, <2>1, <2>2, <2>3, <2>4, <2>5, <2>6 DEF EntryTrue
  <1> QED
    BY <1>3, <1>5, <1>6, <1>12

\* Every row and every movement has a wallet.
LEMMA HomeTyped ==
    ASSUME TypeOK, NEW t \in TxIds
    PROVE  WalletOf(t) \in Wallets
  BY InputsTyped DEF WalletOf, TxIds

\* A commit leaves every entry, old and new, true.
LEMMA CommitEntries ==
    ASSUME IInv, IInv', KInv, MInv, NEW p \in Sessions, Commit(p),
           NEW v \in Wallets, NEW i \in 1..Len(ledger'[v])
    PROVE  EntryTrue(v, i)'
  <1> SUFFICES ASSUME NEW w, w = Asked(p).wallet, NEW n, n = Len(ledger[w])
               PROVE  EntryTrue(v, i)'
    OBVIOUS
  <1>1. TypeOK /\ Grows /\ EventsGrow
    BY CommitGrows, CommitAppends DEF IInv
  <1>2. ASSUME i \in 1..Len(ledger[v]) PROVE EntryTrue(v, i)'
    BY <1>1, <1>2, EntryStays DEF MInv
  <1>3. /\ w \in Wallets
        /\ \/ /\ plan[p].do = "settle"
              /\ ledger' = [ledger EXCEPT ![w] = Append(@, Movement(p))]
           \/ plan[p].do # "settle" /\ ledger' = ledger
    BY CommitMeans
  <1>4. CASE plan[p].do = "settle" /\ v = w
    <2>1. n \in Nat /\ Len(ledger'[w]) = n + 1 /\ EntryTrue(w, n + 1)'
      BY <1>4, NewEntryTrue
    <2>2. i \in 1..Len(ledger[v]) \/ i = n + 1
      BY <1>4, <2>1
    <2> QED
      BY <1>2, <1>4, <2>1, <2>2
  <1>5. CASE ~ (plan[p].do = "settle" /\ v = w)
    <2>1. ledger'[v] = ledger[v]
      BY <1>1, <1>3, <1>5 DEF TypeOK, RowsTypeOK
    <2> QED
      BY <1>2, <2>1
  <1> QED
    BY <1>4, <1>5

\* A commit leaves no row that moved money without its entry.
LEMMA CommitHasEntry ==
    ASSUME IInv, IInv', KInv, MInv, NEW p \in Sessions, Commit(p),
           NEW u \in TxIds, Moved(u)'
    PROVE  HasEntry(u)'
  <1> SUFFICES ASSUME NEW t, t = task[p], NEW w, w = Asked(p).wallet, NEW n, n = Len(ledger[w])
               PROVE  HasEntry(u)'
    OBVIOUS
  <1>1. CASE u # t
    <2>1. TypeOK /\ Grows /\ Moved(u) /\ WalletOf(u) \in Wallets
      BY <1>1, CommitGrows, CommitOthers, HomeTyped DEF IInv
    <2> QED
      BY <2>1, HasEntryStays DEF MInv
  <1>2. CASE u = t
    <2>1. plan[p].do = "settle"
      BY <1>2, CommitOthers
    <2>2. n \in Nat /\ Len(ledger'[w]) = n + 1 /\ ledger'[w][n + 1].tx = t
      BY <2>1, NewEntryTrue
    <2>3. t \notin Wallets /\ input' = input /\ input[t].wallet = w
      BY CommitMeans
    <2>4. WalletOf(t)' = w
      BY <2>3 DEF WalletOf
    <2> QED
      BY <1>2, <2>2, <2>4 DEF HasEntry
  <1> QED
    BY <1>1, <1>2

\* A commit that moves money raises the version by one, any other leaves it.
LEMMA CommitVersions ==
    ASSUME IInv, IInv', KInv, MInv, NEW p \in Sessions, Commit(p), NEW v \in Wallets
    PROVE  VersionCounts(v)'
  <1> SUFFICES ASSUME NEW w, w = Asked(p).wallet, NEW n, n = Len(ledger[w])
               PROVE  VersionCounts(v)'
    OBVIOUS
  <1>1. /\ w \in Wallets /\ TypeOK
        /\ \/ /\ plan[p].do = "settle"
              /\ wallets' = [wallets EXCEPT ![w] = MovedWallet(p)]
              /\ ledger' = [ledger EXCEPT ![w] = Append(@, Movement(p))]
           \/ plan[p].do # "settle" /\ ledger' = ledger /\ wallets' = wallets
    BY CommitMeans DEF IInv
  <1>2. CASE plan[p].do = "settle" /\ v = w
    <2>1. /\ n \in Nat /\ Len(ledger'[w]) = n + 1
          /\ wallets'[w].version = MovementVersion(w, n + 1)
      BY <1>2, NewEntryTrue
    <2>2. MovementVersion(w, n + 1) > 0
      BY <2>1 DEF MovementVersion
    <2> QED
      BY <1>2, <2>1, <2>2 DEF VersionCounts, IsOpen, MovementVersion
  <1>3. CASE ~ (plan[p].do = "settle" /\ v = w)
    <2>1. ledger'[v] = ledger[v] /\ wallets'[v] = wallets[v]
      BY <1>1, <1>3 DEF TypeOK, RowsTypeOK
    <2>2. VersionCounts(v)
      BY DEF MInv
    <2> QED
      BY <2>1, <2>2 DEF VersionCounts, IsOpen, MovementVersion
  <1> QED
    BY <1>2, <1>3

\* Commit.
LEMMA CommitM ==
    ASSUME IInv, IInv', KInv, MInv, NEW p \in Sessions, Commit(p)
    PROVE  MInv'
  <1>1. \A v \in Wallets : \A i \in 1..Len(ledger'[v]) : EntryTrue(v, i)'
    BY CommitEntries
  <1>2. \A u \in TxIds : Moved(u)' => HasEntry(u)'
    BY CommitHasEntry
  <1>3. \A v \in Wallets : VersionCounts(v)'
    BY CommitVersions
  <1>4. \A u \in Requests : Story(u)'
    BY CommitStory
  <1> QED
    BY <1>1, <1>2, <1>3, <1>4 DEF MInv

--------------------------------------------------------------------------------
(* The other steps.                                                           *)

\* A step that writes nothing.
LEMMA QuietM ==
    ASSUME MInv, UNCHANGED << input, db >>
    PROVE  MInv'
  BY DEF MInv, db, EntryTrue, HasEntry, VersionCounts, Story, Ended, Waited, Finals,
         Moved, KindOf, WalletOf, AmountOf, RefKind, MovementVersion, IsOpen

\* An expiry ends the story of a row that waited, and moves nothing.
LEMMA ExpireM ==
    ASSUME IInv, IInv', KInv, MInv, NEW t \in Requests, Expire(t)
    PROVE  MInv'
  <1>1. /\ txs[t].status = "PENDING_REFERENCE" /\ t \in TxIds /\ TypeOK
        /\ txs' = [txs EXCEPT ![t] = Expired(t)]
        /\ events' = [events EXCEPT ![t] = Append(@, Event("Expired", 0))]
        /\ input' = input /\ wallets' = wallets /\ ledger' = ledger
    BY DEF Expire, Stale, TxIds, IInv
  <1>2. /\ txs'[t].status = "FAILED" /\ \A u \in TxIds : u # t => txs'[u] = txs[u]
    BY <1>1 DEF TypeOK, RowsTypeOK, Rows, Expired
  <1>3. /\ events[t] \in Seq(Events) /\ Event("Expired", 0) \in Events
        /\ events'[t] = Append(events[t], Event("Expired", 0))
        /\ \A u \in TxIds : u # t => events'[u] = events[u]
        /\ \A u \in TxIds : Len(events[u]) \in Nat
    BY <1>1 DEF TypeOK, RowsTypeOK, Events, Event
  <1>4. /\ Len(events'[t]) = Len(events[t]) + 1
        /\ events'[t][Len(events[t]) + 1] = Event("Expired", 0)
        /\ \A k \in 1..Len(events[t]) : events'[t][k] = events[t][k]
    BY <1>3, AppendFacts
  <1>5. Grows /\ EventsGrow
    BY <1>1, <1>3, <1>4, ExpireGrows DEF EventsGrow
  <1>6. \A v \in Wallets : \A i \in 1..Len(ledger'[v]) : EntryTrue(v, i)'
    BY <1>1, <1>5, EntryStays DEF MInv
  <1>7. \A u \in TxIds : Moved(u)' => HasEntry(u)'
    <2> SUFFICES ASSUME NEW u \in TxIds, Moved(u)' PROVE HasEntry(u)'
      OBVIOUS
    <2>1. Moved(u)
      BY <1>1, <1>2 DEF Moved, KindOf
    <2> QED
      BY <1>1, <1>5, <2>1, HasEntryStays, HomeTyped DEF MInv
  <1>8. \A v \in Wallets : VersionCounts(v)'
    BY <1>1 DEF MInv, VersionCounts, IsOpen, MovementVersion
  <1>9. ASSUME NEW u \in Requests PROVE Story(u)'
    <2>1. CASE u # t
      BY <1>1, <1>2, <1>3, <2>1 DEF MInv, Story, Ended, Waited, Finals, TxIds
    <2>2. CASE u = t
      <3>1. Len(events[t]) = 1 /\ events[t][1].type = "PendingReference"
        BY <1>1 DEF MInv, Story, Waited
      <3>2. Len(events'[t]) = 2 /\ events'[t][1].type = "PendingReference"
            /\ events'[t][2].type = "Expired"
        BY <1>4, <3>1 DEF Event
      <3>3. Finals(t)' = 1
        BY <1>2 DEF Finals
      <3>4. Ended(t, 1)'
        BY <1>2, <3>2, <3>3 DEF Ended, Waited
      <3> QED
        BY <1>2, <2>2, <3>4 DEF Story
    <2> QED
      BY <2>1, <2>2
  <1> QED
    BY <1>6, <1>7, <1>8, <1>9 DEF MInv

\* What the rows of a wallet are when it opens.
LEMMA OpeningFacts ==
    ASSUME NEW w \in Wallets, NEW entries, entries = OpeningEntries(w)
    PROVE  /\ InitialOf[w] \in Nat
           /\ InitialOf[w] = 0 => Len(entries) = 0 /\ OpeningRow(w).status = "ABSENT"
           /\ InitialOf[w] # 0 =>
                 /\ Len(entries) = 1 /\ entries[1].tx = w /\ entries[1].amount = InitialOf[w]
                 /\ OpeningRow(w).status = "PROCESSED"
                 /\ Len(OpeningEvents(w)) = 2 /\ OpeningEvents(w)[2] = Event("BalanceChanged", 1)
  <1>1. InitialOf[w] \in Nat
    BY WalletsAssumption, MaxMinorAssumption
  <1>2. CASE InitialOf[w] = 0
    <2>1. entries = << >> /\ OpeningRow(w).status = "ABSENT"
      BY <1>2 DEF OpeningEntries, OpeningRow, NoRow
    <2> QED
      BY <1>1, <1>2, <2>1
  <1>3. CASE InitialOf[w] # 0
    <2>1. entries = << Entry(w, "CREDIT", InitialOf[w], 0) >>
      BY <1>3 DEF OpeningEntries
    <2>2. OpeningEvents(w) = << Event("Processed", 0), Event("BalanceChanged", 1) >>
      BY <1>3 DEF OpeningEvents
    <2>3. OpeningRow(w).status = "PROCESSED"
      BY <1>3 DEF OpeningRow, NoRow
    <2> QED
      BY <1>1, <1>3, <2>1, <2>2, <2>3 DEF Entry
  <1> QED
    BY <1>1, <1>2, <1>3

\* Either nothing was opened or a wallet that had left no trace was.
LEMMA OpenWalletMeans ==
    ASSUME IInv, KInv, NEW w \in Wallets, OpenWallet(w)
    PROVE  \/ UNCHANGED << input, db >>
           \/ /\ wallets[w] = NoWallet /\ txs[w] = NoRow
              /\ ledger[w] = << >> /\ events[w] = << >>
              /\ wallets' = [wallets EXCEPT ![w] = Opened(w)]
              /\ txs'     = [txs EXCEPT ![w] = OpeningRow(w)]
              /\ ledger'  = [ledger EXCEPT ![w] = OpeningEntries(w)]
              /\ events'  = [events EXCEPT ![w] = OpeningEvents(w)]
              /\ input' = input
  <1>1. openReply[w] = "none" /\ WalletHonest(w)
    BY DEF OpenWallet, KInv, RowsKnown
  <1> QED
    BY <1>1 DEF OpenWallet, WalletHonest, db

\* An opening writes one true entry, or none when the wallet opens empty.
LEMMA OpenWalletM ==
    ASSUME IInv, IInv', KInv, MInv, NEW w \in Wallets, OpenWallet(w)
    PROVE  MInv'
  <1>1. CASE UNCHANGED << input, db >>
    BY <1>1, QuietM
  <1>2. CASE ~ UNCHANGED << input, db >>
    <2>1. /\ wallets[w] = NoWallet /\ txs[w] = NoRow
          /\ ledger[w] = << >> /\ events[w] = << >>
          /\ wallets' = [wallets EXCEPT ![w] = Opened(w)]
          /\ txs'     = [txs EXCEPT ![w] = OpeningRow(w)]
          /\ ledger'  = [ledger EXCEPT ![w] = OpeningEntries(w)]
          /\ events'  = [events EXCEPT ![w] = OpeningEvents(w)]
          /\ input' = input
      BY <1>2, OpenWalletMeans
    <2>2. TypeOK /\ w \in TxIds /\ Grows /\ w \notin Requests
      BY OpenWalletGrows, SessionsAssumption DEF IInv, TxIds
    <2>3. /\ wallets'[w] = Opened(w) /\ txs'[w] = OpeningRow(w)
          /\ ledger'[w] = OpeningEntries(w) /\ events'[w] = OpeningEvents(w)
          /\ \A v \in Wallets : v # w => ledger'[v] = ledger[v] /\ wallets'[v] = wallets[v]
          /\ \A u \in TxIds : u # w => txs'[u] = txs[u] /\ events'[u] = events[u]
          /\ \A u \in TxIds : Len(events[u]) \in Nat
          /\ OpeningEvents(w) \in Seq(Events)
      BY <2>1, <2>2, OpeningTyped DEF TypeOK, RowsTypeOK
    <2>4. EventsGrow
      BY <2>1, <2>3 DEF EventsGrow
    <2> DEFINE entries == OpeningEntries(w)
    <2>5. /\ InitialOf[w] \in Nat
          /\ InitialOf[w] = 0 => Len(entries) = 0 /\ OpeningRow(w).status = "ABSENT"
          /\ InitialOf[w] # 0 =>
                /\ Len(entries) = 1 /\ entries[1].tx = w /\ entries[1].amount = InitialOf[w]
                /\ OpeningRow(w).status = "PROCESSED"
                /\ Len(OpeningEvents(w)) = 2 /\ OpeningEvents(w)[2] = Event("BalanceChanged", 1)
      BY OpeningFacts
    <2>6. ledger'[w] = entries
      BY <2>3
    <2> HIDE DEF entries
    <2>7. ASSUME NEW v \in Wallets, NEW i \in 1..Len(ledger'[v]) PROVE EntryTrue(v, i)'
      <3>1. CASE v # w
        BY <2>2, <2>3, <2>4, <3>1, EntryStays DEF MInv
      <3>2. CASE v = w
        <4>1. InitialOf[w] # 0 /\ i = 1
          <5>1. i \in 1..Len(entries)
            BY <2>6, <3>2
          <5>2. Len(entries) # 0
            BY <5>1
          <5>3. InitialOf[w] # 0
            BY <2>5, <5>2
          <5>4. Len(entries) = 1
            BY <2>5, <5>3
          <5> QED
            BY <5>1, <5>3, <5>4
        <4>2. ledger'[w][1].tx = w /\ ledger'[w][1].amount = InitialOf[w]
          BY <2>5, <2>6, <4>1
        <4>3. Moved(w)' /\ WalletOf(w)' = w /\ AmountOf(w)' = InitialOf[w]
          BY <2>3, <2>5, <4>1 DEF Moved, KindOf, WalletOf, AmountOf
        <4>4. MovementVersion(w, 1)' = 1 /\ 1..(1 - 1) = {}
          BY <2>5, <4>1 DEF MovementVersion
        <4>5. \E k \in 1..Len(events'[w]) : events'[w][k] = Event("BalanceChanged", 1)
          BY <2>3, <2>5, <4>1
        <4>6. EntryTrue(w, 1)'
          BY <2>2, <4>2, <4>3, <4>4, <4>5 DEF EntryTrue
        <4> QED
          BY <3>2, <4>1, <4>6
      <3> QED
        BY <3>1, <3>2
    <2>8. ASSUME NEW u \in TxIds, Moved(u)' PROVE HasEntry(u)'
      <3>1. CASE u # w
        <4>1. Moved(u)
          BY <2>1, <2>3, <2>8, <3>1 DEF Moved, KindOf
        <4> QED
          BY <2>2, <4>1, HasEntryStays, HomeTyped DEF MInv
      <3>2. CASE u = w
        <4>1. InitialOf[w] # 0
          BY <2>3, <2>5, <2>8, <3>2 DEF Moved
        <4>2. Len(ledger'[w]) = 1 /\ ledger'[w][1].tx = w /\ WalletOf(w)' = w
          BY <2>5, <2>6, <4>1 DEF WalletOf
        <4> QED
          BY <3>2, <4>2 DEF HasEntry
      <3> QED
        BY <3>1, <3>2
    <2>9. ASSUME NEW v \in Wallets PROVE VersionCounts(v)'
      <3>1. CASE v # w
        BY <2>3, <3>1 DEF MInv, VersionCounts, IsOpen, MovementVersion
      <3>2. CASE v = w
        <4>1. wallets'[w].version = 1
          BY <2>3 DEF Opened
        <4>2. Len(ledger'[w]) = IF InitialOf[w] = 0 THEN 0 ELSE 1
          BY <2>5, <2>6
        <4> QED
          BY <2>5, <3>2, <4>1, <4>2 DEF VersionCounts, IsOpen, MovementVersion
      <3> QED
        BY <3>1, <3>2
    <2>10. ASSUME NEW u \in Requests PROVE Story(u)'
      <3>1. txs'[u] = txs[u] /\ events'[u] = events[u] /\ Story(u)
        BY <2>2, <2>3 DEF MInv, TxIds
      <3> QED
        BY <2>1, <3>1 DEF Story, Ended, Waited, Finals
    <2> QED
      BY <2>7, <2>8, <2>9, <2>10 DEF MInv
  <1> QED
    BY <1>1, <1>2

\* The wallets that exist at the start are opened.
LEMMA InitM == Init => MInv
  <1> SUFFICES ASSUME Init PROVE MInv
    OBVIOUS
  <1>1. /\ wallets = [w \in Wallets |-> IF w \in Preopened THEN Opened(w) ELSE NoWallet]
        /\ txs = [t \in TxIds |-> IF t \in Preopened THEN OpeningRow(t) ELSE NoRow]
        /\ ledger = [w \in Wallets |-> IF w \in Preopened THEN OpeningEntries(w) ELSE <<>>]
        /\ events = [t \in TxIds |-> IF t \in Preopened THEN OpeningEvents(t) ELSE <<>>]
        /\ Preopened \subseteq Wallets
    BY WalletsAssumption DEF Init
  <1>2. \A t \in Requests : t \in TxIds /\ txs[t] = NoRow /\ events[t] = << >> /\ t \notin Wallets
    BY <1>1, SessionsAssumption DEF TxIds
  <1>3. ASSUME NEW w \in Wallets
        PROVE  /\ w \in TxIds /\ w \notin Requests
               /\ w \notin Preopened => wallets[w] = NoWallet /\ txs[w] = NoRow /\ ledger[w] = << >>
               /\ w \in Preopened =>
                     /\ wallets[w] = Opened(w) /\ txs[w] = OpeningRow(w)
                     /\ ledger[w] = OpeningEntries(w) /\ events[w] = OpeningEvents(w)
    BY <1>1, SessionsAssumption DEF TxIds
  <1>4. ASSUME NEW w \in Wallets
        PROVE  /\ InitialOf[w] \in Nat
               /\ Len(ledger[w]) = IF w \in Preopened /\ InitialOf[w] # 0 THEN 1 ELSE 0
               /\ w \in Preopened /\ InitialOf[w] = 0 => txs[w].status = "ABSENT"
               /\ w \in Preopened /\ InitialOf[w] # 0 =>
                     /\ ledger[w][1].tx = w
                     /\ ledger[w][1].amount = InitialOf[w] /\ txs[w].status = "PROCESSED"
                     /\ Len(events[w]) = 2 /\ events[w][2] = Event("BalanceChanged", 1)
    <2> DEFINE entries == OpeningEntries(w)
    <2>1. /\ InitialOf[w] \in Nat
          /\ InitialOf[w] = 0 => Len(entries) = 0 /\ OpeningRow(w).status = "ABSENT"
          /\ InitialOf[w] # 0 =>
                /\ Len(entries) = 1 /\ entries[1].tx = w /\ entries[1].amount = InitialOf[w]
                /\ OpeningRow(w).status = "PROCESSED"
                /\ Len(OpeningEvents(w)) = 2 /\ OpeningEvents(w)[2] = Event("BalanceChanged", 1)
      BY OpeningFacts
    <2>2. CASE w \notin Preopened
      BY <1>3, <2>1, <2>2
    <2>3. CASE w \in Preopened
      <3>1. ledger[w] = entries /\ txs[w] = OpeningRow(w) /\ events[w] = OpeningEvents(w)
        BY <1>3, <2>3
      <3> QED
        BY <2>1, <2>3, <3>1
    <2> QED
      BY <2>2, <2>3
  <1>5. ASSUME NEW w \in Wallets, NEW i \in 1..Len(ledger[w]) PROVE EntryTrue(w, i)
    <2>1. w \in Preopened /\ InitialOf[w] # 0 /\ i = 1
      BY <1>4, <1>5
    <2>2. ledger[w][1].tx = w /\ ledger[w][1].amount = InitialOf[w] /\ w \notin Requests
      BY <1>3, <1>4, <2>1
    <2>3. Moved(w) /\ WalletOf(w) = w /\ AmountOf(w) = InitialOf[w]
      BY <1>4, <2>1 DEF Moved, KindOf, WalletOf, AmountOf
    <2>4. MovementVersion(w, 1) = 1 /\ 1..(1 - 1) = {}
      BY <1>4, <2>1 DEF MovementVersion
    <2>5. \E k \in 1..Len(events[w]) : events[w][k] = Event("BalanceChanged", 1)
      BY <1>4, <2>1
    <2>6. EntryTrue(w, 1)
      BY <2>2, <2>3, <2>4, <2>5 DEF EntryTrue
    <2> QED
      BY <2>1, <2>6
  <1>6. ASSUME NEW t \in TxIds, Moved(t) PROVE HasEntry(t)
    <2>1. t \in Wallets
      BY <1>2, <1>6 DEF Moved, NoRow, TxIds
    <2>2. t \in Preopened /\ InitialOf[t] # 0
      BY <1>3, <1>4, <1>6, <2>1 DEF Moved, NoRow
    <2>3. Len(ledger[t]) = 1 /\ ledger[t][1].tx = t /\ WalletOf(t) = t
      BY <1>4, <2>1, <2>2 DEF WalletOf
    <2> QED
      BY <2>3 DEF HasEntry
  <1>7. ASSUME NEW w \in Wallets PROVE VersionCounts(w)
    <2>1. CASE w \notin Preopened
      BY <1>3, <2>1 DEF VersionCounts, IsOpen, NoWallet
    <2>2. CASE w \in Preopened
      <3>0. wallets[w] = Opened(w)
        BY <1>3, <2>2
      <3>1. wallets[w].version = 1
        BY <3>0 DEF Opened
      <3>2. MovementVersion(w, Len(ledger[w])) = 1
        <4>1. /\ InitialOf[w] \in Nat
              /\ Len(ledger[w]) = IF InitialOf[w] # 0 THEN 1 ELSE 0
          BY <1>4, <2>2
        <4> QED
          BY <4>1 DEF MovementVersion
      <3> QED
        BY <3>1, <3>2 DEF VersionCounts, IsOpen
    <2> QED
      BY <2>1, <2>2
  <1>8. \A t \in Requests : Story(t)
    BY <1>2 DEF Story, NoRow, Terminal
  <1> QED
    BY <1>5, <1>6, <1>7, <1>8 DEF MInv

\* Every step keeps MInv.
LEMMA NextM == IInv /\ IInv' /\ KInv /\ MInv /\ [Next]_vars => MInv'
  <1> SUFFICES ASSUME IInv, IInv', KInv, MInv, [Next]_vars PROVE MInv'
    OBVIOUS
  <1>1. \/ UNCHANGED << input, db >>
        \/ \E w \in Wallets : OpenWallet(w)
        \/ \E p \in Sessions : Commit(p)
        \/ \E t \in Requests : Expire(t)
    BY NextQuietOr
  <1> QED
    BY <1>1, QuietM, OpenWalletM, CommitM, ExpireM

\* What the entries and the outbox rows say is true in every reachable state.
LEMMA MInvariant == Spec => []MInv
  <1>1. Init => MInv
    BY InitM
  <1>2. IInv /\ IInv' /\ KInv /\ MInv /\ [Next]_vars => MInv'
    BY NextM
  <1>3. Spec => []IInv
    BY Invariant
  <1>4. Spec => []KInv
    BY KInvariant
  <1> QED
    BY <1>1, <1>2, <1>3, <1>4, PTL DEF Spec

--------------------------------------------------------------------------------
(* The theorems.                                                              *)

\* The version of a wallet counts its movements, and each movement is announced
\* with the version it made (wallet.go:92-94).
THEOREM VersionsCount == Spec => []VersionCountsMovements
  <1>1. MInv => VersionCountsMovements
    <2> SUFFICES ASSUME MInv, NEW w \in Wallets
                 PROVE  /\ wallets[w].version =
                              IF IsOpen(w) THEN MovementVersion(w, Len(ledger[w])) ELSE 0
                        /\ \A i \in 1..Len(ledger[w]) :
                              \E k \in 1..Len(events[ledger[w][i].tx]) :
                                 events[ledger[w][i].tx][k]
                                    = Event("BalanceChanged", MovementVersion(w, i))
      BY DEF VersionCountsMovements
    <2>1. VersionCounts(w) /\ \A i \in 1..Len(ledger[w]) : EntryTrue(w, i)
      BY DEF MInv
    <2> QED
      BY <2>1 DEF VersionCounts, EntryTrue
  <1> QED
    BY <1>1, MInvariant, PTL

\* The movements of a row are the entries that name it.
LEMMA MovesMeans ==
    ASSUME NEW t
    PROVE  \A x : x \in Moves(t) <=>
              \E w \in Wallets : \E i \in 1..Len(ledger[w]) :
                 x = << w, i >> /\ ledger[w][i].tx = t
  BY DEF Moves

\* One entry of a row is all its entries.
LEMMA EntryUnique ==
    ASSUME TypeOK, MInv, NEW v \in Wallets, NEW w \in Wallets,
           NEW i \in 1..Len(ledger[v]), NEW j \in 1..Len(ledger[w]),
           ledger[v][i].tx = ledger[w][j].tx
    PROVE  v = w /\ i = j
  <1>1. EntryTrue(v, i) /\ EntryTrue(w, j)
    BY DEF MInv
  <1>2. v = w
    BY <1>1 DEF EntryTrue
  <1>3. /\ i \in Nat /\ j \in Nat
        /\ \A k \in 1..(i - 1) : ledger[v][k].tx # ledger[v][i].tx
        /\ \A k \in 1..(j - 1) : ledger[w][k].tx # ledger[w][j].tx
    BY <1>1, EntriesTyped DEF EntryTrue
  <1>4. ~ (j \in 1..(i - 1)) /\ ~ (i \in 1..(j - 1))
    BY <1>2, <1>3
  <1> QED
    BY <1>2, <1>3, <1>4

\* A row moved money once if it says that it did, and never otherwise: the entry,
\* the wallet and the final UPDATE of the row commit together, whatever was tried
\* before (process_wager_transaction.go:503-545).
THEOREM EffectsMatchOutcomes == Spec => []EffectMatchesOutcome
  <1>1. IInv /\ MInv => EffectMatchesOutcome
    <2> SUFFICES ASSUME IInv, MInv, NEW t \in TxIds
                 PROVE  IF ~ Moved(t) THEN Moves(t) = {}
                        ELSE \E i \in 1..Len(ledger[WalletOf(t)]) :
                                /\ Moves(t) = {<< WalletOf(t), i >>}
                                /\ ledger[WalletOf(t)][i].amount = AmountOf(t)
                                /\ t \in Requests =>
                                      ledger[WalletOf(t)][i].after = txs[t].result
      BY DEF EffectMatchesOutcome
    <2>1. CASE ~ Moved(t)
      <3>1. ASSUME NEW w \in Wallets, NEW i \in 1..Len(ledger[w]), ledger[w][i].tx = t
            PROVE  FALSE
        <4>1. EntryTrue(w, i)
          BY DEF MInv
        <4> QED
          BY <2>1, <3>1, <4>1 DEF EntryTrue
      <3>2. \A x : x \notin Moves(t)
        BY <3>1, MovesMeans
      <3> QED
        BY <2>1, <3>2
    <2>2. CASE Moved(t)
      <3> SUFFICES ASSUME NEW v \in Wallets, v = WalletOf(t)
                   PROVE  \E i \in 1..Len(ledger[v]) :
                             /\ Moves(t) = {<< v, i >>}
                             /\ ledger[v][i].amount = AmountOf(t)
                             /\ t \in Requests => ledger[v][i].after = txs[t].result
        BY <2>2, HomeTyped DEF IInv
      <3>1. PICK i \in 1..Len(ledger[v]) : ledger[v][i].tx = t
        BY <2>2 DEF MInv, HasEntry
      <3>2. EntryTrue(v, i)
        BY DEF MInv
      <3>3. /\ ledger[v][i].amount = AmountOf(t)
            /\ t \in Requests => ledger[v][i].after = txs[t].result
        BY <3>1, <3>2 DEF EntryTrue
      <3>4. \A x : x \in Moves(t) <=> x = << v, i >>
        BY <3>1, MovesMeans, EntryUnique DEF IInv
      <3>5. Moves(t) = {<< v, i >>}
        BY <3>4
      <3> QED
        BY <3>3, <3>5
    <2> QED
      BY <2>1, <2>2
  <1> QED
    BY <1>1, Invariant, MInvariant, PTL

\* A reversal goes the other way: of the kinds it may refer to, each moves money
\* in the opposite direction (validateReference and the switch on the kind).
LEMMA OppositeDirections ==
    ASSUME NEW kind \in Reversals, NEW refKind \in ReferableKinds(kind), NEW other
    PROVE  Direction(kind, refKind) # Direction(refKind, other)
  <1>1. kind \in {"REFUND", "ROLLBACK"} /\ refKind \in {"BET", "WIN", "REFUND"}
    BY DEF Reversals, ReferableKinds
  <1>2. kind = "REFUND" => refKind = "BET"
    BY DEF ReferableKinds
  <1> QED
    BY <1>1, <1>2 DEF Direction

\* A reversal that moved money put back what its reference had moved: same wallet,
\* same amount, opposite direction, and after it (README.md:413-414).
THEOREM ReversalsUndo == Spec => []ReversalUndoes
  <1>1. IInv /\ KInv /\ MInv => ReversalUndoes
    <2> SUFFICES ASSUME IInv, KInv, MInv, NEW t \in Requests, Moved(t), input[t].kind \in Reversals,
                        NEW u, u = txs[t].resolved, NEW w, w = input[t].wallet
                 PROVE  /\ u \in Requests /\ input[u].op = input[t].ref
                        /\ \E i, j \in 1..Len(ledger[w]) :
                              /\ i < j
                              /\ ledger[w][i].tx = u /\ ledger[w][j].tx = t
                              /\ ledger[w][i].dir # ledger[w][j].dir
                              /\ ledger[w][i].amount = ledger[w][j].amount
      BY DEF ReversalUndoes
    <2>1. /\ t \in TxIds /\ t \notin Wallets /\ w \in Wallets /\ TypeOK
          /\ txs[t].status = "PROCESSED" /\ RowHonest(t)
      BY SessionsAssumption, InputsTyped DEF TxIds, Moved, IInv, KInv, RowsKnown
    <2>2. Serves(u, input[t])
      BY <2>1 DEF RowHonest
    <2>3. /\ u \in Requests /\ u \notin Wallets /\ u # None /\ u \in TxIds
          /\ input[u].op = input[t].ref /\ input[u].amount = input[t].amount
          /\ input[u].kind \in ReferableKinds(input[t].kind)
      BY <2>2, SessionsAssumption DEF Serves, ReferenceFailure, NoFailure, Agrees, TxIds
    <2>4. PICK j \in 1..Len(ledger[w]) : ledger[w][j].tx = t
      BY <2>1 DEF MInv, HasEntry, WalletOf
    <2>5. EntryTrue(w, j)
      BY <2>1 DEF MInv
    <2>6. PICK i \in 1..(j - 1) : ledger[w][i].tx = u
      BY <2>4, <2>5 DEF EntryTrue
    <2>7. i \in 1..Len(ledger[w]) /\ i < j
      BY <2>1, <2>6, EntriesTyped
    <2>8. EntryTrue(w, i)
      BY <2>1, <2>7 DEF MInv
    <2>9. /\ ledger[w][j].amount = input[t].amount
          /\ ledger[w][j].dir = Direction(input[t].kind, input[u].kind)
      BY <2>1, <2>3, <2>4, <2>5 DEF EntryTrue, AmountOf, RefKind
    <2>10. /\ ledger[w][i].amount = input[u].amount
           /\ ledger[w][i].dir = Direction(input[u].kind, RefKind(txs[u].resolved))
      BY <2>3, <2>6, <2>8 DEF EntryTrue, AmountOf
    <2>11. ledger[w][i].dir # ledger[w][j].dir
      BY <2>3, <2>9, <2>10, OppositeDirections
    <2> QED
      BY <2>3, <2>4, <2>6, <2>7, <2>9, <2>10, <2>11
  <1> QED
    BY <1>1, Invariant, KInvariant, MInvariant, PTL

\* The types of up to three events, as a sequence.
LEMMA TypesOf ==
    ASSUME NEW s, Len(s) \in {0, 1, 2, 3}, NEW types,
           types = [i \in 1..Len(s) |-> s[i].type]
    PROVE  /\ Len(s) = 0 => types = << >>
           /\ Len(s) = 1 => types = << s[1].type >>
           /\ Len(s) = 2 => types = << s[1].type, s[2].type >>
           /\ Len(s) = 3 => types = << s[1].type, s[2].type, s[3].type >>
  <1>1. ASSUME Len(s) = 0 PROVE types = << >>
    BY <1>1
  <1>2. ASSUME Len(s) = 1 PROVE types = << s[1].type >>
    BY <1>2
  <1>3. ASSUME Len(s) = 2 PROVE types = << s[1].type, s[2].type >>
    BY <1>3
  <1>4. ASSUME Len(s) = 3 PROVE types = << s[1].type, s[2].type, s[3].type >>
    BY <1>4
  <1> QED
    BY <1>1, <1>2, <1>3, <1>4

\* Putting the waiting before the outcome.
LEMMA AfterWaiting ==
    ASSUME NEW a, NEW b, NEW c
    PROVE  /\ << a >> \o << >> = << a >>
           /\ << a >> \o << b >> = << a, b >>
           /\ << a >> \o << b, c >> = << a, b, c >>
  <1> DEFINE S == {a, b, c}
             x == << a >>
  <1>1. x \in Seq(S) /\ Len(x) = 1 /\ x[1] = a
    OBVIOUS
  <1>2. << a >> \o << >> = << a >>
    OBVIOUS
  <1>3. << a >> \o << b >> = << a, b >>
    <2> DEFINE y == << b >>
               z == << a, b >>
               xy == x \o y
    <2>1. y \in Seq(S) /\ Len(y) = 1 /\ y[1] = b
      OBVIOUS
    <2>2. z \in Seq(S) /\ Len(z) = 2 /\ z[1] = a /\ z[2] = b
      OBVIOUS
    <2> HIDE DEF x, y, z
    <2>3. /\ xy \in Seq(S) /\ Len(xy) = 2
          /\ \A i \in 1..2 : xy[i] = IF i <= 1 THEN x[i] ELSE y[i - 1]
      BY <1>1, <2>1, ConcatProperties
    <2> HIDE DEF xy
    <2>4. \A i \in 1..2 : xy[i] = z[i]
      BY <1>1, <2>1, <2>2, <2>3
    <2>5. xy = z
      BY <2>2, <2>3, <2>4, SeqEqual
    <2> QED
      BY <2>5 DEF x, y, z, xy
  <1>4. << a >> \o << b, c >> = << a, b, c >>
    <2> DEFINE y == << b, c >>
               z == << a, b, c >>
               xy == x \o y
    <2>1. y \in Seq(S) /\ Len(y) = 2 /\ y[1] = b /\ y[2] = c
      OBVIOUS
    <2>2. z \in Seq(S) /\ Len(z) = 3 /\ z[1] = a /\ z[2] = b /\ z[3] = c
      OBVIOUS
    <2> HIDE DEF x, y, z
    <2>3. /\ xy \in Seq(S) /\ Len(xy) = 3
          /\ \A i \in 1..3 : xy[i] = IF i <= 1 THEN x[i] ELSE y[i - 1]
      <3> HIDE DEF S
      <3>1. /\ xy \in Seq(S) /\ Len(xy) = Len(x) + Len(y)
            /\ \A i \in 1..Len(x) + Len(y) :
                  xy[i] = IF i <= Len(x) THEN x[i] ELSE y[i - Len(x)]
        BY <1>1, <2>1, ConcatProperties
      <3> QED
        BY <1>1, <2>1, <3>1
    <2> HIDE DEF xy
    <2>4. \A i \in 1..3 : xy[i] = z[i]
      BY <1>1, <2>1, <2>2, <2>3
    <2>5. xy = z
      BY <2>2, <2>3, <2>4, SeqEqual
    <2> QED
      BY <2>5 DEF x, y, z, xy
  <1> QED
    BY <1>2, <1>3, <1>4

\* The outbox tells the story of every row: nothing before it is stored, its
\* waiting if it waited, one outcome, and the one it has (the events that
\* process_wager_transaction.go writes with the final UPDATE).
THEOREM EventsTellOutcomes == Spec => []EventsMatchOutcome
  <1>1. IInv /\ KInv /\ MInv => EventsMatchOutcome
    <2> SUFFICES ASSUME IInv, KInv, MInv
                 PROVE  EventsMatchOutcome
      OBVIOUS
    <2> SUFFICES ASSUME NEW t \in Requests
                 PROVE  LET types == [i \in 1..Len(events[t]) |-> events[t][i].type]
                            final == CASE txs[t].status = "PROCESSED" /\ input[t].kind = "LOSS" ->
                                             << "Processed" >>
                                       [] txs[t].status = "PROCESSED" /\ input[t].kind # "LOSS" ->
                                             << "Processed", "BalanceChanged" >>
                                       [] txs[t].status = "REJECTED" -> << "Rejected" >>
                                       [] txs[t].status = "FAILED"   -> << "Expired" >>
                                       [] OTHER -> << >>
                        IN CASE txs[t].status = "ABSENT" -> types = << >>
                             [] txs[t].status \in {"PENDING_REFERENCE", "FAILED"} ->
                                    types = << "PendingReference" >> \o final
                             [] OTHER -> types \in {final, << "PendingReference" >> \o final}
      BY Zenon DEF EventsMatchOutcome
    <2> SUFFICES ASSUME NEW types, types = [i \in 1..Len(events[t]) |-> events[t][i].type],
                        NEW final,
                        final = CASE txs[t].status = "PROCESSED" /\ input[t].kind = "LOSS" ->
                                        << "Processed" >>
                                  [] txs[t].status = "PROCESSED" /\ input[t].kind # "LOSS" ->
                                        << "Processed", "BalanceChanged" >>
                                  [] txs[t].status = "REJECTED" -> << "Rejected" >>
                                  [] txs[t].status = "FAILED"   -> << "Expired" >>
                                  [] OTHER -> << >>
                 PROVE  CASE txs[t].status = "ABSENT" -> types = << >>
                          [] txs[t].status \in {"PENDING_REFERENCE", "FAILED"} ->
                                 types = << "PendingReference" >> \o final
                          [] OTHER -> types \in {final, << "PendingReference" >> \o final}
      BY Zenon
    <2>1. /\ Story(t)
          /\ txs[t].status \in {"ABSENT", "PENDING_REFERENCE", "PROCESSED", "REJECTED", "FAILED"}
      BY DEF MInv, KInv, RowsKnown, RowHonest, IInv, TypeOK, RowsTypeOK, Rows, Statuses,
             Terminal, TxIds
    <2> DEFINE s == events[t]
    <2>2. CASE txs[t].status = "ABSENT"
      <3>1. Len(s) = 0
        BY <2>1, <2>2 DEF Story
      <3>2. types = << >>
        BY <3>1, TypesOf
      <3> QED
        BY <2>2, <3>2
    <2>3. CASE txs[t].status = "PENDING_REFERENCE"
      <3>1. Len(s) = 1 /\ s[1].type = "PendingReference"
        BY <2>1, <2>3 DEF Story, Waited
      <3>2. types = << "PendingReference" >>
        BY <3>1, TypesOf
      <3>3. final = << >>
        BY <2>3
      <3>4. types = << "PendingReference" >> \o final
        BY <3>2, <3>3, AfterWaiting
      <3> QED
        BY <2>3, <3>4
    <2>4. CASE txs[t].status = "FAILED"
      <3>1. Len(s) = 2 /\ s[1].type = "PendingReference" /\ s[2].type = "Expired"
        BY <2>1, <2>4 DEF Story, Ended, Waited, Finals, Terminal
      <3>2. types = << "PendingReference", "Expired" >>
        BY <3>1, TypesOf
      <3>3. final = << "Expired" >>
        BY <2>4
      <3>4. << "PendingReference" >> \o << "Expired" >> = << "PendingReference", "Expired" >>
        BY AfterWaiting
      <3> QED
        BY <2>4, <3>2, <3>3, <3>4
    <2>5. ASSUME txs[t].status \in {"PROCESSED", "REJECTED"},
                 types \in {final, << "PendingReference" >> \o final}
          PROVE  CASE txs[t].status = "ABSENT" -> types = << >>
                   [] txs[t].status \in {"PENDING_REFERENCE", "FAILED"} ->
                          types = << "PendingReference" >> \o final
                   [] OTHER -> types \in {final, << "PendingReference" >> \o final}
      BY <2>5
    <2>6. ASSUME txs[t].status \in {"PROCESSED", "REJECTED"}
          PROVE  types \in {final, << "PendingReference" >> \o final}
      <3>1. PICK n \in {0, 1} : Ended(t, n)
        BY <2>1, <2>6 DEF Story, Terminal
      <3>2. ASSUME NEW a, final = << a >>, Finals(t) = 1, s[n + 1].type = a
            PROVE  types \in {final, << "PendingReference" >> \o final}
        <4>1. CASE n = 0
          <5>1. Len(s) = 1 /\ s[1].type = a
            BY <3>1, <3>2, <4>1 DEF Ended
          <5>2. types = << a >>
            BY <5>1, TypesOf
          <5> QED
            BY <3>2, <5>2
        <4>2. CASE n = 1
          <5>1. Len(s) = 2 /\ s[1].type = "PendingReference" /\ s[2].type = a
            BY <3>1, <3>2, <4>2 DEF Ended, Waited
          <5>2. types = << "PendingReference", a >>
            BY <5>1, TypesOf
          <5>3. << "PendingReference" >> \o << a >> = << "PendingReference", a >>
            BY AfterWaiting
          <5> QED
            BY <3>2, <5>2, <5>3
        <4> QED
          BY <3>1, <4>1, <4>2
      <3>3. CASE txs[t].status = "REJECTED"
        BY <3>1, <3>2, <3>3 DEF Finals, Ended
      <3>4. CASE txs[t].status = "PROCESSED" /\ input[t].kind = "LOSS"
        BY <3>1, <3>2, <3>4 DEF Finals, Ended
      <3>5. CASE txs[t].status = "PROCESSED" /\ input[t].kind # "LOSS"
        <4>1. /\ Len(s) = n + 2 /\ s[n + 1].type = "Processed" /\ s[n + 2].type = "BalanceChanged"
              /\ n = 1 => s[1].type = "PendingReference"
          BY <3>1, <3>5 DEF Finals, Ended, Waited
        <4>2. final = << "Processed", "BalanceChanged" >>
          BY <3>5
        <4>3. CASE n = 0
          <5>1. types = << "Processed", "BalanceChanged" >>
            BY <4>1, <4>3, TypesOf
          <5> QED
            BY <4>2, <5>1
        <4>4. CASE n = 1
          <5>1. types = << "PendingReference", "Processed", "BalanceChanged" >>
            BY <4>1, <4>4, TypesOf
          <5>2. << "PendingReference" >> \o << "Processed", "BalanceChanged" >>
                   = << "PendingReference", "Processed", "BalanceChanged" >>
            BY AfterWaiting
          <5> QED
            BY <4>2, <5>1, <5>2
        <4> QED
          BY <3>1, <4>3, <4>4
      <3> QED
        BY <2>6, <3>3, <3>4, <3>5
    <2> QED
      BY <2>1, <2>2, <2>3, <2>4, <2>5, <2>6
  <1> QED
    BY <1>1, Invariant, KInvariant, MInvariant, PTL

--------------------------------------------------------------------------------
(* The promise.                                                               *)

\* The balances and the book that the rows make up.
Balances == [w \in Wallets |-> IF IsOpen(w) THEN wallets[w].balance ELSE -1]
Book     == [o \in OperationsAsked |-> BookOf(o)]

\* A stored row is a call that the checks before the INSERT have let through.
RowsValid ==
    \A t \in Stored :
        ValidInput(input[t]) /\ PlayerOf[input[t].wallet] = input[t].player

\* What the mapping needs beside KInv.
RInv == AppliedOnce /\ RowsValid

--------------------------------------------------------------------------------
(* The mapping.                                                               *)

\* An operation is one that was asked for.
LEMMA OperationsTyped ==
    ASSUME TypeOK, NEW t \in Requests
    PROVE  /\ input[t] \in Inputs /\ input[t].op \in OperationsAsked
           /\ input[t].ref # None => input[t].ref \in OperationsAsked
  BY DEF TypeOK, OperationsAsked

\* The operation of a stored row is in the book as that row.
LEMMA BookIs ==
    ASSUME AppliedOnce, NEW t \in Stored
    PROVE  BookOf(input[t].op) = [status |-> txs[t].status, call |-> input[t]]
  <1>1. RowsOf(input[t].op) = {t}
    BY DEF AppliedOnce, RowsOf, Stored
  <1> QED
    BY <1>1 DEF BookOf

\* What is in the book is a stored row.
LEMMA BookMeans ==
    ASSUME NEW o
    PROVE  \/ RowsOf(o) = {} /\ BookOf(o) = [status |-> "ABSENT", call |-> None]
           \/ \E t \in Stored : /\ input[t].op = o
                                /\ BookOf(o) = [status |-> txs[t].status, call |-> input[t]]
  <1>1. CASE RowsOf(o) = {}
    BY <1>1 DEF BookOf
  <1>2. CASE RowsOf(o) # {}
    <2> DEFINE t == CHOOSE t \in RowsOf(o) : TRUE
    <2>1. t \in RowsOf(o)
      BY <1>2
    <2>2. BookOf(o) = [status |-> txs[t].status, call |-> input[t]]
      BY <1>2 DEF BookOf
    <2> HIDE DEF t
    <2> QED
      BY <2>1, <2>2 DEF RowsOf, Stored
  <1> QED
    BY <1>1, <1>2

\* A step that leaves the rows of requests alone leaves the book alone.
LEMMA BookStays ==
    ASSUME UNCHANGED input, \A t \in Requests : txs'[t] = txs[t]
    PROVE  Book' = Book
  <1> SUFFICES ASSUME NEW o \in OperationsAsked PROVE BookOf(o)' = BookOf(o)
    BY DEF Book
  <1>1. RowsOf(o)' = RowsOf(o)
    BY DEF RowsOf
  <1>2. CASE RowsOf(o) = {}
    BY <1>1, <1>2 DEF BookOf
  <1>3. CASE RowsOf(o) # {}
    <2> DEFINE t == CHOOSE t \in RowsOf(o) : TRUE
    <2>1. t \in Requests /\ BookOf(o) = [status |-> txs[t].status, call |-> input[t]]
      BY <1>3 DEF RowsOf, BookOf
    <2>2. BookOf(o)' = [status |-> txs'[t].status, call |-> input'[t]]
      BY <1>1, <1>3 DEF BookOf
    <2> QED
      BY <2>1, <2>2
  <1> QED
    BY <1>2, <1>3

\* A step that writes one row of a request records that operation in the book.
LEMMA BookRecords ==
    ASSUME TypeOK, AppliedOnce', UNCHANGED input, NEW t \in Requests,
           NEW status, status = txs'[t].status, status # "ABSENT",
           \A u \in Requests : u # t => txs'[u] = txs[u],
           NEW in, in = input[t]
    PROVE  Book' = [Book EXCEPT ![in.op] = [status |-> status, call |-> in]]
  <1>1. RowsOf(in.op)' = {t}
    BY DEF AppliedOnce, RowsOf, Stored
  <1>2. BookOf(in.op)' = [status |-> status, call |-> in]
    BY <1>1 DEF BookOf
  <1>3. ASSUME NEW o \in OperationsAsked, o # in.op PROVE BookOf(o)' = BookOf(o)
    <2>1. RowsOf(o)' = RowsOf(o) /\ t \notin RowsOf(o)
      BY <1>3 DEF RowsOf
    <2>2. CASE RowsOf(o) = {}
      BY <2>1, <2>2 DEF BookOf
    <2>3. CASE RowsOf(o) # {}
      <3> DEFINE u == CHOOSE u \in RowsOf(o) : TRUE
      <3>1. u \in RowsOf(o) /\ BookOf(o) = [status |-> txs[u].status, call |-> input[u]]
        BY <2>3 DEF BookOf
      <3>2. BookOf(o)' = [status |-> txs'[u].status, call |-> input'[u]]
        BY <2>1, <2>3 DEF BookOf
      <3>3. txs'[u] = txs[u]
        BY <2>1, <3>1 DEF RowsOf
      <3> QED
        BY <3>1, <3>2, <3>3
    <2> QED
      BY <2>2, <2>3
  <1> QED
    BY <1>2, <1>3 DEF Book

--------------------------------------------------------------------------------
(* The steps.                                                                 *)

\* The balances are integers from zero, which -1 is not.
LEMMA BalancesMean ==
    ASSUME TypeOK, NEW w \in Wallets
    PROVE  /\ Balances[w] = IF IsOpen(w) THEN wallets[w].balance ELSE -1
           /\ IsOpen(w) => Balances[w] # -1
  BY MaxMinorAssumption DEF Balances, TypeOK, RowsTypeOK, WalletRows, Amounts

\* OpenWallet opens the wallet, or nothing happens in the book.
LEMMA OpenWalletRefines ==
    ASSUME IInv, KInv, NEW w \in Wallets, OpenWallet(w)
    PROVE  Promise!Next \/ UNCHANGED << Balances, Book >>
  <1>1. TypeOK /\ openReply[w] = "none" /\ wallets[w] = NoWallet /\ w \notin Requests
    BY SessionsAssumption DEF OpenWallet, KInv, RowsKnown, WalletHonest, IInv
  <1>2. CASE \E v \in Wallets : IsOpen(v) /\ SamePurse(v, w)
    <2>1. UNCHANGED << input, db >>
      BY <1>2 DEF OpenWallet
    <2>2. UNCHANGED Balances
      BY <2>1 DEF Balances, db, IsOpen
    <2>3. UNCHANGED Book
      BY <2>1, BookStays DEF db
    <2> QED
      BY <2>2, <2>3
  <1>3. CASE ~ \E v \in Wallets : IsOpen(v) /\ SamePurse(v, w)
    <2>1. /\ wallets' = [wallets EXCEPT ![w] = Opened(w)]
          /\ txs' = [txs EXCEPT ![w] = OpeningRow(w)]
          /\ input' = input
      BY <1>3 DEF OpenWallet
    <2>2. Book' = Book
      <3>1. \A t \in Requests : txs'[t] = txs[t]
        BY <1>1, <2>1 DEF TypeOK, RowsTypeOK, TxIds
      <3> QED
        BY <2>1, <3>1, BookStays
    <2>3. wallets'[w] = Opened(w) /\ \A v \in Wallets : v # w => wallets'[v] = wallets[v]
      BY <1>1, <2>1 DEF TypeOK, RowsTypeOK
    <2>4. Balances' = [Balances EXCEPT ![w] = InitialOf[w]]
      <3>1. ASSUME NEW v \in Wallets
            PROVE  (IF wallets'[v].version > 0 THEN wallets'[v].balance ELSE -1)
                      = IF v = w THEN InitialOf[w] ELSE Balances[v]
        BY <2>3 DEF Balances, Opened, IsOpen
      <3>2. Balances' = [v \in Wallets |-> IF v = w THEN InitialOf[w] ELSE Balances[v]]
        BY <3>1 DEF Balances, IsOpen
      <3> QED
        BY <3>2 DEF Balances
    <2>5. Balances[w] = -1
      BY <1>1, BalancesMean DEF NoWallet, IsOpen
    <2>6. ASSUME NEW v \in Wallets, Balances[v] # -1
          PROVE  PlayerOf[v] # PlayerOf[w] \/ CurrencyOf[v] # CurrencyOf[w]
      <3>1. IsOpen(v)
        BY <1>1, <2>6, BalancesMean
      <3> QED
        BY <1>3, <3>1 DEF SamePurse
    <2>7. Promise!Open(w)
      BY <2>2, <2>4, <2>5, <2>6 DEF Promise!Open, Promise!Closed, Balances, Book
    <2> QED
      BY <2>7 DEF Promise!Next
  <1> QED
    BY <1>2, <1>3

\* A step that records an outcome of a stored call is a step of the book.
LEMMA RecordedIsNext ==
    ASSUME TypeOK, NEW t \in Requests, NEW in, in = input[t],
           Book'[in.op] # Book[in.op],
           Promise!Settle(in) \/ Promise!Refuse(in) \/ Promise!Wait(in) \/ Promise!Expire(in)
    PROVE  Promise!Next
  <1>1. in \in Inputs /\ in.op \in OperationsAsked
    BY OperationsTyped
  <1> QED
    BY <1>1 DEF Promise!Next, Book

\* Expire ends a call that waits.
LEMMA ExpireRefines ==
    ASSUME IInv, RInv, RInv', NEW t \in Requests, Expire(t)
    PROVE  Promise!Next
  <1> DEFINE in == input[t]
  <1>1. /\ TypeOK /\ t \in TxIds /\ txs[t].status = "PENDING_REFERENCE" /\ t \in Stored
        /\ txs' = [txs EXCEPT ![t] = Expired(t)]
        /\ input' = input /\ wallets' = wallets
    BY DEF Expire, Stale, IInv, Stored, TxIds
  <1>2. txs'[t].status = "FAILED" /\ \A u \in Requests : u # t => txs'[u] = txs[u]
    BY <1>1 DEF TypeOK, RowsTypeOK, Rows, Expired, TxIds
  <1>3. /\ in.op \in OperationsAsked
        /\ Book[in.op] = [status |-> "PENDING_REFERENCE", call |-> in]
    BY <1>1, OperationsTyped, BookIs DEF RInv, Book
  <1>4. Book' = [Book EXCEPT ![in.op] = [status |-> "FAILED", call |-> in]]
    BY <1>1, <1>2, BookRecords DEF RInv
  <1>5. Balances' = Balances
    BY <1>1 DEF Balances, IsOpen
  <1>6. Book'[in.op] # Book[in.op]
    BY <1>3, <1>4 DEF Book
  <1>7. Promise!Expire(in)
    BY <1>3, <1>4, <1>5 DEF Promise!Expire, Promise!Records, Promise!Waits, Balances, Book
  <1> QED
    BY <1>1, <1>6, <1>7, RecordedIsNext

--------------------------------------------------------------------------------
(* A commit.                                                                  *)

\* Both specifications decide by the same rules, those of WagerDomain.
LEMMA SameRules ==
    ASSUME NEW in, NEW other, NEW refKind, NEW before, NEW dir
    PROVE  /\ Promise!Reversals = Reversals /\ Promise!NoFailure = NoFailure
           /\ Promise!ValidInput(in) <=> ValidInput(in)
           /\ Promise!ReferenceFailure(in, other) = ReferenceFailure(in, other)
           /\ Promise!Direction(in.kind, refKind) = Direction(in.kind, refKind)
           /\ Promise!Applied(dir, before, in.amount) = Applied(dir, before, in.amount)
           /\ Promise!Decision(in, refKind, before) = Decision(in, refKind, before)
  <1>1. Promise!Reversals = Reversals /\ Promise!NoFailure = NoFailure
    BY DEF Promise!Reversals, Reversals, Promise!NoFailure, NoFailure
  <1>2. Promise!ValidInput(in) <=> ValidInput(in)
    BY <1>1 DEF Promise!ValidInput, ValidInput, Promise!AmountAllowed, AmountAllowed,
                Promise!RefAllowed, RefAllowed
  <1>3. Promise!ReferenceFailure(in, other) = ReferenceFailure(in, other)
    BY <1>1 DEF Promise!ReferenceFailure, ReferenceFailure, Promise!Agrees, Agrees,
                Promise!ReferableKinds, ReferableKinds
  <1>4. Promise!Direction(in.kind, refKind) = Direction(in.kind, refKind)
    BY DEF Promise!Direction, Direction
  <1>5. Promise!Applied(dir, before, in.amount) = Applied(dir, before, in.amount)
    BY DEF Promise!Applied, Applied
  <1>6. Promise!Decision(in, refKind, before) = Decision(in, refKind, before)
    BY <1>1, <1>4
       DEF Promise!Decision, Decision, Promise!Covered, Covered, Promise!Overflows, Overflows,
           Promise!InsufficientCode, InsufficientCode
  <1> QED
    BY <1>1, <1>2, <1>3, <1>4, <1>5, <1>6

\* What a request has inserted is new to the book: the unique indexes let nobody
\* else insert the operation or the key until it commits.
LEMMA RequestEnters ==
    ASSUME IInv, KInv, RInv, NEW p \in Requests, Commit(p), NEW in, in = Asked(p)
    PROVE  Promise!Enters(in) /\ Book[in.op].status = "ABSENT"
  <1>1. /\ task[p] = p /\ pc[p] = "commit" /\ in = input[p] /\ TypeOK /\ p \in Sessions
    BY HeldRow DEF Commit, Asked, Sessions, IInv
  <1>2. in.op \in OperationsAsked /\ in.wallet \in Wallets /\ IsOpen(in.wallet)
    BY <1>1, OperationsTyped, CommitMeans
  <1>3. \A t \in Stored : input[t].op # in.op /\ input[t].key # in.key
    BY <1>1 DEF KInv, Locks, InsertHeld, HoldsInsert, Clashes
  <1>4. Book[in.op] = [status |-> "ABSENT", call |-> None]
    <2>1. RowsOf(in.op) = {}
      BY <1>3 DEF RowsOf, Stored
    <2> QED
      BY <1>2, <2>1 DEF BookOf, Book
  <1>5. ASSUME NEW o \in OperationsAsked, Book[o] # [status |-> "ABSENT", call |-> None]
        PROVE  Book[o].call.key # in.key
    <2>1. PICK t \in Stored : BookOf(o) = [status |-> txs[t].status, call |-> input[t]]
      BY <1>5, BookMeans DEF Book
    <2> QED
      BY <1>3, <2>1 DEF Book
  <1>6. ValidInput(in) /\ PlayerOf[in.wallet] = in.player
    BY <1>1 DEF KInv, Knows, Admitted, Reading
  <1>7. Balances[in.wallet] # -1
    BY <1>1, <1>2, BalancesMean
  <1>8. Promise!ValidInput(in)
    BY <1>6, SameRules
  <1>9. Promise!Enters(in) <=>
            /\ Book[in.op] = [status |-> "ABSENT", call |-> None]
            /\ \A o \in OperationsAsked :
                   Book[o] # [status |-> "ABSENT", call |-> None] => Book[o].call.key # in.key
            /\ Promise!ValidInput(in)
            /\ Balances[in.wallet] # -1 /\ PlayerOf[in.wallet] = in.player
    BY DEF Promise!Enters, Promise!Unknown, Promise!Closed, Balances, Book
  <1> QED
    BY <1>4, <1>5, <1>6, <1>7, <1>8, <1>9

\* What a worker has locked waits in the book.
LEMMA WorkerWaits ==
    ASSUME IInv, KInv, RInv, NEW p \in Workers, Commit(p), NEW in, in = Asked(p)
    PROVE  Promise!Waits(in) /\ Book[in.op].status = "PENDING_REFERENCE"
  <1>1. /\ pc[p] = "commit" /\ p \in Sessions
        /\ task[p] \in Requests /\ in = input[task[p]] /\ TypeOK
        /\ txs[task[p]].status = "PENDING_REFERENCE"
    BY HeldRow DEF Commit, Asked, Sessions, IInv
  <1>2. in.op \in OperationsAsked
    BY <1>1, OperationsTyped
  <1>3. Book[in.op] = [status |-> "PENDING_REFERENCE", call |-> in]
    BY <1>1, <1>2, BookIs DEF Book, RInv, Stored
  <1> QED
    BY <1>3 DEF Promise!Waits, Book

\* Either way the call may leave its place in the book.
LEMMA CommitMay ==
    ASSUME IInv, KInv, RInv, NEW p \in Sessions, Commit(p), NEW in, in = Asked(p)
    PROVE  /\ Promise!Enters(in) \/ Promise!Waits(in)
           /\ Book[in.op].status \in {"ABSENT", "PENDING_REFERENCE"}
           /\ p \in Requests => Promise!Enters(in) /\ Book[in.op].status = "ABSENT"
  BY RequestEnters, WorkerWaits DEF Sessions

\* A plan to settle that keeps the balance within its bounds is the decision of
\* the rules on that balance.
LEMMA SettleIsDecided ==
    ASSUME NEW in, in.amount \in Amounts, NEW refKind, NEW before \in Amounts, in.kind # "LOSS",
           Applied(Direction(in.kind, refKind), before, in.amount) \in Amounts
    PROVE  Decision(in, refKind, before).do = "settle"
  <1>1. Direction(in.kind, refKind) \in {"DEBIT", "CREDIT"}
    BY DEF Direction
  <1>2. MaxMinor \in Nat /\ in.amount \in Nat /\ before \in Nat
    BY MaxMinorAssumption DEF Amounts
  <1>3. CASE Direction(in.kind, refKind) = "DEBIT"
    <2>1. Covered(before, in.amount)
      BY <1>2, <1>3 DEF Covered, Applied, Amounts
    <2> QED
      BY <1>3, <2>1 DEF Decision
  <1>4. CASE Direction(in.kind, refKind) = "CREDIT"
    <2>1. ~ Overflows(before, in.amount)
      BY <1>2, <1>4 DEF Overflows, Applied, Amounts
    <2> QED
      BY <1>4, <2>1 DEF Decision
  <1> QED
    BY <1>1, <1>3, <1>4

\* A settlement about to commit refers to an operation of the book that serves it,
\* and nothing in the book has reversed that.
LEMMA SettlingServes ==
    ASSUME IInv, KInv, RInv, NEW p \in Sessions, Commit(p), plan[p].do = "settle",
           NEW in, in = Asked(p), in.ref # None
    PROVE  Promise!ReferenceServes(in) /\ RefKind(plan[p].ref) = Book[in.ref].call.kind
  <1> SUFFICES ASSUME NEW u, u = plan[p].ref
               PROVE  Promise!ReferenceServes(in) /\ RefKind(u) = Book[in.ref].call.kind
    OBVIOUS
  <1>1. /\ pc[p] = "commit" /\ TypeOK /\ task[p] \in Requests /\ in = input[task[p]]
        /\ in.ref \in OperationsAsked
    BY HeldRow, OperationsTyped DEF Commit, Asked, IInv
  <1>2. u # None /\ Serves(u, in)
    BY <1>1 DEF KInv, Knows, PlanHonest, Settling
  <1>3. /\ u \in Stored /\ u \in Requests /\ txs[u].status = "PROCESSED"
        /\ input[u].op = in.ref /\ ReferenceFailure(in, input[u]) = NoFailure
    BY <1>2 DEF Serves, Stored
  <1>4. Book[in.ref] = [status |-> "PROCESSED", call |-> input[u]]
    BY <1>1, <1>3, BookIs DEF RInv, Book
  <1>5. ASSUME in.kind \in Reversals, NEW o \in OperationsAsked, Book[o].status = "PROCESSED",
               Book[o].call.kind \in Reversals, Book[o].call.ref = in.ref
        PROVE  FALSE
    <2>1. PICK v \in Stored : BookOf(o) = [status |-> txs[v].status, call |-> input[v]]
      BY <1>5, BookMeans DEF Book
    <2>2. /\ v \in Requests /\ txs[v].status = "PROCESSED"
          /\ input[v].kind \in Reversals /\ input[v].ref = in.ref
      BY <1>5, <2>1 DEF Book, Stored
    <2>3. Serves(txs[v].resolved, input[v])
      BY <2>2 DEF KInv, RowsKnown, RowHonest
    <2>4. txs[v].resolved \in Stored /\ input[txs[v].resolved].op = in.ref
      BY <2>2, <2>3 DEF Serves, Stored
    <2>5. txs[v].resolved = u
      BY <1>3, <2>4 DEF RInv, AppliedOnce
    <2>6. Reverses(v, u)
      BY <2>2, <2>5 DEF Reverses
    <2>7. snap[p].version < wallets[Asked(p).wallet].version
      BY <1>1, <1>5, <2>2, <2>6 DEF KInv, ReversalSeen, Settling
    <2>8. snap[p].version = wallets[Asked(p).wallet].version
      BY <1>1 DEF IInv, SnapshotsCurrent, HolderCurrent
    <2>9. wallets[Asked(p).wallet].version \in Nat
      BY <1>1, CommitMeans DEF TypeOK, RowsTypeOK, WalletRows
    <2> QED
      BY <2>7, <2>8, <2>9
  <1>6. Promise!ReferenceServes(in)
    BY <1>3, <1>4, <1>5, SameRules DEF Promise!ReferenceServes, Promise!Processed, Book
  <1> QED
    BY <1>2, <1>4, <1>6 DEF RefKind

\* A commit records its outcome in the book, and a settlement its balance.
LEMMA CommitRecords ==
    ASSUME IInv, KInv, RInv, RInv', NEW p \in Sessions, Commit(p), NEW in, in = Asked(p)
    PROVE  /\ Book' = [Book EXCEPT ![in.op] = [status |-> Outcome(p).status, call |-> in]]
           /\ in.op \in OperationsAsked /\ in.wallet \in Wallets /\ IsOpen(in.wallet)
           /\ plan[p].do # "settle" => Balances' = Balances
           /\ plan[p].do = "settle" =>
                 /\ Balances' = [Balances EXCEPT ![in.wallet] = MovedBalance(p)]
                 /\ Balances[in.wallet] = snap[p].balance
  <1> SUFFICES ASSUME NEW t, t = task[p], NEW o, o = Outcome(p), NEW w, w = in.wallet
               PROVE  /\ Book' = [Book EXCEPT ![in.op] = [status |-> o.status, call |-> in]]
                      /\ in.op \in OperationsAsked /\ w \in Wallets /\ IsOpen(w)
                      /\ plan[p].do # "settle" => Balances' = Balances
                      /\ plan[p].do = "settle" =>
                            /\ Balances' = [Balances EXCEPT ![w] = MovedBalance(p)]
                            /\ Balances[w] = snap[p].balance
    OBVIOUS
  <1>1. /\ t \in Requests /\ t \in TxIds /\ w \in Wallets /\ IsOpen(w)
        /\ pc[p] = "commit" /\ in = input[t] /\ input' = input /\ TypeOK
        /\ txs' = [txs EXCEPT ![t] = o]
    BY CommitMeans DEF IInv
  <1>2. \/ /\ plan[p].do = "settle"
           /\ wallets' = [wallets EXCEPT ![w] = MovedWallet(p)]
           /\ snap[p] = wallets[w]
        \/ plan[p].do # "settle" /\ wallets' = wallets
    BY CommitMeans
  <1>3. in.op \in OperationsAsked
    BY <1>1, OperationsTyped
  <1>4. txs'[t] = o /\ \A u \in Requests : u # t => txs'[u] = txs[u]
    BY <1>1 DEF TypeOK, RowsTypeOK, TxIds
  <1>5. o.status # "ABSENT"
    BY <1>1, CommitTyped
  <1>6. Book' = [Book EXCEPT ![in.op] = [status |-> o.status, call |-> in]]
    BY <1>1, <1>4, <1>5, BookRecords DEF RInv
  <1>7. ASSUME plan[p].do # "settle" PROVE Balances' = Balances
    BY <1>2, <1>7 DEF Balances, IsOpen
  <1>8. ASSUME plan[p].do = "settle"
        PROVE  /\ Balances' = [Balances EXCEPT ![w] = MovedBalance(p)]
               /\ Balances[w] = snap[p].balance
    <2>1. /\ wallets'[w] = MovedWallet(p) /\ snap[p] = wallets[w]
          /\ \A v \in Wallets : v # w => wallets'[v] = wallets[v]
      BY <1>1, <1>2, <1>8 DEF TypeOK, RowsTypeOK
    <2>2. /\ wallets'[w].balance = MovedBalance(p)
          /\ wallets'[w].version = snap[p].version + 1
      BY <2>1 DEF MovedWallet
    <2>3. wallets'[w].version > 0 /\ Balances[w] = snap[p].balance
      <3>1. snap[p].version \in Nat
        BY <1>1, <2>1 DEF TypeOK, RowsTypeOK, WalletRows
      <3>2. Balances[w] = wallets[w].balance
        BY <1>1, BalancesMean
      <3> QED
        BY <2>1, <2>2, <3>1, <3>2
    <2>4. ASSUME NEW v \in Wallets
          PROVE  (IF wallets'[v].version > 0 THEN wallets'[v].balance ELSE -1)
                    = IF v = w THEN MovedBalance(p) ELSE Balances[v]
      BY <2>1, <2>2, <2>3 DEF Balances, IsOpen
    <2>5. Balances' = [v \in Wallets |-> IF v = w THEN MovedBalance(p) ELSE Balances[v]]
      BY <2>4 DEF Balances, IsOpen
    <2>6. Balances' = [Balances EXCEPT ![w] = MovedBalance(p)]
      BY <2>5 DEF Balances
    <2> QED
      BY <2>3, <2>6
  <1> QED
    BY <1>1, <1>3, <1>6, <1>7, <1>8

\* The step that Settle is, in terms of Balances and Book.
LEMMA SettleMeans ==
    ASSUME NEW in,
           Book' = [Book EXCEPT ![in.op] = [status |-> "PROCESSED", call |-> in]],
           Promise!Enters(in) \/ Promise!Waits(in),
           in.cur = CurrencyOf[in.wallet],
           in.ref # None => Promise!ReferenceServes(in),
           NEW refKind, refKind = IF in.ref = None THEN None ELSE Book[in.ref].call.kind,
           NEW before, before = Balances[in.wallet],
           \/ Decision(in, refKind, before).do = "loss" /\ Balances' = Balances
           \/ /\ Decision(in, refKind, before).do = "settle"
              /\ Balances' = [Balances EXCEPT ![in.wallet] =
                                 Applied(Direction(in.kind, refKind), before, in.amount)]
    PROVE  Promise!Settle(in)
  <1>1. Promise!Decision(in, refKind, before) = Decision(in, refKind, before)
    BY SameRules
  <1>2. Promise!Applied(Promise!Direction(in.kind, refKind), before, in.amount)
           = Applied(Direction(in.kind, refKind), before, in.amount)
    BY SameRules
  <1>3. Promise!Records(in, "PROCESSED")
    BY DEF Promise!Records, Book
  <1>4. \/ Promise!Decision(in, refKind, before).do = "loss" /\ Balances' = Balances
        \/ /\ Promise!Decision(in, refKind, before).do = "settle"
           /\ Balances' = [Balances EXCEPT ![in.wallet] =
                 Promise!Applied(Promise!Direction(in.kind, refKind), before, in.amount)]
    BY <1>1, <1>2
  <1> QED
    BY <1>3, <1>4 DEF Promise!Settle, Promise!KindOfRef, Balances, Book

\* Every commit is a step of the book or none: a retry only counts its attempts.
LEMMA CommitRefines ==
    ASSUME IInv, KInv, RInv, RInv', NEW p \in Sessions, Commit(p)
    PROVE  Promise!Next \/ UNCHANGED << Balances, Book >>
  <1> SUFFICES ASSUME NEW in, in = Asked(p), NEW o, o = Outcome(p), NEW u, u = plan[p].ref
               PROVE  Promise!Next \/ UNCHANGED << Balances, Book >>
    OBVIOUS
  <1>1. /\ Book' = [Book EXCEPT ![in.op] = [status |-> o.status, call |-> in]]
        /\ in.op \in OperationsAsked /\ in.wallet \in Wallets /\ IsOpen(in.wallet)
        /\ plan[p].do # "settle" => Balances' = Balances
        /\ plan[p].do = "settle" =>
              /\ Balances' = [Balances EXCEPT ![in.wallet] = MovedBalance(p)]
              /\ Balances[in.wallet] = snap[p].balance
    BY CommitRecords
  <1>2. /\ Promise!Enters(in) \/ Promise!Waits(in)
        /\ Book[in.op].status \in {"ABSENT", "PENDING_REFERENCE"}
        /\ p \in Requests => Promise!Enters(in) /\ Book[in.op].status = "ABSENT"
    BY CommitMay
  <1>3. /\ pc[p] = "commit" /\ task[p] \in Requests /\ in = input[task[p]] /\ TypeOK
        /\ txs[task[p]].status \in {"ABSENT", "PENDING_REFERENCE"}
        /\ p \in Workers => txs[task[p]].status = "PENDING_REFERENCE"
        /\ in.amount \in Amounts
    BY HeldRow, InputsTyped DEF Commit, Asked, IInv
  <1>4. /\ plan[p].do \in {"settle", "loss", "reject", "pend", "retry"}
        /\ plan[p].do \in {"settle", "loss"} => o.status = "PROCESSED"
        /\ plan[p].do = "reject" => o.status = "REJECTED"
        /\ plan[p].do \in {"pend", "retry"} => o.status = "PENDING_REFERENCE"
    BY <1>3, OutcomeMeans
  <1>5. /\ u # None => in.ref # None
        /\ plan[p].do = "settle" => in.kind # "LOSS"
        /\ plan[p].do = "loss" => in.kind = "LOSS"
        /\ plan[p].do = "pend" => p \in Requests /\ in.ref # None
        /\ plan[p].do = "retry" => p \in Workers
        /\ plan[p].do \in {"settle", "loss"} => in.cur = CurrencyOf[in.wallet]
        /\ plan[p].do = "reject" =>
              in.kind = "BET" \/ in.ref # None \/ in.cur # CurrencyOf[in.wallet]
    BY <1>3 DEF KInv, Knows, Admitted, PlanHonest, RefusalHonest, Settling
  <1>6. ASSUME o.status # "PENDING_REFERENCE" \/ p \in Requests
        PROVE  Book'[in.op] # Book[in.op]
    <2>1. Book'[in.op].status = o.status
      BY <1>1 DEF Book
    <2> QED
      BY <1>2, <1>4, <1>6, <2>1
  <1>7. CASE plan[p].do = "settle"
    <2> SUFFICES ASSUME NEW refKind, refKind = RefKind(u), NEW before, before = snap[p].balance
                 PROVE  Promise!Next
      OBVIOUS
    <2>1. in.ref # None => Promise!ReferenceServes(in) /\ refKind = Book[in.ref].call.kind
      BY <1>7, SettlingServes
    <2>2. refKind = IF in.ref = None THEN None ELSE Book[in.ref].call.kind
      BY <1>5, <2>1 DEF RefKind
    <2>3. /\ MovedBalance(p) = Applied(Direction(in.kind, refKind), before, in.amount)
          /\ MovedBalance(p) \in Amounts /\ before \in Amounts
      <3>1. MovedBalance(p) \in Amounts
        BY <1>3, <1>7 DEF IInv, SnapshotsCurrent, PlanSound
      <3>2. before \in Amounts
        BY <1>3 DEF TypeOK, SessionsTypeOK, WalletRows
      <3> QED
        BY <3>1, <3>2 DEF MovedBalance, MoveOf
    <2>4. Decision(in, refKind, before).do = "settle"
      BY <1>3, <1>5, <1>7, <2>3, SettleIsDecided
    <2>5. /\ Book' = [Book EXCEPT ![in.op] = [status |-> "PROCESSED", call |-> in]]
          /\ Balances' = [Balances EXCEPT ![in.wallet] =
                             Applied(Direction(in.kind, refKind), before, in.amount)]
          /\ before = Balances[in.wallet]
      BY <1>1, <1>4, <1>7, <2>3
    <2>6. in.cur = CurrencyOf[in.wallet] /\ (in.ref # None => Promise!ReferenceServes(in))
      BY <1>5, <1>7, <2>1
    <2>7. Promise!Settle(in)
      BY <1>2, <2>2, <2>4, <2>5, <2>6, SettleMeans
    <2> QED
      BY <1>3, <1>4, <1>6, <1>7, <2>7, RecordedIsNext
  <1>8. CASE plan[p].do = "loss"
    <2>1. in.ref = None
      <3>1. p \in Requests => ValidInput(in)
        BY <1>3 DEF KInv, Knows, Admitted, Reading, Asked, IInv, TypeOK, SessionsTypeOK
      <3>2. p \in Workers => ValidInput(in)
        BY <1>3 DEF RInv, RowsValid, Stored
      <3> QED
        BY <1>5, <1>8, <3>1, <3>2 DEF ValidInput, RefAllowed, Sessions
    <2> SUFFICES ASSUME NEW before, before = Balances[in.wallet]
                 PROVE  Promise!Next
      OBVIOUS
    <2>2. Decision(in, None, before).do = "loss"
      BY <1>5, <1>8 DEF Decision
    <2>3. Promise!Settle(in)
      BY <1>1, <1>2, <1>4, <1>5, <1>8, <2>1, <2>2, SettleMeans
    <2> QED
      BY <1>3, <1>4, <1>6, <1>8, <2>3, RecordedIsNext
  <1>9. CASE plan[p].do = "reject"
    <2>1. Promise!Refuse(in)
      BY <1>1, <1>2, <1>4, <1>5, <1>9 DEF Promise!Refuse, Promise!Records, Balances, Book
    <2> QED
      BY <1>3, <1>4, <1>6, <1>9, <2>1, RecordedIsNext
  <1>10. CASE plan[p].do = "pend"
    <2>1. Promise!Wait(in)
      BY <1>1, <1>2, <1>4, <1>5, <1>10 DEF Promise!Wait, Promise!Records, Balances, Book
    <2> QED
      BY <1>3, <1>5, <1>6, <1>10, <2>1, RecordedIsNext
  <1>11. CASE plan[p].do = "retry"
    <2>1. p \in Workers /\ o.status = "PENDING_REFERENCE"
      BY <1>4, <1>5, <1>11
    <2>2. Book[in.op] = [status |-> "PENDING_REFERENCE", call |-> in]
      BY <1>1, <1>3, <2>1, BookIs DEF Book, RInv, Stored
    <2>3. Book' = Book /\ Balances' = Balances
      BY <1>1, <1>11, <2>1, <2>2 DEF Book
    <2> QED
      BY <2>3
  <1> QED
    BY <1>4, <1>7, <1>8, <1>9, <1>10, <1>11

--------------------------------------------------------------------------------
(* The theorem.                                                               *)

\* A row is inserted by a request that has been admitted, and no call changes.
LEMMA RowsStayValid ==
    ASSUME IInv, IInv', KInv, RowsValid, [Next]_vars
    PROVE  RowsValid'
  <1> SUFFICES ASSUME NEW t \in Stored'
               PROVE  ValidInput(input'[t]) /\ PlayerOf[input'[t].wallet] = input'[t].player
    BY DEF RowsValid
  <1>1. \/ UNCHANGED << input, db >>
        \/ \E w \in Wallets : OpenWallet(w)
        \/ \E p \in Sessions : Commit(p)
        \/ \E u \in Requests : Expire(u)
    BY NextQuietOr
  <1>2. ASSUME t \in Stored, input' = input
        PROVE  ValidInput(input'[t]) /\ PlayerOf[input'[t].wallet] = input'[t].player
    BY <1>2 DEF RowsValid
  <1>3. CASE UNCHANGED << input, db >>
    BY <1>2, <1>3 DEF db, Stored
  <1>4. ASSUME NEW w \in Wallets, OpenWallet(w)
        PROVE  ValidInput(input'[t]) /\ PlayerOf[input'[t].wallet] = input'[t].player
    <2>1. txs'[t] = txs[t] /\ input' = input
      BY <1>4, SessionsAssumption, OpenWalletGrows
         DEF OpenWallet, db, Stored, IInv, TypeOK, RowsTypeOK, TxIds
    <2> QED
      BY <1>2, <2>1 DEF Stored
  <1>5. ASSUME NEW u \in Requests, Expire(u)
        PROVE  ValidInput(input'[t]) /\ PlayerOf[input'[t].wallet] = input'[t].player
    <2>1. t = u \/ txs'[t] = txs[t]
      BY <1>5 DEF Expire, Stored, IInv, TypeOK, RowsTypeOK, TxIds
    <2>2. txs[u].status # "ABSENT" /\ input' = input
      BY <1>5 DEF Expire, Stale
    <2> QED
      BY <1>2, <2>1, <2>2 DEF Stored
  <1>6. ASSUME NEW p \in Sessions, Commit(p)
        PROVE  ValidInput(input'[t]) /\ PlayerOf[input'[t].wallet] = input'[t].player
    <2> SUFFICES ASSUME NEW u, u = task[p]
                 PROVE  ValidInput(input'[t]) /\ PlayerOf[input'[t].wallet] = input'[t].player
      OBVIOUS
    <2>1. input' = input /\ pc[p] = "commit" /\ (t = u \/ txs'[t] = txs[t])
      BY <1>6, CommitMeans DEF Stored, IInv, TypeOK, RowsTypeOK, TxIds
    <2>2. CASE t = u /\ p \in Requests
      BY <2>1, <2>2, HeldRow DEF KInv, Knows, Admitted, Reading
    <2>3. CASE t = u /\ p \in Workers
      <3>1. t \in Stored
        BY <2>1, <2>3, HeldRow DEF Stored
      <3> QED
        BY <1>2, <2>1, <3>1
    <2>4. CASE txs'[t] = txs[t]
      BY <1>2, <2>1, <2>4 DEF Stored
    <2> QED
      BY <2>1, <2>2, <2>3, <2>4 DEF Sessions
  <1> QED
    BY <1>1, <1>3, <1>4, <1>5, <1>6

\* The calls in the database are all different and all valid.
LEMMA RInvariant == Spec => []RInv
  <1>1. Init => RowsValid
    <2>1. Init => \A t \in Requests : txs[t] = NoRow
      BY SessionsAssumption, WalletsAssumption DEF Init, TxIds
    <2> QED
      BY <2>1 DEF RowsValid, Stored, NoRow
  <1>2. IInv /\ IInv' /\ KInv /\ RowsValid /\ [Next]_vars => RowsValid'
    BY RowsStayValid
  <1>3. Spec => []RowsValid
    BY <1>1, <1>2, Invariant, KInvariant, PTL DEF Spec
  <1>4. Spec => []AppliedOnce
    BY StoredOnce
  <1> QED
    BY <1>3, <1>4, PTL DEF RInv

\* At the start the book is empty and the wallets hold what they were opened with.
LEMMA InitRefines == Init => Promise!Init
  <1> SUFFICES ASSUME Init PROVE Promise!Init
    OBVIOUS
  <1>1. \A w \in Wallets : wallets[w] = IF w \in Preopened THEN Opened(w) ELSE NoWallet
    BY DEF Init
  <1>2. Balances = [w \in Wallets |-> IF w \in Preopened THEN InitialOf[w] ELSE -1]
    <2>1. ASSUME NEW w \in Wallets
          PROVE  (IF IsOpen(w) THEN wallets[w].balance ELSE -1)
                    = IF w \in Preopened THEN InitialOf[w] ELSE -1
      <3>1. CASE w \in Preopened
        <4>1. wallets[w] = [balance |-> InitialOf[w], version |-> 1]
          BY <1>1, <3>1 DEF Opened
        <4> QED
          BY <3>1, <4>1 DEF IsOpen
      <3>2. CASE w \notin Preopened
        <4>1. wallets[w] = [balance |-> 0, version |-> 0]
          BY <1>1, <3>2 DEF NoWallet
        <4> QED
          BY <3>2, <4>1 DEF IsOpen
      <3> QED
        BY <3>1, <3>2
    <2> QED
      BY <2>1 DEF Balances
  <1>3. \A t \in Requests : txs[t] = NoRow
    BY SessionsAssumption, WalletsAssumption DEF Init, TxIds
  <1>4. Book = [o \in OperationsAsked |-> [status |-> "ABSENT", call |-> None]]
    BY <1>3 DEF Book, BookOf, RowsOf, NoRow
  <1> QED
    BY <1>2, <1>4 DEF Promise!Init, Promise!Closed, Promise!Unknown, Balances, Book

\* Every step is a step of the book or changes nothing in it.
LEMMA NextRefines ==
    IInv /\ KInv /\ RInv /\ RInv' /\ [Next]_vars => [Promise!Next]_<< Balances, Book >>
  <1> SUFFICES ASSUME IInv, KInv, RInv, RInv', [Next]_vars
               PROVE  Promise!Next \/ UNCHANGED << Balances, Book >>
    OBVIOUS
  <1>1. \/ UNCHANGED << input, db >>
        \/ \E w \in Wallets : OpenWallet(w)
        \/ \E p \in Sessions : Commit(p)
        \/ \E t \in Requests : Expire(t)
    BY NextQuietOr
  <1>2. CASE UNCHANGED << input, db >>
    <2>1. UNCHANGED Balances
      BY <1>2 DEF Balances, db, IsOpen
    <2>2. UNCHANGED Book
      BY <1>2, BookStays DEF db
    <2> QED
      BY <2>1, <2>2
  <1> QED
    BY <1>1, <1>2, OpenWalletRefines, CommitRefines, ExpireRefines

\* However calls, workers and the expiry interleave, the committed database takes
\* only the steps of the ledger of operations: every settlement, decided on rows
\* read earlier, is right in the state it commits to.
THEOREM PromiseKept == Spec => KeepsThePromise
  <1>1. Init => Promise!Init
    BY InitRefines
  <1>2. IInv /\ KInv /\ RInv /\ RInv' /\ [Next]_vars => [Promise!Next]_<< Balances, Book >>
    BY NextRefines
  <1>3. Spec => [][Promise!Next]_<< Balances, Book >>
    BY <1>2, Invariant, KInvariant, RInvariant, PTL DEF Spec
  <1>4. Spec => Promise!Init
    BY <1>1 DEF Spec
  <1> QED
    BY <1>3, <1>4, PTL DEF KeepsThePromise, Promise!Spec, Balances, Book

--------------------------------------------------------------------------------
(* Sums.                                                                      *)

\* The equation of the sums of f over the subsets of S.
IsSum(g, f, S) ==
    g = [T \in SUBSET S |-> IF T = {} THEN 0
                            ELSE LET x == CHOOSE x \in T : TRUE IN f[x] + g[T \ {x}]]

\* The sum of f over S: SumFunctionOnSet, with its folds expanded.
Total(f, S) == (CHOOSE g : IsSum(g, f, S))[S]

\* Induction over the subsets of a finite set, for a set instead of a formula.
LEMMA SubsetInduction ==
    ASSUME NEW S, IsFiniteSet(S), NEW P,
           \A T \in SUBSET S : (\A U \in SUBSET T : U # T => U \in P) => T \in P
    PROVE  SUBSET S \subseteq P
  <1> SUFFICES ASSUME ~ (SUBSET S \subseteq P) PROVE FALSE
    OBVIOUS
  <1> DEFINE Q == (SUBSET S) \ P
  <1>1. Q \subseteq FiniteSubsetsOf(S) /\ Q # {}
    BY FS_Subset DEF FiniteSubsetsOf
  <1>2. PICK T \in Q : \A U \in Q : ~ (<< U, T >> \in StrictSubsetOrdering(S))
    <2> HIDE DEF Q
    <2> QED
      BY <1>1, WFMin, FS_StrictSubsetOrderingWellFounded
  <1>3. ASSUME NEW U \in SUBSET T, U # T, U \notin P PROVE FALSE
    <2>1. U \in Q /\ U \subseteq S /\ T \subseteq S
      BY <1>2, <1>3
    <2>2. << U, T >> \in StrictSubsetOrdering(S)
      BY <1>3, <2>1 DEF StrictSubsetOrdering
    <2> QED
      BY <1>2, <2>1, <2>2
  <1> QED
    BY <1>2, <1>3

\* A solution, where it is defined.
LEMMA SumStep ==
    ASSUME NEW g, NEW f, NEW S, IsSum(g, f, S), NEW T \in SUBSET S
    PROVE  g[T] = IF T = {} THEN 0
                  ELSE f[CHOOSE x \in T : TRUE] + g[T \ {CHOOSE x \in T : TRUE}]
  <1> DEFINE E(U) == IF U = {} THEN 0
                     ELSE f[CHOOSE x \in U : TRUE] + g[U \ {CHOOSE x \in U : TRUE}]
  <1>1. g = [U \in SUBSET S |-> E(U)]
    BY DEF IsSum
  <1>2. g[T] = E(T)
    <2> HIDE DEF E
    <2> QED
      BY <1>1
  <1> QED
    BY <1>2

\* Two solutions agree where both are defined, if f does.
LEMMA SumsAgree ==
    ASSUME NEW g, NEW f, NEW A, IsSum(g, f, A),
           NEW h, NEW e, NEW B, IsSum(h, e, B),
           NEW S, IsFiniteSet(S), S \subseteq A, S \subseteq B,
           \A x \in S : f[x] = e[x]
    PROVE  g[S] = h[S]
  <1> DEFINE P == {T \in SUBSET S : g[T] = h[T]}
  <1>1. ASSUME NEW T \in SUBSET S, \A U \in SUBSET T : U # T => U \in P
        PROVE  T \in P
    <2>1. CASE T = {}
      <3>1. g[T] = 0
        BY <2>1, SumStep
      <3>2. h[T] = 0
        BY <2>1, SumStep
      <3> QED
        BY <3>1, <3>2
    <2>2. CASE T # {}
      <3> DEFINE c == CHOOSE x \in T : TRUE
      <3>1. c \in T /\ T \ {c} \in SUBSET T /\ T \ {c} # T
        BY <2>2
      <3> HIDE DEF c
      <3>2. g[T \ {c}] = h[T \ {c}] /\ f[c] = e[c]
        BY <1>1, <3>1
      <3>3. T \in SUBSET A /\ T \in SUBSET B
        OBVIOUS
      <3>4. g[T] = f[c] + g[T \ {c}]
        <4>1. g[T] = f[CHOOSE x \in T : TRUE] + g[T \ {CHOOSE x \in T : TRUE}]
          BY <2>2, <3>3, SumStep
        <4> QED
          BY <4>1 DEF c
      <3>5. h[T] = e[c] + h[T \ {c}]
        <4>1. h[T] = e[CHOOSE x \in T : TRUE] + h[T \ {CHOOSE x \in T : TRUE}]
          BY <2>2, <3>3, SumStep
        <4> QED
          BY <4>1 DEF c
      <3> QED
        BY <3>2, <3>4, <3>5
    <2> QED
      BY <2>1, <2>2
  <1>2. SUBSET S \subseteq P
    <2> HIDE DEF P
    <2> QED
      BY <1>1, SubsetInduction
  <1> QED
    BY <1>2

\* The equation has a solution for a finite set: the sums over its proper subsets.
LEMMA SumsExist ==
    ASSUME NEW f, NEW S, IsFiniteSet(S)
    PROVE  \E g : IsSum(g, f, S)
  <1> DEFINE P == {T \in SUBSET S : \E g : IsSum(g, f, T)}
  <1>1. ASSUME NEW T \in SUBSET S, \A U \in SUBSET T : U # T => U \in P
        PROVE  T \in P
    <2> DEFINE E(U) == IF U = {} THEN 0
                       ELSE f[CHOOSE x \in U : TRUE]
                               + Total(f, U \ {CHOOSE x \in U : TRUE})
               h == [U \in SUBSET T |-> E(U)]
    <2>1. ASSUME NEW U \in SUBSET T, U # T PROVE h[U] = Total(f, U)
      <3> DEFINE k == CHOOSE g : IsSum(g, f, U)
      <3>1. IsSum(k, f, U) /\ Total(f, U) = k[U]
        BY <1>1, <2>1 DEF Total
      <3> HIDE DEF k
      <3>2. CASE U = {}
        BY <3>1, <3>2, SumStep
      <3>3. CASE U # {}
        <4> DEFINE c == CHOOSE x \in U : TRUE
        <4>1. c \in U /\ U \ {c} \subseteq U /\ U \ {c} \in SUBSET T /\ U \ {c} # T
          BY <3>3
        <4>2. k[U] = f[c] + k[U \ {c}]
          BY <3>1, <3>3, SumStep
        <4>3. h[U] = f[c] + Total(f, U \ {c})
          BY <3>3
        <4> HIDE DEF c, h
        <4>4. \E g : IsSum(g, f, U \ {c})
          BY <1>1, <4>1
        <4>5. Total(f, U \ {c}) = k[U \ {c}]
          <5>1. PICK g : g = CHOOSE i : IsSum(i, f, U \ {c})
            OBVIOUS
          <5>2. IsSum(g, f, U \ {c}) /\ Total(f, U \ {c}) = g[U \ {c}]
            BY <4>4, <5>1 DEF Total
          <5>3. IsFiniteSet(U \ {c})
            BY <4>1, FS_Subset
          <5> QED
            BY <3>1, <4>1, <5>2, <5>3, SumsAgree
        <4> QED
          BY <3>1, <4>2, <4>3, <4>5
      <3> QED
        BY <3>2, <3>3
    <2>2. ASSUME NEW U \in SUBSET T
          PROVE  E(U) = IF U = {} THEN 0
                        ELSE f[CHOOSE x \in U : TRUE] + h[U \ {CHOOSE x \in U : TRUE}]
      <3>1. CASE U = {}
        BY <3>1
      <3>2. CASE U # {}
        <4> DEFINE c == CHOOSE x \in U : TRUE
        <4>1. U \ {c} \in SUBSET T /\ U \ {c} # T
          BY <3>2
        <4>2. h[U \ {c}] = Total(f, U \ {c})
          <5> HIDE DEF h, c
          <5> QED
            BY <2>1, <4>1
        <4> HIDE DEF h
        <4> QED
          BY <3>2, <4>2
      <3> QED
        BY <3>1, <3>2
    <2>3. IsSum(h, f, T)
      <3> HIDE DEF E
      <3>1. h = [U \in SUBSET T |-> IF U = {} THEN 0
                  ELSE f[CHOOSE x \in U : TRUE] + h[U \ {CHOOSE x \in U : TRUE}]]
        BY <2>2
      <3> HIDE DEF h
      <3> QED
        BY <3>1 DEF IsSum
    <2> QED
      BY <2>3
  <1>2. SUBSET S \subseteq P
    <2> HIDE DEF P
    <2> QED
      BY <1>1, SubsetInduction
  <1> QED
    BY <1>2

\* The sum is that over all but the element chosen first, and that one.
LEMMA TotalStep ==
    ASSUME NEW f, NEW S, IsFiniteSet(S)
    PROVE  Total(f, S) = IF S = {} THEN 0
                         ELSE f[CHOOSE x \in S : TRUE] + Total(f, S \ {CHOOSE x \in S : TRUE})
  <1>1. PICK g : g = CHOOSE i : IsSum(i, f, S)
    OBVIOUS
  <1>2. IsSum(g, f, S) /\ Total(f, S) = g[S]
    BY <1>1, SumsExist DEF Total
  <1>3. CASE S = {}
    BY <1>2, <1>3, SumStep
  <1>4. CASE S # {}
    <2> DEFINE c == CHOOSE x \in S : TRUE
    <2>1. g[S] = f[c] + g[S \ {c}]
      BY <1>2, <1>4, SumStep
    <2> HIDE DEF c
    <2>2. IsFiniteSet(S \ {c}) /\ S \ {c} \subseteq S
      BY FS_Subset
    <2>3. PICK h : h = CHOOSE i : IsSum(i, f, S \ {c})
      OBVIOUS
    <2>4. IsSum(h, f, S \ {c}) /\ Total(f, S \ {c}) = h[S \ {c}]
      BY <2>2, <2>3, SumsExist DEF Total
    <2>5. g[S \ {c}] = h[S \ {c}]
      BY <1>2, <2>2, <2>4, SumsAgree
    <2> QED
      BY <1>2, <1>4, <2>1, <2>4, <2>5 DEF c
  <1> QED
    BY <1>3, <1>4

\* Functions that agree on a set have the same sum over it.
LEMMA TotalSame ==
    ASSUME NEW f, NEW e, NEW S, IsFiniteSet(S), \A x \in S : f[x] = e[x]
    PROVE  Total(f, S) = Total(e, S)
  <1>1. PICK g, h : g = (CHOOSE i : IsSum(i, f, S)) /\ h = CHOOSE i : IsSum(i, e, S)
    OBVIOUS
  <1>2. IsSum(g, f, S) /\ IsSum(h, e, S) /\ Total(f, S) = g[S] /\ Total(e, S) = h[S]
    BY <1>1, SumsExist DEF Total
  <1> QED
    BY <1>2, SumsAgree

\* The sum over a set is that over all but any one of its elements, and that one.
LEMMA TotalSplits ==
    ASSUME NEW S, IsFiniteSet(S), NEW f, \A x \in S : f[x] \in Int
    PROVE  /\ Total(f, S) \in Int
           /\ \A x \in S : Total(f, S) = f[x] + Total(f, S \ {x})
  <1> DEFINE Splits(T) == /\ Total(f, T) \in Int
                          /\ \A x \in T : Total(f, T) = f[x] + Total(f, T \ {x})
             P == {T \in SUBSET S : Splits(T)}
  <1>1. ASSUME NEW T \in SUBSET S, \A U \in SUBSET T : U # T => U \in P
        PROVE  Splits(T)
    <2>1. IsFiniteSet(T)
      BY FS_Subset
    <2>2. CASE T = {}
      <3>1. Total(f, T) = 0
        BY <2>1, <2>2, TotalStep
      <3> QED
        BY <2>2, <3>1
    <2>3. CASE T # {}
      <3> DEFINE c == CHOOSE x \in T : TRUE
      <3>1. c \in T /\ Total(f, T) = f[c] + Total(f, T \ {c})
        BY <2>1, <2>3, TotalStep
      <3> HIDE DEF c
      <3>2. T \ {c} \in P
        BY <1>1, <3>1
      <3>3. ASSUME NEW x \in T, x # c PROVE Total(f, T) = f[x] + Total(f, T \ {x})
        <4>1. x \in T \ {c} /\ c \in T \ {x} /\ (T \ {c}) \ {x} = (T \ {x}) \ {c}
          BY <3>1, <3>3
        <4>2. T \ {x} \in P /\ (T \ {x}) \ {c} \in P
          BY <1>1, <3>1, <3>3
        <4>3. Total(f, T \ {c}) = f[x] + Total(f, (T \ {x}) \ {c})
          BY <3>2, <4>1
        <4>4. Total(f, T \ {x}) = f[c] + Total(f, (T \ {x}) \ {c})
          BY <4>1, <4>2
        <4>5. Total(f, (T \ {x}) \ {c}) \in Int /\ f[x] \in Int /\ f[c] \in Int
          BY <3>1, <4>2
        <4> QED
          BY <3>1, <4>3, <4>4, <4>5
      <3>4. Total(f, T \ {c}) \in Int /\ f[c] \in Int
        BY <3>1, <3>2
      <3>5. Total(f, T) \in Int
        BY <3>1, <3>4
      <3> QED
        BY <3>1, <3>3, <3>5
    <2> QED
      BY <2>2, <2>3
  <1>2. SUBSET S \subseteq P
    <2>1. \A T \in SUBSET S : (\A U \in SUBSET T : U # T => U \in P) => T \in P
      BY <1>1
    <2> HIDE DEF P
    <2> QED
      BY <2>1, SubsetInduction
  <1> QED
    BY <1>2

--------------------------------------------------------------------------------
(* Conservation: what the book says of the balances.                          *)

\* The operations that have been processed, those of one wallet, what each of
\* them moved: of a book b.
ProcessedIn(b) == {o \in OperationsAsked : b[o].status = "PROCESSED"}
SettledIn(b, w) == {o \in ProcessedIn(b) : b[o].call.wallet = w}
KindIn(b, in) == IF in.ref = None THEN None ELSE b[in.ref].call.kind
EffectIn(b, o) ==
    Applied(Direction(b[o].call.kind, KindIn(b, b[o].call)), 0, b[o].call.amount)
EffectsIn(b, w) == [o \in SettledIn(b, w) |-> EffectIn(b, o)]
MovedBy(b, w) == Total(EffectsIn(b, w), SettledIn(b, w))

\* Balances m and a book b that agree: the calls are those that can be asked and
\* name open wallets, what a processed one refers to is processed, and the balances
\* are what the processed ones have moved.
Agree(m, b) ==
    /\ m \in [Wallets -> -1..MaxMinor]
    /\ \A o \in OperationsAsked : b[o].status # "ABSENT" =>
          /\ b[o].call \in Inputs /\ ValidInput(b[o].call)
          /\ m[b[o].call.wallet] # -1
    /\ IsFiniteSet(ProcessedIn(b))
    /\ \A o \in ProcessedIn(b) :
          b[o].call.ref # None => b[o].call.ref \in ProcessedIn(b)
    /\ \A w \in Wallets : m[w] # -1 => m[w] = InitialOf[w] + MovedBy(b, w)

\* A movement is by a whole amount, and adds to what there is.
LEMMA EffectAdds ==
    ASSUME NEW dir, NEW m \in Int, NEW a \in Int
    PROVE  Applied(dir, 0, a) \in Int /\ Applied(dir, m, a) = m + Applied(dir, 0, a)
  BY DEF Applied

\* The effects in a wallet of a book that agrees are integers, finitely many.
LEMMA EffectsTyped ==
    ASSUME NEW m, NEW b, Agree(m, b), NEW w
    PROVE  /\ IsFiniteSet(SettledIn(b, w))
           /\ \A o \in SettledIn(b, w) : EffectsIn(b, w)[o] \in Int
           /\ MovedBy(b, w) \in Int
  <1>1. IsFiniteSet(SettledIn(b, w))
    <2>1. SettledIn(b, w) \subseteq ProcessedIn(b)
      BY DEF SettledIn
    <2> QED
      BY <2>1, FS_Subset DEF Agree
  <1>2. ASSUME NEW o \in SettledIn(b, w) PROVE EffectsIn(b, w)[o] \in Int
    <2>1. b[o].call \in Inputs
      BY DEF SettledIn, ProcessedIn, Agree
    <2>2. b[o].call.amount \in Int
      BY <2>1, InputsAssumption, MaxMinorAssumption
    <2> QED
      BY <2>2, EffectAdds DEF EffectsIn, EffectIn
  <1>3. MovedBy(b, w) \in Int
    <2>1. PICK f : f = EffectsIn(b, w)
      OBVIOUS
    <2>2. Total(f, SettledIn(b, w)) \in Int
      BY <1>1, <1>2, <2>1, TotalSplits
    <2> QED
      BY <2>1, <2>2 DEF MovedBy
  <1> QED
    BY <1>1, <1>2, <1>3

\* A wallet is opened with its initial balance, before any operation names it.
LEMMA OpeningAgrees ==
    ASSUME NEW m, NEW b, Agree(m, b), NEW w \in Wallets, m[w] = -1,
           NEW n, n = [m EXCEPT ![w] = InitialOf[w]]
    PROVE  Agree(n, b)
  <1>1. InitialOf[w] \in 0..MaxMinor /\ n \in [Wallets -> -1..MaxMinor]
    <2>1. InitialOf[w] \in 0..MaxMinor
      BY WalletsAssumption
    <2>2. InitialOf[w] \in -1..MaxMinor
      BY <2>1, MaxMinorAssumption
    <2>3. m \in [Wallets -> -1..MaxMinor]
      BY DEF Agree
    <2> QED
      BY <2>1, <2>2, <2>3
  <1>2. \A v \in Wallets : v # w => n[v] = m[v]
    BY DEF Agree
  <1>3. n[w] = InitialOf[w]
    BY DEF Agree
  <1>4. ASSUME NEW o \in OperationsAsked, b[o].status # "ABSENT"
        PROVE  n[b[o].call.wallet] # -1
    <2>1. b[o].call.wallet \in Wallets /\ m[b[o].call.wallet] # -1
      BY <1>4, InputsAssumption DEF Agree
    <2> QED
      BY <1>2, <2>1
  <1>5. SettledIn(b, w) = {}
    <2> SUFFICES ASSUME NEW o \in SettledIn(b, w) PROVE FALSE
      OBVIOUS
    <2>1. o \in OperationsAsked /\ b[o].status # "ABSENT" /\ b[o].call.wallet = w
      BY DEF SettledIn, ProcessedIn
    <2> QED
      BY <2>1 DEF Agree
  <1>6. MovedBy(b, w) = 0
    <2>1. PICK f : f = EffectsIn(b, w)
      OBVIOUS
    <2>2. Total(f, {}) = 0
      BY FS_EmptySet, TotalStep
    <2> QED
      BY <1>5, <2>1, <2>2 DEF MovedBy
  <1>7. ASSUME NEW v \in Wallets, n[v] # -1 PROVE n[v] = InitialOf[v] + MovedBy(b, v)
    <2>1. CASE v = w
      BY <1>1, <1>3, <1>6, <2>1
    <2>2. CASE v # w
      BY <1>2, <1>7, <2>2 DEF Agree
    <2> QED
      BY <2>1, <2>2
  <1>8. /\ IsFiniteSet(ProcessedIn(b))
        /\ \A o \in ProcessedIn(b) : b[o].call.ref # None => b[o].call.ref \in ProcessedIn(b)
        /\ \A o \in OperationsAsked : b[o].status # "ABSENT" =>
              b[o].call \in Inputs /\ ValidInput(b[o].call)
    BY DEF Agree
  <1> QED
    BY <1>1, <1>4, <1>7, <1>8 DEF Agree

\* What recording a call in the book leaves alone: the operations processed before
\* and what they moved.
LEMMA RecordingKeeps ==
    ASSUME NEW m, NEW b, Agree(m, b), NEW in \in Inputs, in.op \in OperationsAsked,
           in.op \notin ProcessedIn(b), NEW s, b = [o \in OperationsAsked |-> b[o]],
           NEW c, c = [b EXCEPT ![in.op] = [status |-> s, call |-> in]]
    PROVE  /\ c[in.op] = [status |-> s, call |-> in]
           /\ \A o \in OperationsAsked : o # in.op => c[o] = b[o]
           /\ ProcessedIn(c) = IF s = "PROCESSED" THEN ProcessedIn(b) \cup {in.op}
                                                  ELSE ProcessedIn(b)
           /\ \A o \in ProcessedIn(b) : c[o] = b[o] /\ EffectIn(c, o) = EffectIn(b, o)
  <1>1. c[in.op] = [status |-> s, call |-> in]
    OBVIOUS
  <1>2. \A o \in OperationsAsked : o # in.op => c[o] = b[o]
    OBVIOUS
  <1>3. ProcessedIn(c) = IF s = "PROCESSED" THEN ProcessedIn(b) \cup {in.op}
                                            ELSE ProcessedIn(b)
    <2>1. c[in.op].status = s
      BY <1>1
    <2>2. \A o \in OperationsAsked : o # in.op => c[o].status = b[o].status
      BY <1>2
    <2> QED
      BY <2>1, <2>2 DEF ProcessedIn
  <1>4. ASSUME NEW o \in ProcessedIn(b)
        PROVE  c[o] = b[o] /\ EffectIn(c, o) = EffectIn(b, o)
    <2>1. c[o] = b[o]
      BY <1>2 DEF ProcessedIn
    <2>2. b[o].call.ref # None =>
             c[b[o].call.ref] = b[b[o].call.ref]
      BY <1>2 DEF Agree, ProcessedIn
    <2>3. KindIn(c, b[o].call) = KindIn(b, b[o].call)
      BY <2>2 DEF KindIn
    <2> QED
      BY <2>1, <2>3 DEF EffectIn
  <1> QED
    BY <1>1, <1>2, <1>3, <1>4

\* A call that is stored without being processed moves nothing.
LEMMA QuietlyAgrees ==
    ASSUME NEW m, NEW b, Agree(m, b), b = [o \in OperationsAsked |-> b[o]],
           NEW in \in Inputs, in.op \in OperationsAsked, in.op \notin ProcessedIn(b),
           ValidInput(in), m[in.wallet] # -1, NEW s, s # "PROCESSED",
           NEW c, c = [b EXCEPT ![in.op] = [status |-> s, call |-> in]]
    PROVE  Agree(m, c)
  <1>1. /\ ProcessedIn(c) = ProcessedIn(b) /\ c[in.op].call = in
        /\ \A o \in OperationsAsked : o # in.op => c[o] = b[o]
        /\ \A o \in ProcessedIn(b) : c[o] = b[o] /\ EffectIn(c, o) = EffectIn(b, o)
    BY RecordingKeeps
  <1>2. ASSUME NEW w PROVE MovedBy(c, w) = MovedBy(b, w)
    <2>1. SettledIn(c, w) = SettledIn(b, w)
      BY <1>1 DEF SettledIn
    <2>2. EffectsIn(c, w) = EffectsIn(b, w)
      <3>1. \A o \in SettledIn(b, w) : EffectIn(c, o) = EffectIn(b, o)
        BY <1>1 DEF SettledIn
      <3> QED
        BY <2>1, <3>1 DEF EffectsIn
    <2> QED
      BY <2>1, <2>2 DEF MovedBy
  <1>3. \A o \in OperationsAsked : c[o].status # "ABSENT" =>
           c[o].call \in Inputs /\ ValidInput(c[o].call) /\ m[c[o].call.wallet] # -1
    BY <1>1 DEF Agree
  <1>4. \A o \in ProcessedIn(c) : c[o].call.ref # None => c[o].call.ref \in ProcessedIn(c)
    BY <1>1 DEF Agree
  <1>5. IsFiniteSet(ProcessedIn(c)) /\ m \in [Wallets -> -1..MaxMinor]
    BY <1>1 DEF Agree
  <1>6. \A w \in Wallets : m[w] # -1 => m[w] = InitialOf[w] + MovedBy(c, w)
    BY <1>2 DEF Agree
  <1> QED
    BY <1>3, <1>4, <1>5, <1>6 DEF Agree

\* The movements of a wallet after a settlement: one more in the wallet of the call.
LEMMA SettlingAdds ==
    ASSUME NEW m, NEW b, Agree(m, b), b = [o \in OperationsAsked |-> b[o]],
           NEW in \in Inputs, in.op \in OperationsAsked, in.op \notin ProcessedIn(b),
           NEW c, c = [b EXCEPT ![in.op] = [status |-> "PROCESSED", call |-> in]],
           NEW w
    PROVE  MovedBy(c, w) =
              IF w = in.wallet THEN MovedBy(b, w) + EffectIn(c, in.op) ELSE MovedBy(b, w)
  <1>1. /\ ProcessedIn(c) = ProcessedIn(b) \cup {in.op} /\ c[in.op].call = in
        /\ \A o \in ProcessedIn(b) : c[o] = b[o] /\ EffectIn(c, o) = EffectIn(b, o)
    BY RecordingKeeps
  <1>2. PICK S, T, f, g : /\ S = SettledIn(b, w) /\ T = SettledIn(c, w)
                          /\ f = EffectsIn(b, w) /\ g = EffectsIn(c, w)
    OBVIOUS
  <1>3. MovedBy(b, w) = Total(f, S) /\ MovedBy(c, w) = Total(g, T)
    BY <1>2 DEF MovedBy
  <1>4. IsFiniteSet(S) /\ (\A o \in S : f[o] \in Int) /\ MovedBy(b, w) \in Int
    BY <1>2, EffectsTyped
  <1>5. T = IF w = in.wallet THEN S \cup {in.op} ELSE S
    BY <1>1, <1>2 DEF SettledIn
  <1>6. in.op \notin S /\ \A o \in S : o \in T /\ g[o] = f[o]
    <2>1. \A o \in S : EffectIn(c, o) = EffectIn(b, o) /\ o \in T /\ o # in.op
      BY <1>1, <1>2, <1>5 DEF SettledIn
    <2> QED
      BY <1>2, <2>1 DEF EffectsIn
  <1>7. Total(g, S) = Total(f, S)
    BY <1>4, <1>6, TotalSame
  <1>8. CASE w # in.wallet
    BY <1>3, <1>5, <1>7, <1>8
  <1>9. CASE w = in.wallet
    <2>1. T = S \cup {in.op} /\ T \ {in.op} = S /\ in.op \in T
      BY <1>5, <1>6, <1>9
    <2>2. IsFiniteSet(T)
      BY <1>4, <2>1, FS_AddElement
    <2>3. g[in.op] = EffectIn(c, in.op) /\ EffectIn(c, in.op) \in Int
      <3>1. in.amount \in Int
        BY InputsAssumption, MaxMinorAssumption
      <3> QED
        BY <1>1, <1>2, <2>1, <3>1, EffectAdds DEF EffectsIn, EffectIn
    <2>4. \A o \in T : g[o] \in Int
      BY <1>4, <1>6, <2>1, <2>3
    <2>5. Total(g, T) = g[in.op] + Total(g, S)
      BY <2>1, <2>2, <2>4, TotalSplits
    <2> QED
      BY <1>3, <1>4, <1>7, <1>9, <2>3, <2>5
  <1> QED
    BY <1>8, <1>9

\* A settlement moves in its wallet what it adds to the movements there.
LEMMA SettlingAgrees ==
    ASSUME NEW m, NEW b, Agree(m, b), b = [o \in OperationsAsked |-> b[o]],
           NEW in \in Inputs, in.op \in OperationsAsked, in.op \notin ProcessedIn(b),
           ValidInput(in), m[in.wallet] # -1,
           in.ref # None => in.ref \in ProcessedIn(b),
           NEW c, c = [b EXCEPT ![in.op] = [status |-> "PROCESSED", call |-> in]],
           NEW n, n \in [Wallets -> -1..MaxMinor], n[in.wallet] # -1,
           \A w \in Wallets : w # in.wallet => n[w] = m[w],
           n[in.wallet] = Applied(Direction(in.kind, KindIn(b, in)), m[in.wallet], in.amount)
    PROVE  Agree(n, c)
  <1>1. /\ ProcessedIn(c) = ProcessedIn(b) \cup {in.op} /\ c[in.op].call = in
        /\ \A o \in OperationsAsked : o # in.op => c[o] = b[o]
        /\ \A o \in ProcessedIn(b) : c[o] = b[o]
    BY RecordingKeeps
  <1>2. in.wallet \in Wallets /\ in.amount \in Int /\ m[in.wallet] \in Int
    BY InputsAssumption, MaxMinorAssumption DEF Agree
  <1>3. n[in.wallet] = m[in.wallet] + EffectIn(c, in.op)
    <2>1. KindIn(c, in) = KindIn(b, in)
      BY <1>1 DEF KindIn
    <2>2. EffectIn(c, in.op) = Applied(Direction(in.kind, KindIn(b, in)), 0, in.amount)
      BY <1>1, <2>1 DEF EffectIn
    <2> QED
      BY <1>2, <2>2, EffectAdds
  <1>4. ASSUME NEW w \in Wallets, n[w] # -1
        PROVE  n[w] = InitialOf[w] + MovedBy(c, w)
    <2>1. CASE w # in.wallet
      <3>1. MovedBy(c, w) = MovedBy(b, w)
        BY <2>1, SettlingAdds
      <3> QED
        BY <1>4, <2>1, <3>1 DEF Agree
    <2>2. CASE w = in.wallet
      <3>1. MovedBy(c, w) = MovedBy(b, w) + EffectIn(c, in.op)
        BY <2>2, SettlingAdds
      <3>2. m[w] = InitialOf[w] + MovedBy(b, w)
        BY <2>2 DEF Agree
      <3>3. InitialOf[w] \in Int /\ MovedBy(b, w) \in Int /\ EffectIn(c, in.op) \in Int
        <4>1. EffectIn(c, in.op) \in Int
          BY <1>1, <1>2, EffectAdds DEF EffectIn
        <4>2. MovedBy(b, w) \in Int
          BY EffectsTyped
        <4> QED
          BY <4>1, <4>2, WalletsAssumption, MaxMinorAssumption
      <3>4. n[w] = m[w] + EffectIn(c, in.op)
        BY <1>3, <2>2
      <3> QED
        BY <3>1, <3>2, <3>3, <3>4
    <2> QED
      BY <2>1, <2>2
  <1>5. ASSUME NEW o \in OperationsAsked, c[o].status # "ABSENT"
        PROVE  c[o].call \in Inputs /\ ValidInput(c[o].call) /\ n[c[o].call.wallet] # -1
    <2>1. CASE o = in.op
      BY <1>1, <2>1
    <2>2. CASE o # in.op
      <3>1. /\ c[o] = b[o] /\ b[o].call \in Inputs /\ ValidInput(b[o].call)
            /\ m[b[o].call.wallet] # -1
        BY <1>1, <1>5, <2>2 DEF Agree
      <3>2. b[o].call.wallet \in Wallets
        BY <3>1, InputsAssumption
      <3> QED
        BY <3>1, <3>2
    <2> QED
      BY <2>1, <2>2
  <1>6. \A o \in ProcessedIn(c) : c[o].call.ref # None => c[o].call.ref \in ProcessedIn(c)
    BY <1>1 DEF Agree
  <1>7. IsFiniteSet(ProcessedIn(c))
    BY <1>1, FS_AddElement DEF Agree
  <1> QED
    BY <1>4, <1>5, <1>6, <1>7 DEF Agree

\* What a settlement makes of a balance is one that the wallet can hold, and a loss
\* is a settlement of nothing.
LEMMA SettledBalance ==
    ASSUME NEW in \in Inputs, ValidInput(in), NEW kind, NEW before \in 0..MaxMinor
    PROVE  LET after == Applied(Direction(in.kind, kind), before, in.amount)
           IN /\ Decision(in, kind, before).do = "settle" => after \in 0..MaxMinor
              /\ Decision(in, kind, before).do = "loss" => after = before
  <1>1. in.amount \in 0..MaxMinor /\ MaxMinor \in Nat
    BY InputsAssumption, MaxMinorAssumption
  <1>2. Direction(in.kind, kind) \in {"DEBIT", "CREDIT"}
    BY DEF Direction
  <1>3. CASE in.kind = "LOSS"
    <2>1. in.amount = 0 /\ Direction(in.kind, kind) = "CREDIT"
      BY <1>3 DEF ValidInput, AmountAllowed, Direction
    <2>2. Decision(in, kind, before).do = "loss"
      BY <1>3 DEF Decision
    <2> QED
      BY <1>1, <2>1, <2>2 DEF Applied
  <1>4. CASE in.kind # "LOSS" /\ Direction(in.kind, kind) = "DEBIT" /\ ~ Covered(before, in.amount)
    <2>1. Decision(in, kind, before).do = "reject"
      BY <1>4 DEF Decision
    <2> QED
      BY <2>1
  <1>5. CASE in.kind # "LOSS" /\ Direction(in.kind, kind) = "CREDIT" /\ Overflows(before, in.amount)
    <2>1. Decision(in, kind, before).do = "overflow"
      BY <1>5 DEF Decision
    <2> QED
      BY <2>1
  <1>6. CASE /\ in.kind # "LOSS"
             /\ Direction(in.kind, kind) = "DEBIT" => Covered(before, in.amount)
             /\ Direction(in.kind, kind) = "CREDIT" => ~ Overflows(before, in.amount)
    <2>1. Decision(in, kind, before).do = "settle"
      BY <1>6 DEF Decision
    <2>2. CASE Direction(in.kind, kind) = "DEBIT"
      BY <1>1, <1>6, <2>1, <2>2 DEF Applied, Covered
    <2>3. CASE Direction(in.kind, kind) = "CREDIT"
      BY <1>1, <1>6, <2>1, <2>3 DEF Applied, Overflows
    <2> QED
      BY <1>2, <2>2, <2>3
  <1> QED
    BY <1>3, <1>4, <1>5, <1>6

\* A call that enters or waits is valid, names an open wallet, and has not been
\* processed.
LEMMA MayBeRecorded ==
    ASSUME Agree(Balances, Book), NEW in \in Inputs, Promise!Enters(in) \/ Promise!Waits(in)
    PROVE  /\ in.op \in OperationsAsked /\ in.op \notin ProcessedIn(Book) /\ ValidInput(in)
           /\ in.wallet \in Wallets /\ Balances[in.wallet] \in 0..MaxMinor
  <1>1. in.op \in OperationsAsked /\ in.wallet \in Wallets
    BY InputsAssumption DEF OperationsAsked
  <1>2. /\ in.op \notin ProcessedIn(Book) /\ ValidInput(in)
        /\ Balances[in.wallet] # -1
    <2>1. CASE Promise!Enters(in)
      <3>1. /\ Book[in.op] = [status |-> "ABSENT", call |-> None]
            /\ Promise!ValidInput(in) /\ Balances[in.wallet] # -1
        BY <2>1 DEF Promise!Enters, Promise!Unknown, Promise!Closed, Balances, Book
      <3> QED
        BY <3>1, SameRules DEF ProcessedIn
    <2>2. CASE Promise!Waits(in)
      <3>1. Book[in.op] = [status |-> "PENDING_REFERENCE", call |-> in]
        BY <2>2 DEF Promise!Waits, Book
      <3>2. Book[in.op].status = "PENDING_REFERENCE" /\ Book[in.op].call = in
        BY <3>1
      <3> QED
        BY <1>1, <3>2 DEF Agree, ProcessedIn
    <2> QED
      BY <2>1, <2>2
  <1>3. Balances[in.wallet] \in 0..MaxMinor
    BY <1>1, <1>2, MaxMinorAssumption DEF Agree
  <1> QED
    BY <1>1, <1>2, <1>3

\* A settlement keeps the agreement.
LEMMA SettleAgrees ==
    ASSUME Agree(Balances, Book), NEW in \in Inputs, Promise!Settle(in)
    PROVE  Agree(Balances', Book')
  <1>1. PICK kind, before : /\ kind = KindIn(Book, in) /\ before = Balances[in.wallet]
    OBVIOUS
  <1>2. /\ Book' = [Book EXCEPT ![in.op] = [status |-> "PROCESSED", call |-> in]]
        /\ Promise!Enters(in) \/ Promise!Waits(in)
        /\ in.ref # None => Book[in.ref].status = "PROCESSED"
        /\ \/ Promise!Decision(in, kind, before).do = "loss" /\ Balances' = Balances
           \/ /\ Promise!Decision(in, kind, before).do = "settle"
              /\ Balances' = [Balances EXCEPT ![in.wallet] =
                    Promise!Applied(Promise!Direction(in.kind, kind), @, in.amount)]
    BY <1>1 DEF Promise!Settle, Promise!Records, Promise!KindOfRef, Promise!ReferenceServes,
                Promise!Processed, KindIn, Balances, Book
  <1>3. /\ in.op \in OperationsAsked /\ in.op \notin ProcessedIn(Book) /\ ValidInput(in)
        /\ in.wallet \in Wallets /\ before \in 0..MaxMinor
    BY <1>1, <1>2, MayBeRecorded
  <1>4. PICK after : after = Applied(Direction(in.kind, kind), before, in.amount)
    OBVIOUS
  <1>5. /\ Decision(in, kind, before).do = "settle" => after \in 0..MaxMinor
        /\ Decision(in, kind, before).do = "loss" => after = before
    BY <1>3, <1>4, SettledBalance
  <1>6. \/ Decision(in, kind, before).do = "loss" /\ Balances' = Balances
        \/ /\ Decision(in, kind, before).do = "settle"
           /\ Balances' = [Balances EXCEPT ![in.wallet] = after]
    BY <1>1, <1>2, <1>4, SameRules
  <1>7. after \in 0..MaxMinor /\ Balances' = [Balances EXCEPT ![in.wallet] = after]
    <2>1. Balances = [w \in Wallets |-> Balances[w]]
      BY DEF Balances
    <2> QED
      BY <1>1, <1>3, <1>5, <1>6, <2>1
  <1>8. /\ Balances' \in [Wallets -> -1..MaxMinor]
        /\ Balances'[in.wallet] = after /\ after # -1
        /\ \A w \in Wallets : w # in.wallet => Balances'[w] = Balances[w]
    BY <1>3, <1>7, MaxMinorAssumption DEF Agree
  <1>9. in.ref # None => in.ref \in ProcessedIn(Book)
    BY <1>2 DEF ProcessedIn, OperationsAsked
  <1>10. Book = [o \in OperationsAsked |-> Book[o]]
    BY DEF Book
  <1>11. Balances[in.wallet] # -1
    BY <1>1, <1>3
  <1>12. PICK m, b, n, c : m = Balances /\ b = Book /\ n = Balances' /\ c = Book'
    OBVIOUS
  <1>13. Agree(n, c)
    <2>1. /\ Agree(m, b) /\ b = [o \in OperationsAsked |-> b[o]]
          /\ in.op \in OperationsAsked /\ in.op \notin ProcessedIn(b) /\ ValidInput(in)
          /\ m[in.wallet] # -1 /\ (in.ref # None => in.ref \in ProcessedIn(b))
          /\ c = [b EXCEPT ![in.op] = [status |-> "PROCESSED", call |-> in]]
      BY <1>2, <1>3, <1>9, <1>10, <1>11, <1>12
    <2>2. /\ n \in [Wallets -> -1..MaxMinor] /\ n[in.wallet] # -1
          /\ \A w \in Wallets : w # in.wallet => n[w] = m[w]
      BY <1>8, <1>12
    <2>3. n[in.wallet] = Applied(Direction(in.kind, KindIn(b, in)), m[in.wallet], in.amount)
      BY <1>1, <1>4, <1>8, <1>12
    <2> QED
      BY <2>1, <2>2, <2>3, SettlingAgrees
  <1> QED
    BY <1>12, <1>13

\* Every step of the ledger of operations keeps balances and book in agreement.
LEMMA PromiseAgrees ==
    ASSUME Agree(Balances, Book), Promise!Next
    PROVE  Agree(Balances', Book')
  <1>1. CASE \E w \in Wallets : Promise!Open(w)
    <2>1. PICK w \in Wallets : /\ Balances[w] = -1
                               /\ Balances' = [Balances EXCEPT ![w] = InitialOf[w]]
                               /\ Book' = Book
      BY <1>1 DEF Promise!Open, Promise!Closed, Balances, Book
    <2>2. PICK m, b, n : m = Balances /\ b = Book /\ n = Balances'
      OBVIOUS
    <2>3. Agree(n, b)
      BY <2>1, <2>2, OpeningAgrees
    <2> QED
      BY <2>1, <2>2, <2>3
  <1>2. ASSUME NEW in \in Inputs, NEW s, s # "PROCESSED",
               Promise!Enters(in) \/ Promise!Waits(in),
               Book' = [Book EXCEPT ![in.op] = [status |-> s, call |-> in]],
               Balances' = Balances
        PROVE  Agree(Balances', Book')
    <2>1. /\ in.op \in OperationsAsked /\ in.op \notin ProcessedIn(Book) /\ ValidInput(in)
          /\ Balances[in.wallet] # -1
      BY <1>2, MayBeRecorded
    <2>2. Book = [o \in OperationsAsked |-> Book[o]]
      BY DEF Book
    <2>3. PICK m, b, c : m = Balances /\ b = Book /\ c = Book'
      OBVIOUS
    <2>4. Agree(m, c)
      BY <1>2, <2>1, <2>2, <2>3, QuietlyAgrees
    <2> QED
      BY <1>2, <2>3, <2>4
  <1>3. ASSUME NEW in \in Inputs,
               Promise!Refuse(in) \/ Promise!Wait(in) \/ Promise!Expire(in)
        PROVE  Agree(Balances', Book')
    <2>1. PICK s \in {"REJECTED", "PENDING_REFERENCE", "FAILED"} :
             Book' = [Book EXCEPT ![in.op] = [status |-> s, call |-> in]]
      BY <1>3 DEF Promise!Refuse, Promise!Wait, Promise!Expire, Promise!Records, Book
    <2>2. Promise!Enters(in) \/ Promise!Waits(in)
      BY <1>3 DEF Promise!Refuse, Promise!Wait, Promise!Expire
    <2>3. Balances' = Balances
      BY <1>3 DEF Promise!Refuse, Promise!Wait, Promise!Expire, Balances
    <2> QED
      BY <1>2, <2>1, <2>2, <2>3
  <1>4. \/ \E w \in Wallets : Promise!Open(w)
        \/ \E in \in Inputs :
              Promise!Settle(in) \/ Promise!Refuse(in) \/ Promise!Wait(in) \/ Promise!Expire(in)
    BY DEF Promise!Next
  <1> QED
    BY <1>1, <1>3, <1>4, SettleAgrees

\* At the start nothing has moved.
LEMMA StartAgrees == Promise!Init => Agree(Balances, Book)
  <1> SUFFICES ASSUME Promise!Init PROVE Agree(Balances, Book)
    OBVIOUS
  <1>1. /\ Balances = [w \in Wallets |-> IF w \in Preopened THEN InitialOf[w] ELSE -1]
        /\ Book = [o \in OperationsAsked |-> [status |-> "ABSENT", call |-> None]]
    BY DEF Promise!Init, Promise!Closed, Promise!Unknown, Balances, Book
  <1>2. PICK m, b : m = Balances /\ b = Book
    OBVIOUS
  <1>3. m \in [Wallets -> -1..MaxMinor]
    BY <1>1, <1>2, WalletsAssumption, MaxMinorAssumption
  <1>4. (\A o \in OperationsAsked : b[o].status = "ABSENT") /\ ProcessedIn(b) = {}
    BY <1>1, <1>2 DEF ProcessedIn
  <1>5. ASSUME NEW w \in Wallets, m[w] # -1 PROVE m[w] = InitialOf[w] + MovedBy(b, w)
    <2>1. SettledIn(b, w) = {}
      BY <1>4 DEF SettledIn
    <2>2. PICK f : f = EffectsIn(b, w)
      OBVIOUS
    <2>3. Total(f, {}) = 0
      BY FS_EmptySet, TotalStep
    <2>4. MovedBy(b, w) = 0
      BY <2>1, <2>2, <2>3 DEF MovedBy
    <2>5. m[w] = InitialOf[w] /\ InitialOf[w] \in Int
      BY <1>1, <1>2, <1>5, WalletsAssumption, MaxMinorAssumption
    <2> QED
      BY <2>4, <2>5
  <1>6. Agree(m, b)
    BY <1>3, <1>4, <1>5, FS_EmptySet DEF Agree
  <1> QED
    BY <1>2, <1>6

\* The sum of OperationLedger is the one of these proofs.
LEMMA MovementIs ==
    ASSUME NEW w
    PROVE  Promise!SumFunction([o \in Promise!Settled(w) |-> Promise!Effect(o)])
              = MovedBy(Book, w)
  <1>1. Promise!Settled(w) = SettledIn(Book, w)
    BY DEF Promise!Settled, Promise!Processed, SettledIn, ProcessedIn, Book
  <1>2. ASSUME NEW o PROVE Promise!Effect(o) = EffectIn(Book, o)
    BY DEF Promise!Effect, EffectIn, Promise!KindOfRef, KindIn, Promise!Applied, Applied,
           Promise!Direction, Direction, Book
  <1>3. [o \in Promise!Settled(w) |-> Promise!Effect(o)] = EffectsIn(Book, w)
    BY <1>1, <1>2 DEF EffectsIn
  <1>4. PICK f, S : f = EffectsIn(Book, w) /\ S = SettledIn(Book, w)
    OBVIOUS
  <1>5. DOMAIN f = S
    BY <1>4 DEF EffectsIn
  <1>6. Promise!SumFunction(f) = Total(f, S)
    BY <1>5 DEF Promise!SumFunction, Promise!SumFunctionOnSet, Promise!FoldFunctionOnSet,
                Promise!MapThenFoldSet, Total, IsSum
  <1> QED
    BY <1>3, <1>4, <1>6 DEF MovedBy

\* The ledger of operations conserves money.
LEMMA PromiseConserves == Promise!Spec => []Promise!BalancesFollowTheBook
  <1>1. Promise!Init => Agree(Balances, Book)
    BY StartAgrees
  <1>2. Agree(Balances, Book) /\ [Promise!Next]_<< Balances, Book >>
           => Agree(Balances, Book)'
    <2> SUFFICES ASSUME Agree(Balances, Book), [Promise!Next]_<< Balances, Book >>
                 PROVE  Agree(Balances', Book')
      OBVIOUS
    <2>1. CASE Promise!Next
      BY <2>1, PromiseAgrees
    <2>2. CASE UNCHANGED << Balances, Book >>
      <3>1. Balances' = Balances /\ Book' = Book
        BY <2>2
      <3> QED
        BY <3>1
    <2> QED
      BY <2>1, <2>2
  <1>3. Agree(Balances, Book) => Promise!BalancesFollowTheBook
    <2> SUFFICES ASSUME Agree(Balances, Book), NEW w \in Wallets, Balances[w] # -1
                 PROVE  Balances[w] = InitialOf[w] +
                          Promise!SumFunction([o \in Promise!Settled(w) |-> Promise!Effect(o)])
      BY DEF Promise!BalancesFollowTheBook, Promise!Closed, Balances
    <2>1. Balances[w] = InitialOf[w] + MovedBy(Book, w)
      BY DEF Agree
    <2> QED
      BY <2>1, MovementIs
  <1> QED
    BY <1>1, <1>2, <1>3, PTL DEF Promise!Spec, Balances, Book

\* However settlements of any number of sessions interleave, fail and are tried
\* again, the committed balance of a wallet is what it was opened with and what the
\* processed operations that name it have moved, each once.
THEOREM MoneyIsConserved == Spec => []BalancesFollowTheBook
  BY PromiseKept, PromiseConserves, PTL DEF KeepsThePromise, BalancesFollowTheBook
================================================================================
