# wager-ledger, specified

TLA+ specifications of the wager ledger service (`src/`, Go), their TLC models
and TLAPS proofs. File and line references are to `src/`.

## 1. The system

Providers report game operations (BET, WIN, LOSS, REFUND, ROLLBACK) over HTTP or
an SQS FIFO queue. Each is applied at most once to a wallet in PostgreSQL, with a
ledger entry per movement and outbox events that a publisher sends to a second
queue. Every server instance runs all of the parts below, against one database;
nothing coordinates two instances but the database and the queues.

| Component | State | Operations | Calls |
|---|---|---|---|
| **ProcessWagerTransaction** `internal/application/usecase/process_wager_transaction.go` | rows of `wager_transactions`, `wallets`, `ledger_entries`, `outbox_events` | `Execute` (retry loop), `ExecuteWithin`, `ResumePendingReference`, `ExpirePendingReference` | repositories inside one unit of work |
| **Domain** `internal/domain` | none; decides on rows | `NewExternalTransaction`, `Debit`, `Credit`, `NewEntry`, `Mark*` | - |
| **OpenWallet** `open_wallet.go` | wallet, OPENING row, entry, events | `Execute` | repositories |
| **ReferenceRetryWorker** `reference_retry_worker.go` | none; lists of ids | `processPending`, `expireStale` on a ticker | ResumePendingReference, ExpirePendingReference |
| **PostgreSQL layer** `internal/infra/postgres`, `migrations` | the tables | one SQL statement per repository method, READ COMMITTED or REPEATABLE READ | - |
| **Outbox publisher** `internal/infra/outbox/publisher.go` | `locked_at`, `next_attempt_at`, `published_at` of a row | `Claim`, send, `MarkPublished`, `MarkFailed` | queue of events |
| **SQS consumer and inbox** `internal/infra/sqs/consumer.go` | `inbox_messages`, the batch at hand | receive, `handle`, delete, release | ExecuteWithin in its own transaction |
| **Ledger reads** `ledger_repository.go`, `reconcile_wallet.go` | none; cursors of clients | page, reconcile | ledger and wallet repositories |
| **Money** `internal/domain/money` | none | parse, format, add, subtract on int64 | - |
| **HTTP API** `internal/infra/http` | none | authorize, decode, call a use case, choose a status | use cases, repositories |
| **Identity** `internal/infra/idp` | the cached key set and its age | `Key`, `refresh` on a ticker and on an unknown `kid`; `Authenticate`, `RequireRole` | JWKS endpoint |
| **Configuration, observability, ids, wiring** | - | - | fx |

What is hard here, and what therefore has to hold:

* *ProcessWagerTransaction.* Everything runs at READ COMMITTED without reading
  locks. Correctness rests on the version in the WHERE clause of the wallet's
  UPDATE, on three unique indexes, and on the order of the reads. It must lose no
  movement, apply an operation once, reverse once, justify each rejection although it
  is decided on a snapshot, answer what is durable, and answer at all.
* *Worker.* Lists are read outside the transaction that resumes a row, so resumption
  and expiry race each other on several instances. A row must get one outcome and
  the events of one. Both lists are short, and the oldest rows come first: a row must
  get its turn, and its try before it is expired.
* *OpenWallet.* Two openings race; the loser must leave nothing behind.
* *Publisher.* A lease may run out under a live publisher, the two marks name a
  row by id alone, and a call may fail after the queue took the message. An event is
  never lost and is sent again only for a reason.
* *Consumer.* Redelivery while the first delivery is at work, COMMIT whose
  answer is lost, a stop between COMMIT and delete, messages that fail every time.
* *Reads.* Keyset pages over `created_at`, which is stamped before the commit; a
  reconciliation of three statements.
* *Money.* int64 at both ends: text, sums and differences fail or are exact, and what is
  written reads back.
* *Identity.* Refreshes fetch outside the lock and overtake one another; one may fail.
* *HTTP.* Who may see what, and whether a status tells the provider the truth about
  what was stored.

`PROJECT.json` lists each hazard at its line with the properties that cover it.

## 2. The modules

```
OperationLedger  --EXTENDS-->  WagerDomain            rules of an operation, pure
      ^ INSTANCE                    ^ EXTENDS
WagerRefinement  --EXTENDS-->  WagerLedger            calls, workers, expiry and openings
      ^ EXTENDS                     ^ EXTENDS         on one database
      |                        WagerLedgerProofs      wallets, snapshots, rows
      |                             ^ EXTENDS
      +---- WagerEffectProofs ------+                 entries, events, the refinement
      +---- MCWagers

ReferenceQueue <- QueueProofs                the worker's passes: whose turn it is
Delivery --INSTANCE--> Outbox, Consumer      a channel that delivers at least once, abstract
Outbox         <- MCOutbox, OutboxProofs     publishers, leases, the queue of events
Consumer       <- MCConsumer, ConsumerProofs consumers, inbox, the queue of commands
LedgerReads    <- MCReads, ReadsProofs       pages and reconciliation while settlements commit
Money          <- MCMoney, MoneyProofs       text and arithmetic of amounts, the publisher's backoff
KeySet <- HttpApi <- MCHttp, HttpProofs      the key cache, and requests that use it
```

The modules meet at the transaction that commits. `WagerLedger` writes
`events[t]`; each element of it is an event that `Outbox` creates with `Create`.
`Consumer` commits the effect of a message where `WagerLedger` commits an attempt.
The writers of `LedgerReads` are sessions of `WagerLedger` reduced to what orders
entries. A `Resume` of `ReferenceQueue` is what the worker does between `LockRow` and
`Commit` there, reduced to its outcome, and the results of `HttpApi` are the replies of
`WagerLedger`. They are kept apart because their interleavings multiply and do not
interact: an outbox row has no influence on the ledger, and the ledger sees a
consumer as one more session that makes a single attempt.

Definitions whose names end in `Bug` (`VersionMatches_DroppedBug`...) are mistakes
the code could contain, used by no specification. Each is paired in
`PROJECT.json` ("mutants") with a definition it replaces and a property that fails
when it does.

### WagerLedger

A *session* is a call or a worker goroutine. It holds one database transaction and
makes one step per statement that another session can see or block.

| Variable | In the program |
|---|---|
| `wallets`, `txs`, `ledger`, `events` | committed rows; `txs[r]` is the row request `r` creates, `txs[w]` the OPENING row of wallet `w` |
| `input[r]` | what the caller asked, also the content of its row |
| `pc`, `task`, `snap`, `plan`, `tries` | locals of an attempt: where it is, the row it works on, the wallet it read, what it will commit, the attempt number |
| `reply`, `openReply` | what callers were answered |

| Action | Code |
|---|---|
| `FindByKey`, `FindByOp`, `ReplayCurrent` | `resolveExisting` and `replayOutput`: one step per lookup, since a commit may fall between them |
| `FindWallet`, `Insert` | `attempt` up to the INSERT, which waits for an uncommitted row with its key or operation and then either wins or starts over |
| `FindReference`, `FindReversal` | `validateReference` and the lookups before it, shared by calls and workers |
| `Save` | the UPDATE with the version check, which waits for the row lock of another settlement |
| `Commit` | final UPDATE of the row, entry, events, COMMIT; the index of migration 0008; a lost answer |
| `List`, `LockRow`, `ResumeWallet`, `Expire` | the worker |
| `OpenWallet` | the whole opening: it reads nothing, so it is one step |
| `Crash`, `Rests` | a connection dies before COMMIT; every call answered, nothing pending |

Uncommitted rows and locks are not variables. They are read off `pc`
(`HoldsInsert`, `HoldsWallet`, `HoldsRow`), which is what makes a crash simply a
return to the start. Values are abstracted to what decides: a provider and its
external id are one value (`op`), the payload hash is content equality, a time to
live may run out whenever it could, and the backoff of `RecordReferenceRetryAttempt`
never keeps a row from being listed: both are in `ReferenceQueue`.

### OperationLedger and WagerRefinement

`OperationLedger` is what a provider is promised, without sessions, snapshots, versions,
retries or rows: the `balance` of each wallet and a `book` with the status of each operation
and the call that it is. `Settle` moves money in one step that is right at the moment it
happens: the balance covers it, the reference is PROCESSED and agrees, nothing has reversed
it. `Refuse`, `Wait`, `Expire` and `Open` are the other steps. A refusal promises less, since it
is stored without a version check: its reason may have passed (`RejectionJustified` says what
holds of it). The two share `WagerDomain`, so the refinement is about when a decision holds
and not about the rules. `WagerRefinement` maps `wallets` to `balance`, and
the rows of an operation with the content of the call that made them to `book`; every step of a
session but the ones that commit is a stutter.

`BalancesFollowTheBook` states conservation of money in these terms: an open wallet holds what it was
opened with plus the sum, over the processed operations that name it, of what each moves, in the direction
that its kind and the kind of its reference give it. `LedgerReconciles` compares a balance with the entries;
this compares it with the operations that the provider knows of.

### ReferenceQueue

| Variable | In the program |
|---|---|
| `status`, `attempts`, `wait`, `age` | of a row: its status, `reference_retry_attempts`, ticks to `reference_next_retry_at`, ticks since `created_at` |
| `arrived`, `stuck` | whether its reference is PROCESSED; whether its credit overflows whenever tried |
| `phase`, `batch` | of the worker: resuming, expiring, asleep or down, and the ids of the list still at work |
| `tried` | history: the ids of this pass |

`ListPending` and `ListStale` are the two queries with ORDER BY and LIMIT, `Resume` and `Expire`
a goroutine each, in any order; `ListFails` ends a pass, `TransactionFails` one id, `Stop` and
`Start` the process. `AllEnded` is `wg.Wait`. A `Tick` is the ticker's second. There is one
worker; two of them, on one row, are `WagerLedger`'s.

### Money

An amount goes through any sequence of `Read` (JSON of a request), `AddStored` and `SubStored` (`Add`
and `Sub` of an amount from the database), `Negation` and `Reread` (its own JSON), while `exact` keeps
the integer it stands for, without a width. `Wrap` is Go's arithmetic. A text is what the parser looks at:
whether it has stray characters, its sign, the number before the point and the digits after it.
`Fail` and `GoOut` run the publisher's `backoff` through the attempts at which the power, the product and
the conversion from float64 overflow; the last is the processor's choice (`Powers`).

### KeySet and HttpApi

`KeySet`: `Told` and `Store` are the two halves of `refresh`, the request without the lock and the
assignment under it; `Look` and `LookAgain` the two reads of `Key`; `Tick` the loop of
`StartAutoRefresh`. `recent` is whether the last refresh is less than five seconds old. The provider
(`Rotate`, `Retire`) is external. `HttpApi` adds a request from header to status: `Arrive`, the lookup of
its key, `Refuse` or `Serve`, which is Authenticate after the lookup, RequireRole and the handler in one
step, because nothing between them is shared. A use case returns any result it can
(`Results`), and `Leaves` says whether rows stay behind; for an error without a name either may be.

### Outbox

`row[e]` holds the status, the lease (`free`, `held`, `expired`) and whether
`next_attempt_at` has come. `Claim` is the UPDATE with SKIP LOCKED, `Send` and
`SendFails` are `publishOne`, `MarkPublished`, `MarkFailed` and `MarkFails` the
UPDATEs behind it. `copies`, `remembered` and `windows` describe the FIFO queue,
which is external: one copy per deduplication id for as long as it remembers it.
`sends` and `excuses` are history. `locked_by` and `attempts` are left out: the code
writes them and no decision reads them but the length of a backoff, which is
arbitrary here. `failures`, `stops`, `slow` and `forgets` count what went wrong, each on its own;
`Faults` is their sum and has the bound.

### Consumer

`place`, `hidden` and `receives` are the FIFO queue: groups are held back while a
message of theirs is hidden, a receipt is good for one delivery only, and a message
received `MaxReceives` times goes to the dead-letter queue. `InboxCreate` is INSERT ...
ON CONFLICT DO NOTHING, which waits for an uncommitted row of the same id.
`Commit`, `Refuse` and `FailThisTime` end the transaction, `DeleteMessage` and
`DeleteFails` follow. After an error the loop goes on to the next message of
the batch, of whatever group. The fallback of consumer.go:133-135 to the id that SQS
gives is left out: `decodeEnvelope` refuses an empty `messageId`, so it is never taken.

### Delivery

What `Outbox` and `Consumer` have in common, without leases, batches, receipts and retries: an item is
absent, pending or settled. It is handed over (`Hand`) when it was handed over no more often than there
were reasons, and settled (`Settle`) for good after that. A hand-over nobody learns of is itself a reason, and so is what
`Excuse` stands for. `Outbox` maps an event to an item, a send to a hand-over, `published` to
settled and `excuses` to reasons. `Consumer` maps an *id* to an item, the effects of all messages
of the id to hand-overs, the deletion of one of them to settled, and *nothing* to reasons: the outbox
delivers at least once, the inbox makes it once. The same abstract channel says both.

### LedgerReads

`FindWallet`, `Stamp`, `Settle`, `Retry` and `Reject` are the writer. `ListByWallet` is
one page, `StartOver` a client that lists again. `ReadStored`, `Count` and `Sum` are the
three statements of the reconciliation on the snapshot that the first one takes.
`Ordered` is ORDER BY: the one enumeration of the rows in which each follows those before it. `SumOf` is
SUM. One clock is assumed for all instances, and that it moves between a commit and the
next stamp.

## 3. What is checked

| Run | Question | Bounds |
|---|---|---|
| `movements` | Is money lost, invented, overdrawn or given back twice? Do racing openings leave one wallet per player and currency? | 4 calls, 1 worker, balance 3, largest amount 5, 2 attempts, no crash; 3 wallets, two of them opened in the run |
| `races` | Do reused keys, early or useless references, two workers, the expiry and a lost connection give a call two rows, a row two outcomes, or a caller a wrong answer? Does the database keep the abstract promise? | 3 calls, 2 workers, 1 crash |
| `liveness` | Is every call answered, every pending row resolved? | 3 calls, 1 worker, counter up to 2, no crash |
| `queue` | Does a row of the worker starve, expire untried, or never end? | 3 rows, lists of 2, TTL 0 and 2, backoff up to 2 ticks, 1 failure or restart |
| `publishing` | Is anything marked unsent, revived, sent again without a reason, or never sent? | 3 events, 2 publishers, batch of 2, 2 faults in all: failed calls and statements, stops, leases run out at work, ends of the window |
| `redeliveries` | Does a message have two effects, or none, or block its group for ever? | 4 messages: one that cannot be decoded, one that is refused, and the same bet behind each; 2 deliveries, 1 failure, 1 stop, 1 visibility that ends at work |
| `reads` | Does a page skip an entry, or a reconciliation invent a divergence? | 3 writers, pages of 1, wallets opened with 0 and with 3 |
| `arithmetic` | Does an amount ever differ from what it stands for, a check refuse too much or too little, a text not read back, a backoff go wrong? | integers of 10 bits, 14 texts, 8 amounts from the database, 12 attempts |
| `http` | Does anything run, or show, for somebody not entitled? Does a status mislead a provider? Is a rotation noticed? | 2 callers and the ticker, 2 keys, 1 failed refresh, every route |

The requests of `movements` and `races` ask within one of several scenarios
(`MCWagers`): bets, wins and a loss; a bet with everything that may undo it; a win taken back after it was spent;
references that never serve; reused keys and operations. Within a scenario each
request asks anything, so two may ask the same: a resent call is covered
everywhere.

### The properties

*WagerLedger.* `LedgerReconciles`: entries chain from zero to the balance.
`BalancesFollowTheBook`: money is conserved. `VersionCountsMovements`: versions and
`BalanceChanged` events number the movements without a gap. `EffectMatchesOutcome`: a
row moved money once if it is PROCESSED and no LOSS, and never otherwise.
`ReversalUndoes`, `ReversedOnce`: a reversal is opposite,
equal and later, there is one, and the index that would stop a second with an error
500 is never reached. `AppliedOnce`, `AnswersAreDurable`, `ConflictJustified`:
idempotency. `RejectionJustified`: the committed history bears out each rejection,
even those decided on a stale row. `EventsMatchOutcome`: the outbox tells one
story per row. `TerminalFrozen`: terminal rows and entries never change.
`OnePurse`: openings. `KeepsThePromise`: the refinement. `Answered`, `PendingResolves`: liveness.

*Outbox.* `PublishedIsSent`, `PublishedIsFinal`, `OneCopyPerWindow`,
`ResendsExplained` (each repeated send is due to a lease that was taken over after
it ran out, or to an error that hid a success), `EveryEventPublished`, and `ImplementsDelivery`: every step is one of
the abstract channel.

*Consumer.* `OneEffectPerId`, `RemovedAfterCommit`, `DeadOnlyAfterFailures` (a good message reaches the
dead-letter queue by its own failures, stops or ends of visibility, never for what another one did),
`EveryMessageSettles`, and `ImplementsDelivery`: the consumers are a channel that hands an id over once.

*LedgerReads.* `PagesFollowTheLedger`, `ListingIsComplete`, `NoFalseDivergence`.

*ReferenceQueue.* `TriedBeforeExpired`, `EveryRowEnds`, and `NoneStarves`: with expiry off, a row whose
reference has come is settled although older rows wait for ever. It has a precondition, `RoomFor`,
that is the limit of the code's backoff: rows whose credit overflows note no attempt
and come back every second, so they must leave a place in the list; and the others must fit in the
places of one longest backoff (32 a second for 30 seconds). Without the first half TLC finds the starvation
of the hazard at `process_wager_transaction.go:235`.

*Money.* `ArithmeticIsExact`, `TextRoundTrips`, `BackoffDoubles`.

*HttpApi.* `OnlyTheEntitled`, `StatusTellsTruth`, and `RotationNoticed`: once the provider rests the
cache holds what it publishes, for good. A lookup just after its own refresh may still be refused, when
an older answer overtook it; that ends with the next refresh, five seconds later or at a tick.

### Bounds, and why they are enough

* `MaxRetries` is 2 where the code has 5. An attempt starts from nothing, so the third
  is like the second; what matters is that one is retried and that they run out.
* `MaxAttempts` (1, or 2 in `liveness`) bounds the retry counter of a pending row,
  which saturates. Nothing but the backoff reads it.
* `MaxMinor` (5) stands for the largest int64, so that overflow is within reach.
* `MaxCrashes`, `MaxFailures`, `MaxFaults`, `MaxStops`, `MaxSlow` count how often
  something goes wrong in one behaviour. One or two of each, at any moment, is what
  the races between two actors need.
* `MaxReceives` is 2 instead of 5, `BatchSize` 2 instead of 10 and 20, `Limit` 1:
  the smallest values at which a message is delivered again, a batch has a rest, and
  a page has a successor.
* `Bits` is 10 instead of 64: the checks compare with the ends of the range and multiply by 100, and 10
  bits leave five whole units on each side of zero. `BaseBackoff` and `MaxBackoff` keep their order with the
  width, and `MaxAttempts` goes past the attempt at which 2^n no longer fits.
* `Rows` 3 and `Limit` 2: lists are full, and a row waits behind them. `MaxBackoff` 2 ticks, `MaxShift` 1 and
  a `ttl` of 2 instead of 30 s, 5 and 15 minutes: rows come back while others wait, and a backoff may
  outlast the TTL. `attempts` and `age` saturate where nothing more depends on them.
* `MaxKid` 2: one rotation, seen or overtaken by the refreshes of two callers and the ticker. With three keys
  the run takes longer than is useful.
* `MaxClock` stops the ticks of `LedgerReads`; settlements move the clock
  themselves.
* Requests, workers, publishers and consumers are interchangeable, so runs without
  liveness use symmetry on them. Operations, keys and messages are not permuted.

### Fairness

*WagerLedger*: each session is scheduled (the goroutine of a call, PostgreSQL behind
it), hence WF of its step. `Expire` needs SF: the ticker never stops, but a row may be
locked by a resumption at each try. PostgreSQL serves the queue of a row lock in
order, so a waiting expiry is not overtaken for ever. No fairness for crashes or for the arrival
of calls. A positive `REFERENCE_PENDING_TTL` (default 15 minutes) is assumed; zero
turns expiry off, and then a reference that never comes stays pending (`NoneStarves` is about that case).
*Outbox*: the ticker of each publisher (WF of its step), and time passes (WF that a lease
runs out and a backoff ends). Not of `Stop`, nor of `QueueForgets`.
*ReferenceQueue*: the worker's step (its goroutines run, and a stopped process is started again) and its ticker.
Not that references arrive.
*HttpApi*: a request runs to its end (the client of the provider gives up after ten seconds), and the ticker
of the refresh never stops. Not that requests arrive, nor that the provider rotates.
*Consumer*: the loop of each consumer, and the queue's promises (a visibility ends, a
message received too often is moved).

### Where documents and code differ

Three runs with the expectation `violation` check a sentence of the repository
against the code.

| Run | The document | The code |
|---|---|---|
| `doc_replay` | README.md:525: a replay returns the balance of the original processing | an expired row stores none; it is replayed with the balance of the day |
| `doc_hash` | README.md:588: the hash is verified on a redelivery | nothing reads the stored hash |
| `doc_status` | README.md:527: invalid input and transient unavailability are told apart by the contract | `handleOpenWallet` (wallets.go:86) and `handleGetWalletLedger` (wallets.go:151) answer 400 to a failure of the database |

Others have no run. README.md:430 has an exhausted wait end as REJECTED; the code ends it as FAILED, and
ARCHITECTURE.md:108 documents that choice. ARCHITECTURE.md:222-224 says that two publishers never
publish an event twice; one whose lease ran out while it sent its batch does, and `ResendsExplained` says
exactly when. The comment at wagertx.go:111-112
says that the retry counter is zero outside PENDING_REFERENCE; `MarkFailed` and a
rejection by the worker leave it as it was. README.md:418 asks that a
reversal has the amount it refers to; `validateReference` asks it of a WIN with a
reference too.

## 4. What is proved

All safety properties of the runs but one, the action properties and the three refinements are theorems,
for every value of the constants: any number of requests, workers, wallets, events,
publishers, messages, consumers, writers, callers and pending rows, any retry limit, batch size and page size,
and any number of failures, stops and lost connections. Each rests on an inductive invariant, which TLC has
checked too, with the bounds of the run of its module, before it was proved. (The sums of `Agree` it
checks in the form of `BalancesFollowTheBook`.)

| Invariant | Module | Theorems, and the property each states |
|---|---|---|
| `IInv` | `WagerLedgerProofs` | `TypeCorrect` (`TypeOK`), `Reconciles` (`LedgerReconciles`), and `SnapshotsAreSound`, which says why it reconciles |
| `IInv`, `KInv` | `WagerLedgerProofs` | `FinalStaysFinal` (`TerminalFrozen`), `AnswersLast` (`AnswersAreDurable`), `ConflictsAreReal` (`ConflictJustified`), `NeverReversedTwice` (`ReversedOnce`) |
| ... and `OInv` | `WagerLedgerProofs` | `StoredOnce` (`AppliedOnce`), `RejectionsHaveReasons` (`RejectionJustified`), `OneWalletPerPurse` (`OnePurse`) |
| ... and `MInv` | `WagerEffectProofs` | `VersionsCount` (`VersionCountsMovements`), `EffectsMatchOutcomes` (`EffectMatchesOutcome`), `ReversalsUndo` (`ReversalUndoes`), `EventsTellOutcomes` (`EventsMatchOutcome`) |
| `IInv`, `KInv`, `RInv` | `WagerEffectProofs` | `PromiseKept` (`KeepsThePromise`): the refinement of `OperationLedger` |
| `Agree`, of the book | `WagerEffectProofs` | `MoneyIsConserved` (`BalancesFollowTheBook`), by way of `PromiseKept` |
| `PubInv` | `OutboxProofs` | `OutboxTypes`, `MarksAreTrue` (`PublishedIsSent`), `NoSendWithoutReason` (`ResendsExplained`), `CopiesAreCounted` (`OneCopyPerWindow`), `PublishedStaysPublished` (`PublishedIsFinal`), `OutboxDelivers` (`ImplementsDelivery`): the refinement of `Delivery` |
| `CInv` | `ConsumerProofs` | `ConsumerTypes`, `AtMostOneEffect` (`OneEffectPerId`), `NothingIsLost` (`RemovedAfterCommit`), `DeadHasFailed` (`DeadOnlyAfterFailures`) |
| `CInv`, `OwnRows` | `ConsumerProofs` | `ConsumerDelivers` (`ImplementsDelivery`): the refinement of `Delivery` |
| `LInv` | `ReadsProofs` | `PagesAreTheLedger` (`PagesFollowTheLedger`), `ListingsAreComplete` (`ListingIsComplete`), `NoDivergenceReported` (`NoFalseDivergence`) |
| `QInv` | `QueueProofs` | `ExpiryComesAfterTrying` (`TriedBeforeExpired`) |
| `Exact` | `MoneyProofs` | `AmountsAreExact` (`ArithmeticIsExact`), `AmountsReadBack` (`TextRoundTrips`) |
| `HInv` | `HttpProofs` | `EntitlementHolds` (`OnlyTheEntitled`), `StatusesHold` (`StatusTellsTruth`) |

### The ledger: wallets and snapshots

    IInv == TypeOK /\ LedgerReconciles /\ SnapshotsCurrent /\ RowsHaveWallets

`LedgerReconciles` is not inductive: a commit appends an entry computed from
`snap`, and extends the chain only if `snap` is the row as it stands.
`SnapshotsCurrent` supplies that. A snapshot has a version no greater than the row's, and
the balance of the row if the versions agree (`SnapshotHonest`). A session about to
commit a settlement has the current version (`HolderCurrent`), because `Save`
compared it and no other session holds that wallet (`OneHolder`). `PlanSound` keeps the
new balance within bounds between the decision and the commit, where `TypeOK`
needs it. `RowsHaveWallets` says that a worker only ever reads wallets that exist. The
proof has one lemma per action; `QuietStep` gathers what is common to the actions
that leave the database alone, and `SettlementChains` is the step that matters.

### The ledger: rows

`KInv` says what a session knows of the rows it has read, so that the moment of a commit can be compared
with the moments of the reads. Its parts are of three kinds.

* What the database never takes back (`Knows`, `ReplyHonest`): that a reference is processed and agrees, that a
  balance was once the wallet's, that a row a reply names is stored. `Grows` collects what every step
  keeps (inputs, entries, terminal rows, versions), every action is shown to satisfy it, and one `...Stable` lemma
  per fact carries it over the steps of the other sessions.
* What a lock holds (`Locks`): the uncommitted row of a call owns its operation and key (`InsertHeld`), a worker owns
  the row it resumes, which still waits (`RowHeld`).
* What neither does: that nothing has reversed the reference since it was looked up. `ReversalSeen` says that a
  settlement that would reverse what another has reversed is behind the version of its wallet. The wallet is
  read before the reversal is looked up, both in one wallet, so whoever reverses in between moves that
  version on, and the loser never commits. This is why `ReversedOnce` holds without the index of migration 0008.

`OInv` adds what commits leave in the rows: `AppliedOnce`, from `InsertHeld` at the commit; `RejectionJustified`, from
what the session knew when it refused; and that purses differ. `RowsKnown`, in `KInv`, is what a stored row has been
through.

### The ledger: effects

`MInv` looks at one entry at a time and only backwards: `EntryTrue(w, i)` ties an entry to its row, its event and the
earlier entry it reverses, all of them final, so it stays true of an entry once it is true when the entry is appended.
Beside it every row that moved money has an entry, `VersionCounts` ties the version to the number of entries, and
`Story` ties the events of a row to its status.

### The refinement

`PromiseKept == Spec => KeepsThePromise`: `Init` implies the initial predicate of `OperationLedger`
under the mapping of `WagerRefinement`, and each step is one of its actions or a stutter. A commit of a settlement
maps to `Settle`: the balance covers it because the snapshot is current (`IInv`), the reference serves and nothing has
reversed it (`KInv`). A refusal maps to `Refuse`, a wait to `Wait`, the expiry to `Expire`, the opening to `Open`;
all other steps leave the book and the balances as they are. `RInv` (one row per operation, and stored rows are valid calls)
makes `BookOf`, which chooses the row of an operation, a function of the rows.

### Conservation

`MoneyIsConserved` is proved where it is easy to say: of `OperationLedger`, whose steps have no races. `Agree(m, b)` is
its inductive invariant, over balances `m` and a book `b`: balances are typed, what is in the book are calls that name open
wallets, finitely many operations are processed, what a processed operation refers to is processed, and each open wallet
holds its initial balance plus `MovedBy`. The reference matters because it decides the direction of a rollback, hence what
an operation *moved*: once it is processed its kind is fixed (`RecordingKeeps`), and no later step changes an effect
already counted. A settlement adds one operation to one of the sums (`SettlingAdds`); all other steps leave the
processed operations alone (`QuietlyAgrees`). `PromiseConserves` is the result for the abstract ledger, for any number of
operations, and `MoneyIsConserved` follows by `PromiseKept`: the refinement carries it to the database.

The sum is `SumFunction` of the community modules, which the provers see as its definition: a `CHOOSE` of a function that
satisfies the recursion of a fold (`IsSum`). The lemmas of the section on sums show from the definition that such a function exists
(`SumsExist`), that it is unique (`SumsAgree`), and that the total does not depend on the order in which the fold
takes the elements (`TotalSplits`: any element may be taken out first).

### The outbox

`ResendsExplained` is not inductive, because an `UPDATE` by id frees a row under its new holder. The argument counts
tickets (`Tickets`): an event has one when it is committed and one more for each excuse. A ticket is spent on a
send, in the batch of a publisher, with a publisher that is about to report a failure, or on a row that is pending and
free (`Spare`). A claim, a send and a mark move a ticket; only an excuse makes one. A late mark that frees a row under
its new holder gives a ticket to the row, and it is the one the late publisher had been excused for.

`OutboxDelivers` maps each step to one of `Delivery` or a stutter. That a send is a `Hand` is again the tickets: a publisher
with the event in its batch has one, so there were no more sends than excuses (`HolderMaySend`). A mark is
a `Settle` because the event it names was sent, or a stutter because it was published already.

### The consumer

`OneInserts` says that of the consumers between the INSERT of an id and its COMMIT there is one, and that
a consumer that removes a message has its id committed. `DeadOnlyAfterFailures` needs `Paid`: while a message that could be
handled is not, each of its deliveries but one has ended in a failure, a stop or an overrun visibility, and the one that has
not is the current delivery in some batch (`Underway`). The queue redrives no message that has such a delivery.

`ConsumerDelivers` needs in addition that a row of the inbox names a message of its own id (`OwnRows`). Then the effects of an id
are those of the message in its row, which has one (`EffectsOfRow`); a commit, by whatever consumer and whether or not it learns of
it, is the one `Hand` of its id, and a deletion a `Settle` of an id that has been handed over (`DeleteSettles`).

### The reads

Pages follow `created_at`, entries the order of commits. `Stamped` and `UpToDate` say that the two agree: a writer
takes the time after it has read the wallet, and if the version it read is still the current one every entry there is
older. Then the rows after the cursor are the entries after those listed (`FetchedIs`), because a set of rows has
one increasing enumeration: the place of a row in it is how many rows are before it (`RankIs`, `OrderedIs`). `Auditing`
says that the snapshot of a reconciliation is a prefix of the ledger whose sum is the balance that was read.

### The worker's queue

A row never tried has no backoff to wait for (`RowsHonest`). So a list of a pass has it or is full of older rows:
`FirstOfIsFull`, by the first row that a limit leaves out. `PassHonest` carries this from `ListPending` to the expiry: what is
not in the batch any more was tried, and a row that comes during the pass is too young for its expiry.

### Money

`Exact` adds to `ArithmeticIsExact` that an amount is one of the type's integers. `AddIsExact` and
`SubIsExact` are the heart: the comparison of the wrapped sum
with an operand fails exactly when the true sum does not fit. They rest on `WrapInside`, `WrapAbove` and
`WrapBelow`. `ParseIsExact` does the same for text, from `CentsAreTheFraction` and `TooLargeIsExact`;
`DecimalStringWritesTheAmount` is the way back. `Sound(r, n)` names what an operation whose true result is
`n` may return, and each operation has a lemma that says it is sound. `Modulus` and `MaxInt` are never
expanded: `WidthAssumption` (the modulus is twice the largest integer and two, and one unit fits) is all that is used of
2^64.

### HTTP

A request is judged in steps while keys change. `KeysAreSigners` says that every answer of the provider under way and
every cache hold keys it signs or has signed with; `OnItsWay` that the kid looked up is the one of the token and that nothing has
run for the request; so what `Serve` decides is decided on a key that was found (`FoundIsSigner`).

### What is assumed

All assumptions are named in the module that declares the constants, and TLC evaluates them in every run:

* `WagerLedger`: sessions and wallets are disjoint, `None` is neither of them nor a kind, initial balances and amounts
  lie in `0..MaxMinor`, wallets open at the start have distinct purses, inputs name wallets.
* `Outbox`, `Consumer`, `ReferenceQueue`: finitely many publishers, messages and rows; messages and rows are numbered in
  the order they come; limits are positive.
* `LedgerReads`: ids are distinct, deltas are not zero, `Limit` is positive, `None` is no cursor and no number.
* `Money`: `WidthAssumption`, `TextsAssumption`, `ColumnsAssumption`, `NoneAssumption`.
* `HttpApi`: a call is a record of its fields, and the ticker is no caller.

### Induction without a scheme

The provers cannot use the library's induction theorems, whose parameter is an operator. Where an argument is by
induction, the proofs use a least element instead: `HasLeast` gets one from the well-foundedness of finite
sets, and `SetInduction` (`ReadsProofs`) and `SubsetInduction` (`WagerEffectProofs`) state the scheme for a set in place of a
formula. Each module's `SumsExist` uses it to show that the recursive function of its sum exists and `SumsAgree` that it is unique. `Enumerates` (`ConsumerProofs`) and `OrderedIs` reach
enumerations by counting predecessors.

### Only model-checked

* `BackoffDoubles`: it depends on the numbers chosen (a base with another factor could wrap to a small positive
  delay), and the provers have no facts about `^`.
* Liveness, which needs fairness and ENABLED: `Answered`, `PendingResolves`, `EveryEventPublished`, `EveryMessageSettles`,
  `NoneStarves`, `EveryRowEnds`, `RotationNoticed`.
* The disagreements with documents of section 3: TLC shows the counterexample.

## 5. What is not modelled

* *HTTP*: bodies, the health checks, request logging, the start and stop of the server.
* *Identity*: the validation of a token is the JWT library's, so a token is sound or not; the decoding of
  a key is one of the ways a refresh fails.
* *Configuration, logging, metrics, ids, wiring*: no state that a decision reads.
* *PostgreSQL repositories*: scanning and column conversions.
* Payloads of events, timestamps (but `created_at` in `LedgerReads`), `gameId`.
* More than one clock. Skew between servers larger than the time between two commits on
  a wallet would let a page skip an entry; nothing in the code bounds it.
* The order of events of one wallet on the queue, and of messages of one group at the consumer: the code
  keeps neither, and no document promises it (hazards at `outbox_repository.go:60` and `consumer.go:101`).

## 6. Plan

Done, in this order: the ledger machine with its domain rules, since everything else hangs
on it; its invariant proved; the outbox; the consumer; the reads; the worker's queue; the abstract
ledger and the refinement; money, and its proofs; the key cache and the HTTP API; then the proofs of all
the safety properties of the runs but `BackoffDoubles`, and of the refinement; conservation of money over the abstract
ledger, carried to the database; and the abstract channel that the outbox and the consumer both implement.

Left: three keys in `KeySet`; and the skew of two clocks in `LedgerReads`, to say how much of it
`PagesFollowTheLedger` survives.
