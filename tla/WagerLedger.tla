------------------------------ MODULE WagerLedger ------------------------------
(***************************************************************************)
(* Wagers against a shared PostgreSQL ledger.                              *)
(*                                                                         *)
(* Requests are HTTP calls to ProcessWagerTransaction.Execute, Workers are *)
(* the goroutines that run ResumePendingReference, on any number of server *)
(* instances.  A session is one of them; it holds one READ COMMITTED       *)
(* database transaction at a time and takes one step per SQL statement     *)
(* that can observe or block another session.  The writes nobody can see   *)
(* before COMMIT (ledger entry, final UPDATE of the row, outbox events)    *)
(* belong to the Commit step.  What a session inserted or locked but has   *)
(* not committed is read off its pc: HoldsInsert, HoldsWallet, HoldsRow.   *)
(*                                                                         *)
(* The committed row that request r creates is txs[r]: its content is      *)
(* input[r], and its id is r.  The opening transaction of wallet w is      *)
(* txs[w].                                                                 *)
(***************************************************************************)
EXTENDS WagerDomain, FiniteSets, Sequences

CONSTANTS
    Requests, Workers, Wallets,
    PlayerOf, CurrencyOf, InitialOf,   \* of each wallet
    Preopened,                         \* the wallets open at the start
    Inputs,                            \* what a request may ask
    MaxRetries,                        \* attempts of Execute (5 in the code)
    MaxAttempts,                       \* BOUND: retry counter saturates here
    MaxCrashes                         \* BOUND: connections lost in a behaviour

ASSUME SessionsAssumption ==
    /\ Requests \cap Workers = {}
    /\ Requests \cap Wallets = {}
    /\ None \notin Requests \cup Wallets

ASSUME WalletsAssumption ==
    /\ InitialOf \in [Wallets -> 0..MaxMinor]
    /\ Preopened \subseteq Wallets
    /\ \A v, w \in Preopened :
          PlayerOf[v] = PlayerOf[w] /\ CurrencyOf[v] = CurrencyOf[w] => v = w

ASSUME InputsAssumption ==
    \A in \in Inputs :
        /\ DOMAIN in = {"op", "key", "player", "wallet", "round",
                        "kind", "amount", "cur", "ref"}
        /\ in.wallet \in Wallets
        /\ in.amount \in 0..MaxMinor

ASSUME BoundsAssumption ==
    MaxRetries \in Nat \ {0} /\ MaxAttempts \in Nat /\ MaxCrashes \in Nat

VARIABLES
    input,      \* what each request asks
    wallets,    \* committed wallet rows, version 0 when there is none
    txs,        \* committed wager_transactions rows
    ledger,     \* committed entries of each wallet, oldest first
    events,     \* outbox rows that each transaction wrote, oldest first
    pc, task,   \* where a session is, and the row it works on
    snap,       \* the wallet row it read
    plan,       \* what it will commit
    tries,      \* failed attempts of a request
    reply,      \* what a request was answered
    openReply,  \* what OpenWallet was answered, if anybody asks for the wallet
    crashes

db      == << wallets, txs, ledger, events >>
session == << pc, task, snap, plan, tries, reply >>
vars    == << input, db, session, openReply, crashes >>

Sessions == Requests \cup Workers
TxIds    == Requests \cup Wallets
Null     == -1    \* a NULL financial_result

NoWallet == [balance |-> 0, version |-> 0]
NoPlan   == [do |-> "none", code |-> NoFailure, ref |-> None]
NoRow    == [status |-> "ABSENT", resolved |-> None, failure |-> NoFailure,
             result |-> Null, attempts |-> 0]
NewRow   == [NoRow EXCEPT !.status = "PENDING"]
Reply(code, t, status, failure, balance, replay) ==
    [code |-> code, tx |-> t, status |-> status, failure |-> failure,
     balance |-> balance, replay |-> replay]
ErrorReply(code) == Reply(code, None, "ABSENT", NoFailure, Null, FALSE)

Event(type, version) == [type |-> type, version |-> version]
Entry(t, dir, amount, before) ==
    [tx |-> t, dir |-> dir, amount |-> amount, before |-> before,
     after |-> Applied(dir, before, amount)]

--------------------------------------------------------------------------------
(* Opening a wallet.  A positive balance comes with an OPENING transaction, *)
(* its entry and its two events; it has no financial result.                *)

Opened(w) == [balance |-> InitialOf[w], version |-> 1]
OpeningRow(w) ==
    IF InitialOf[w] = 0 THEN NoRow ELSE [NoRow EXCEPT !.status = "PROCESSED"]
OpeningEntries_MissingBug(w) == << >>
OpeningEntries_ZeroBug(w) == << Entry(w, "CREDIT", InitialOf[w], 0) >>
OpeningEntries(w) ==
    IF InitialOf[w] = 0 THEN <<>> ELSE << Entry(w, "CREDIT", InitialOf[w], 0) >>
OpeningEvents(w) ==
    IF InitialOf[w] = 0 THEN <<>>
    ELSE << Event("Processed", 0), Event("BalanceChanged", 1) >>

SamePurse_NoIndexBug(v, w) == v = w
SamePurse(v, w) == PlayerOf[v] = PlayerOf[w] /\ CurrencyOf[v] = CurrencyOf[w]
IsOpen(w)       == wallets[w].version > 0

Init ==
    /\ input \in [Requests -> Inputs]
    /\ wallets = [w \in Wallets |-> IF w \in Preopened THEN Opened(w) ELSE NoWallet]
    /\ txs = [t \in TxIds |-> IF t \in Preopened THEN OpeningRow(t) ELSE NoRow]
    /\ ledger = [w \in Wallets |-> IF w \in Preopened THEN OpeningEntries(w) ELSE <<>>]
    /\ events = [t \in TxIds |-> IF t \in Preopened THEN OpeningEvents(t) ELSE <<>>]
    /\ pc = [p \in Sessions |-> IF p \in Requests THEN "byKey" ELSE "idle"]
    /\ task = [p \in Sessions |-> IF p \in Requests THEN p ELSE None]
    /\ snap = [p \in Sessions |-> NoWallet]
    /\ plan = [p \in Sessions |-> NoPlan]
    /\ tries = [r \in Requests |-> 0]
    /\ reply = [r \in Requests |-> ErrorReply("none")]
    /\ openReply \in [Wallets -> {"ok", "none", "unasked"}]
    /\ \A w \in Wallets : openReply[w] = "ok" <=> w \in Preopened
    /\ crashes = 0

\* One player has one wallet per currency: the second OpenWallet meets the
\* unique index and rolls back.  The transaction reads nothing, so it is one step.
OpenWallet(w) ==
    /\ openReply[w] = "none"
    /\ IF \E v \in Wallets : IsOpen(v) /\ SamePurse(v, w)
       THEN /\ openReply' = [openReply EXCEPT ![w] = "alreadyExists"]
            /\ UNCHANGED db
       ELSE /\ openReply' = [openReply EXCEPT ![w] = "ok"]
            /\ wallets' = [wallets EXCEPT ![w] = Opened(w)]
            /\ txs'     = [txs EXCEPT ![w] = OpeningRow(w)]
            /\ ledger'  = [ledger EXCEPT ![w] = OpeningEntries(w)]
            /\ events'  = [events EXCEPT ![w] = OpeningEvents(w)]
    /\ UNCHANGED << input, session, crashes >>

--------------------------------------------------------------------------------
(* Rows, and what a session holds in its open transaction.                  *)

Asked(p)  == input[task[p]]          \* the operation a session works on
RefKind(ref) == IF ref = None THEN None ELSE input[ref].kind
Stored    == {t \in Requests : txs[t].status # "ABSENT"}
HoldsInsert(q) ==
    q \in Requests /\ pc[q] \in {"reference", "reversal", "save", "commit"}
HoldsRow(q, t) == q \in Workers /\ pc[q] # "idle" /\ pc[q] # "lock" /\ task[q] = t
HoldsWallet(q, w) == pc[q] = "commit" /\ plan[q].do = "settle" /\ Asked(q).wallet = w

\* A session sees the committed rows and, a request, the PENDING row it inserted.
StatusSeen(p, t) == IF p \in Requests /\ t = p THEN "PENDING" ELSE txs[t].status
Finds(p, op) ==
    {t \in Stored \cup (IF p \in Requests THEN {p} ELSE {}) : input[t].op = op}

--------------------------------------------------------------------------------
(* How a session ends, is retried or moves on.                              *)

Leaves(p, label, rep) ==
    /\ pc'   = [pc EXCEPT ![p] = label]
    /\ task' = [task EXCEPT ![p] = IF p \in Requests THEN p ELSE None]
    /\ snap' = [snap EXCEPT ![p] = NoWallet]
    /\ plan' = [plan EXCEPT ![p] = NoPlan]
    /\ reply' = IF p \in Requests THEN [reply EXCEPT ![p] = rep] ELSE reply

Closes(p, rep) ==
    /\ Leaves(p, IF p \in Requests THEN "done" ELSE "idle", rep)
    /\ UNCHANGED tries

\* Runs the failed statement again, with what the attempt had read.
RunsAgain_StaleBug(p) == UNCHANGED << pc, task, snap, plan, tries, reply >>

\* Execute runs the attempt again after a version conflict or a unique
\* violation, up to MaxRetries; a worker only logs the error.
RunsAgain(p) ==
    IF p \in Requests /\ tries[p] + 1 < MaxRetries
    THEN /\ Leaves(p, "byKey", reply[p])
         /\ tries' = [tries EXCEPT ![p] = @ + 1]
    ELSE Closes(p, ErrorReply("tooManyRetries"))

Plans(p, label, do, code, ref) ==
    /\ pc'   = [pc EXCEPT ![p] = label]
    /\ plan' = [plan EXCEPT ![p] = [do |-> do, code |-> code, ref |-> ref]]
    /\ UNCHANGED << task, snap, tries, reply >>

\* Nothing left to read: ResolveReference when there is a reference, then the
\* switch on the kind against the balance read earlier.
Decides(p, ref) ==
    LET d == Decision(Asked(p), RefKind(ref), snap[p].balance)
    IN IF d.do = "overflow" THEN Closes(p, ErrorReply("overflow"))
       ELSE Plans(p, IF d.do = "settle" THEN "save" ELSE "commit", d.do, d.code, ref)

--------------------------------------------------------------------------------
(* resolveExisting: by key, then by operation, two statements.              *)

\* What an existing row answers.  Without a stored result the wallet is read
\* in a later statement ("replay").
Replays(r, t) ==
    LET rep == Reply("ok", t, txs[t].status, txs[t].failure, txs[t].result, TRUE)
    IN IF txs[t].result # Null THEN Closes(r, rep)
       ELSE /\ pc' = [pc EXCEPT ![r] = "replay"]
            /\ reply' = [reply EXCEPT ![r] = [rep EXCEPT !.code = "draft"]]
            /\ UNCHANGED << task, snap, plan, tries >>

RefuseKind(r) ==
    /\ pc[r] = "byKey"
    /\ input[r].kind \notin Kinds
    /\ Closes(r, ErrorReply("unsupportedKind"))
    /\ UNCHANGED << input, db, openReply, crashes >>

KeyMatches_NoHashBug(r, t) == TRUE
OpMatches_NoRaceBug(r, t)  == FALSE
KeyMatches(r, t) == SameContent(input[t], input[r])
OpMatches(r, t)  == input[t].key = input[r].key /\ SameContent(input[t], input[r])

FindByKey(r) ==
    /\ pc[r] = "byKey"
    /\ input[r].kind \in Kinds
    /\ LET hits == {t \in Stored : input[t].key = input[r].key /\ input[r].key # None}
       IN \/ /\ hits = {}
             /\ Plans(r, "byOp", "none", NoFailure, None)
          \/ \E t \in hits :
                IF KeyMatches(r, t) THEN Replays(r, t)
                ELSE Closes(r, ErrorReply("conflict"))
    /\ UNCHANGED << input, db, openReply, crashes >>

FindByOp(r) ==
    /\ pc[r] = "byOp"
    /\ LET hits == {t \in Stored : input[t].op = input[r].op}
       IN \/ /\ hits = {}
             /\ Plans(r, "wallet", "none", NoFailure, None)
          \/ \E t \in hits :
                IF OpMatches(r, t) THEN Replays(r, t)
                ELSE Closes(r, ErrorReply("conflict"))
    /\ UNCHANGED << input, db, openReply, crashes >>

\* replayOutput for a row without a result: the balance is the current one.
ReplayCurrent(r) ==
    /\ pc[r] = "replay"
    /\ Closes(r, [reply[r] EXCEPT !.code = "ok",
                                  !.balance = wallets[input[r].wallet].balance])
    /\ UNCHANGED << input, db, openReply, crashes >>

--------------------------------------------------------------------------------
(* The rest of attempt.                                                      *)

\* FindByID on the wallet, the owner check and NewExternalTransaction.
FindWallet(r) ==
    LET w == input[r].wallet IN
    /\ pc[r] = "wallet"
    /\ IF ~ IsOpen(w) THEN Closes(r, ErrorReply("walletNotFound"))
       ELSE IF PlayerOf[w] # input[r].player THEN Closes(r, ErrorReply("playerMismatch"))
       ELSE IF ~ ValidInput(input[r]) THEN Closes(r, ErrorReply("invalid"))
       ELSE /\ snap' = [snap EXCEPT ![r] = wallets[w]]
            /\ pc' = [pc EXCEPT ![r] = "insert"]
            /\ UNCHANGED << task, plan, tries, reply >>
    /\ UNCHANGED << input, db, openReply, crashes >>

\* The unique indexes on (provider, external id) and on the key.  An insert
\* waits for a conflicting one that is not committed yet.
Clashes_No0006Bug(r, t) == input[t].op = input[r].op
Clashes(r, t) == input[t].op = input[r].op \/ input[t].key = input[r].key

Insert(r) ==
    /\ pc[r] = "insert"
    /\ \A q \in Requests \ {r} : HoldsInsert(q) => ~ Clashes(r, q)
    /\ IF \E t \in Stored : Clashes(r, t) THEN RunsAgain(r)
       ELSE IF CurrencyOf[input[r].wallet] # input[r].cur
            THEN Plans(r, "commit", "reject", "CURRENCY_MISMATCH", None)
       ELSE IF input[r].ref # None THEN Plans(r, "reference", "none", NoFailure, None)
       ELSE Decides(r, None)
    /\ UNCHANGED << input, db, openReply, crashes >>

\* What a session does with a reference that is not PROCESSED: a request waits
\* for it unless it never will be, a worker always tries again later.
Postpones(p, status) ==
    IF p \in Workers THEN Plans(p, "commit", "retry", NoFailure, None)
    ELSE IF status \in Terminal
         THEN Plans(p, "commit", "reject", "REFERENCE_NOT_PROCESSABLE", None)
    ELSE Plans(p, "commit", "pend", NoFailure, None)

Usable_AnyStatusBug(p, t) == StatusSeen(p, t) # "PENDING"

Usable(p, t) == StatusSeen(p, t) = "PROCESSED"

FindReference(p) ==
    LET hits == Finds(p, Asked(p).ref) IN
    /\ pc[p] = "reference"
    /\ \/ hits = {} /\ Postpones(p, "ABSENT")
       \/ \E t \in hits :
             IF ~ Usable(p, t) THEN Postpones(p, StatusSeen(p, t))
             ELSE LET code == ReferenceFailure(Asked(p), input[t]) IN
                  IF code # NoFailure THEN Plans(p, "commit", "reject", code, None)
                  ELSE IF Asked(p).kind \in Reversals
                       THEN Plans(p, "reversal", "none", NoFailure, t)
                  ELSE Decides(p, t)
    /\ UNCHANGED << input, db, openReply, crashes >>

\* FindProcessedReversalByReference, and the index of migration 0008.
Reverses(t, ref) ==
    /\ txs[t].status = "PROCESSED"
    /\ txs[t].resolved = ref
    /\ input[t].kind \in Reversals

FindReversal(p) ==
    /\ pc[p] = "reversal"
    /\ IF \E t \in Requests : Reverses(t, plan[p].ref)
       THEN Plans(p, "commit", "reject", "REFERENCE_ALREADY_REVERSED", None)
       ELSE Decides(p, plan[p].ref)
    /\ UNCHANGED << input, db, openReply, crashes >>

\* UPDATE wallets ... WHERE version = previousVersion: waits for the row lock
\* of another settlement, and changes no row when the version moved.
VersionMatches_DroppedBug(p) == TRUE
VersionMatches(p) == wallets[Asked(p).wallet].version = snap[p].version

Save(p) ==
    /\ pc[p] = "save"
    /\ \A q \in Sessions \ {p} : ~ HoldsWallet(q, Asked(p).wallet)
    /\ IF VersionMatches(p)
       THEN pc' = [pc EXCEPT ![p] = "commit"] /\ UNCHANGED << task, snap, plan, tries, reply >>
       ELSE RunsAgain(p)
    /\ UNCHANGED << input, db, openReply, crashes >>

--------------------------------------------------------------------------------
(* The writes and COMMIT.                                                    *)

MoveOf(p)       == Direction(Asked(p).kind, RefKind(plan[p].ref))
MovedBalance(p) == Applied(MoveOf(p), snap[p].balance, Asked(p).amount)
MovedWallet_SameVersionBug(p) == [balance |-> MovedBalance(p), version |-> snap[p].version]
MovedWallet(p)  == [balance |-> MovedBalance(p), version |-> snap[p].version + 1]

\* The row a session updates, as ResolveReference left it.
Prior(p) == IF p \in Requests THEN NewRow ELSE txs[task[p]]
Resolved_ForgottenBug(p) == Prior(p)
Resolved(p) ==
    IF plan[p].ref = None THEN Prior(p)
    ELSE [Prior(p) EXCEPT !.resolved = plan[p].ref, !.attempts = 0]

\* The counter saturates at MaxAttempts: the back-off no longer grows there.
OneMore(n) == IF n < MaxAttempts THEN n + 1 ELSE n

Outcome(p) ==
    CASE plan[p].do = "settle" ->
            [Resolved(p) EXCEPT !.status = "PROCESSED", !.result = MovedBalance(p)]
      [] plan[p].do = "loss" ->
            [Resolved(p) EXCEPT !.status = "PROCESSED", !.result = snap[p].balance]
      [] plan[p].do = "reject" ->
            [Resolved(p) EXCEPT !.status = "REJECTED", !.failure = plan[p].code,
                                !.result = snap[p].balance]
      [] plan[p].do = "pend" -> [Resolved(p) EXCEPT !.status = "PENDING_REFERENCE"]
      [] OTHER -> [Resolved(p) EXCEPT !.attempts = OneMore(@)]

Announced(p) ==
    CASE plan[p].do = "settle" -> << Event("Processed", 0),
                                     Event("BalanceChanged", MovedWallet(p).version) >>
      [] plan[p].do = "loss"   -> << Event("Processed", 0) >>
      [] plan[p].do = "reject" -> << Event("Rejected", 0) >>
      [] plan[p].do = "pend"   -> << Event("PendingReference", 0) >>
      [] OTHER -> << >>

\* The unique index of migration 0008; Update does not map its violation, so
\* the call fails and the transaction rolls back.
MeetsReversalIndex(p) ==
    /\ plan[p].do = "settle"
    /\ Asked(p).kind \in Reversals
    /\ \E t \in Requests \ {task[p]} : Reverses(t, plan[p].ref)

Movement(p) == Entry(task[p], MoveOf(p), Asked(p).amount, snap[p].balance)

\* settle saves the wallet and adds an entry; LOSS does neither.
MovesMoney_LossBug(p) == plan[p].do \in {"settle", "loss"}
MovesMoney(p)         == plan[p].do = "settle"

Writes(p) ==
    LET w == Asked(p).wallet
        ok == ~ MeetsReversalIndex(p)
        moves == ok /\ MovesMoney(p)
    IN /\ wallets' = IF moves THEN [wallets EXCEPT ![w] = MovedWallet(p)] ELSE wallets
       /\ ledger'  = IF moves THEN [ledger EXCEPT ![w] = Append(@, Movement(p))] ELSE ledger
       /\ txs'     = IF ok THEN [txs EXCEPT ![task[p]] = Outcome(p)] ELSE txs
       /\ events'  = IF ok THEN [events EXCEPT ![task[p]] = @ \o Announced(p)] ELSE events

Answer(p) ==
    IF MeetsReversalIndex(p) THEN ErrorReply("internal")
    ELSE Reply("ok", task[p], Outcome(p).status, Outcome(p).failure,
               IF plan[p].do = "settle" THEN MovedBalance(p) ELSE snap[p].balance, FALSE)

\* The connection may drop after COMMIT took effect and before its answer.
Commit(p) ==
    /\ pc[p] = "commit"
    /\ Writes(p)
    /\ \/ Closes(p, Answer(p)) /\ UNCHANGED crashes
       \/ /\ p \in Requests /\ crashes < MaxCrashes
          /\ Closes(p, ErrorReply("lost"))
          /\ crashes' = crashes + 1
    /\ UNCHANGED << input, openReply >>

\* The process or its connection dies before COMMIT: the database rolls back,
\* whoever called a request learns nothing.
Crash(p) ==
    /\ pc[p] \notin {"done", "idle"}
    /\ crashes < MaxCrashes
    /\ Closes(p, ErrorReply("lost"))
    /\ crashes' = crashes + 1
    /\ UNCHANGED << input, db, openReply >>

--------------------------------------------------------------------------------
(* ReferenceRetryWorker.                                                     *)

\* ListPendingReferenceIDs runs outside the transaction that resumes the row.
List(p, t) ==
    /\ pc[p] = "idle"
    /\ txs[t].status = "PENDING_REFERENCE"
    /\ pc'   = [pc EXCEPT ![p] = "lock"]
    /\ task' = [task EXCEPT ![p] = t]
    /\ UNCHANGED << input, db, snap, plan, tries, reply, openReply, crashes >>

StillPending_UncheckedBug(t) == TRUE
StillPending(t) == txs[t].status = "PENDING_REFERENCE"

\* FindByIDForUpdate and the status check behind it.
LockRow(p) ==
    /\ pc[p] = "lock"
    /\ \A q \in Workers \ {p} : ~ HoldsRow(q, task[p])
    /\ IF StillPending(task[p]) THEN Plans(p, "resume", "none", NoFailure, None)
       ELSE Closes(p, ErrorReply("none"))
    /\ UNCHANGED << input, db, openReply, crashes >>

ResumeWallet(p) ==
    /\ pc[p] = "resume"
    /\ snap' = [snap EXCEPT ![p] = wallets[Asked(p).wallet]]
    /\ pc' = [pc EXCEPT ![p] = "reference"]
    /\ UNCHANGED << input, db, task, plan, tries, reply, openReply, crashes >>

\* expireStale and ExpirePendingReference.  The TTL may run out at any time.
\* The lock, the check and the writes meet nobody in between: one step.
Expired(t) == [txs[t] EXCEPT !.status = "FAILED", !.failure = "REFERENCE_EXPIRED"]

\* ListStalePendingReferenceIDs, whatever was tried before.
Stale_FirstTryBug(t) == txs[t].status = "PENDING_REFERENCE" /\ txs[t].attempts = 0
Stale(t) == txs[t].status = "PENDING_REFERENCE"

Expire(t) ==
    /\ Stale(t)
    /\ \A q \in Workers : ~ HoldsRow(q, t)
    /\ txs' = [txs EXCEPT ![t] = Expired(t)]
    /\ events' = [events EXCEPT ![t] = Append(@, Event("Expired", 0))]
    /\ UNCHANGED << input, wallets, ledger, session, openReply, crashes >>

--------------------------------------------------------------------------------
AllAnswered == \A r \in Requests : pc[r] = "done"

\* Every call answered, nothing pending: the system rests.
Rests ==
    /\ AllAnswered
    /\ \A p \in Workers : pc[p] = "idle"
    /\ \A t \in Requests : txs[t].status # "PENDING_REFERENCE"
    /\ \A w \in Wallets : openReply[w] # "none"
    /\ UNCHANGED vars

RequestStep(r) ==
    \/ RefuseKind(r) \/ FindByKey(r) \/ FindByOp(r) \/ ReplayCurrent(r)
    \/ FindWallet(r) \/ Insert(r)
CommonStep(p) == FindReference(p) \/ FindReversal(p) \/ Save(p) \/ Commit(p)
WorkerStep(p) == LockRow(p) \/ ResumeWallet(p) \/ \E t \in Requests : List(p, t)

Next ==
    \/ \E w \in Wallets : OpenWallet(w)
    \/ \E r \in Requests : RequestStep(r)
    \/ \E p \in Workers : WorkerStep(p)
    \/ \E p \in Sessions : CommonStep(p) \/ Crash(p)
    \/ \E t \in Requests : Expire(t)
    \/ Rests

Spec == Init /\ [][Next]_vars

\* Every session is scheduled.  The worker's ticker never stops, so expiry is
\* tried again and again; the queue of a PostgreSQL row lock is served in order,
\* so a try that finds the row locked is not overtaken for ever.
Fairness ==
    /\ \A r \in Requests : WF_vars(RequestStep(r) \/ CommonStep(r))
    /\ \A p \in Workers : WF_vars(WorkerStep(p) \/ CommonStep(p))
    /\ \A t \in Requests : SF_vars(Expire(t))

FairSpec == Spec /\ Fairness

--------------------------------------------------------------------------------
(* Properties.                                                               *)

Codes == {"none", "draft", "ok", "conflict", "unsupportedKind", "walletNotFound",
          "playerMismatch", "invalid", "overflow", "internal", "tooManyRetries", "lost"}
RequestPcs == {"byKey", "byOp", "replay", "wallet", "insert", "reference",
               "reversal", "save", "commit", "done"}
WorkerPcs  == {"idle", "lock", "resume", "reference", "reversal", "save", "commit"}
Amounts    == 0..MaxMinor
Failures   == FailureCodes \cup {NoFailure}

WalletRows == [balance : Amounts, version : Nat]
Rows == [status : Statuses \cup {"ABSENT"}, resolved : Requests \cup {None},
         failure : Failures, result : Amounts \cup {Null}, attempts : 0..MaxAttempts]
Entries == [tx : TxIds, dir : {"DEBIT", "CREDIT"}, amount : Amounts,
            before : Amounts, after : Amounts]
Events == [type : {"Processed", "BalanceChanged", "Rejected", "PendingReference", "Expired"},
           version : Nat]
PlanRecords == [do : {"none", "settle", "loss", "reject", "pend", "retry"},
           code : Failures, ref : Requests \cup {None}]
ReplyRecords == [code : Codes, tx : Requests \cup {None},
                 status : Statuses \cup {"ABSENT"}, failure : Failures,
                 balance : Amounts \cup {Null}, replay : BOOLEAN]

RowsTypeOK ==
    /\ wallets \in [Wallets -> WalletRows]
    /\ txs \in [TxIds -> Rows]
    /\ ledger \in [Wallets -> Seq(Entries)]
    /\ events \in [TxIds -> Seq(Events)]

SessionsTypeOK ==
    /\ pc \in [Sessions -> RequestPcs \cup WorkerPcs]
    /\ task \in [Sessions -> Requests \cup {None}]
    /\ \A r \in Requests : pc[r] \in RequestPcs /\ task[r] = r
    /\ \A p \in Workers : pc[p] \in WorkerPcs /\ (task[p] = None <=> pc[p] = "idle")
    /\ snap \in [Sessions -> WalletRows]
    /\ plan \in [Sessions -> PlanRecords]
    /\ tries \in [Requests -> 0..(MaxRetries - 1)]
    /\ reply \in [Requests -> ReplyRecords]

\* Every variable keeps its type.  In particular no committed balance, result or
\* entry is negative or beyond int64: Debit and Credit decide on a snapshot and
\* the result is stored later (wallet.go:107-148, wallet_repository.go:60-74).
TypeOK ==
    /\ input \in [Requests -> Inputs]
    /\ RowsTypeOK
    /\ SessionsTypeOK
    /\ openReply \in [Wallets -> {"unasked", "none", "ok", "alreadyExists"}]
    /\ crashes \in 0..MaxCrashes

\* The entries of a wallet chain from zero to its balance, each computed from
\* the one before: no settlement overwrites another (lost update), whatever
\* snapshots the sessions decided on (process_wager_transaction.go:354, 535).
Chains(w) ==
    /\ \A i \in 1..Len(ledger[w]) :
          LET e == ledger[w][i] IN
          /\ e.before = IF i = 1 THEN 0 ELSE ledger[w][i - 1].after
          /\ e.after = Applied(e.dir, e.before, e.amount)
    /\ wallets[w].balance =
          IF ledger[w] = <<>> THEN 0 ELSE ledger[w][Len(ledger[w])].after

\* Every wallet's entries chain to its balance: settlements of concurrent
\* sessions never lose one another (wallet_repository.go:60-74).
LedgerReconciles == \A w \in Wallets : Chains(w)

\* A player has one wallet per currency, and a refused opening left nothing
\* behind (open_wallet.go:132-137, migration 0001).
OnePurse ==
    /\ \A v, w \in Wallets :
          /\ IsOpen(v) /\ IsOpen(w)
          /\ PlayerOf[v] = PlayerOf[w] /\ CurrencyOf[v] = CurrencyOf[w]
          => v = w
    /\ \A w \in Wallets : openReply[w] = "alreadyExists" =>
          ledger[w] = << >> /\ txs[w] = NoRow /\ events[w] = << >>

\* The states in which a session holds a wallet row it has read.
Reading == {"insert", "reference", "reversal", "save", "commit"}

SnapshotHonest(p) ==
    LET row == wallets[Asked(p).wallet] IN
    pc[p] \in Reading =>
        /\ 0 < snap[p].version /\ snap[p].version <= row.version
        /\ snap[p].version = row.version => snap[p].balance = row.balance

PlanSound(p) ==
    /\ pc[p] = "save" => plan[p].do = "settle"
    /\ pc[p] = "commit" => plan[p].do # "none"
    /\ pc[p] \in {"save", "commit"} /\ plan[p].do = "settle" => MovedBalance(p) \in Amounts

HolderCurrent(p) ==
    pc[p] = "commit" /\ plan[p].do = "settle" =>
        snap[p].version = wallets[Asked(p).wallet].version

OneHolder ==
    \A p, q \in Sessions : \A w \in Wallets :
        HoldsWallet(p, w) /\ HoldsWallet(q, w) => p = q

SnapshotsCurrent ==
    /\ \A p \in Sessions : SnapshotHonest(p) /\ PlanSound(p) /\ HolderCurrent(p)
    /\ OneHolder

\* A stored row names an open wallet, and a worker a stored row.
RowsHaveWallets ==
    /\ \A t \in Stored : IsOpen(input[t].wallet)
    /\ \A p \in Workers : task[p] # None => task[p] \in Stored

\* Why the entries chain: a session decides on a wallet row that was committed
\* once, a settlement about to commit is the only one on its wallet, and the row
\* it read is still the current one (wallet_repository.go:60-74).
SnapshotsSound == SnapshotsCurrent /\ RowsHaveWallets

\* The version of a wallet counts its movements and nothing else, and the
\* BalanceChanged events number them without a gap (wallet.go:92-94).
MovementVersion(w, i) == IF InitialOf[w] > 0 THEN i ELSE i + 1

VersionCountsMovements ==
    \A w \in Wallets :
        /\ wallets[w].version =
              IF IsOpen(w) THEN MovementVersion(w, Len(ledger[w])) ELSE 0
        /\ \A i \in 1..Len(ledger[w]) :
              LET written == events[ledger[w][i].tx]
              IN \E k \in 1..Len(written) :
                    written[k] = Event("BalanceChanged", MovementVersion(w, i))

KindOf(t)   == IF t \in Wallets THEN "OPENING" ELSE input[t].kind
WalletOf(t) == IF t \in Wallets THEN t ELSE input[t].wallet
AmountOf(t) == IF t \in Wallets THEN InitialOf[t] ELSE input[t].amount
Moved(t)    == txs[t].status = "PROCESSED" /\ KindOf(t) # "LOSS"
Moves(t)    == UNION { {<< w, i >> : i \in {j \in 1..Len(ledger[w]) : ledger[w][j].tx = t}}
                        : w \in Wallets }

\* A row moved money exactly once if it is PROCESSED and not a LOSS, in its own
\* wallet, by its own amount and to the balance it reports; otherwise never.
EffectMatchesOutcome ==
    \A t \in TxIds :
        IF ~ Moved(t) THEN Moves(t) = {}
        ELSE \E i \in 1..Len(ledger[WalletOf(t)]) :
                /\ Moves(t) = {<< WalletOf(t), i >>}
                /\ ledger[WalletOf(t)][i].amount = AmountOf(t)
                /\ t \in Requests => ledger[WalletOf(t)][i].after = txs[t].result

\* A reversal that moved money undid the entry of its reference: opposite
\* direction, same amount, same wallet, and later (README.md:413-414).
ReversalUndoes ==
    \A t \in Requests :
        Moved(t) /\ input[t].kind \in Reversals =>
            LET u == txs[t].resolved
                w == input[t].wallet
            IN /\ u \in Requests /\ input[u].op = input[t].ref
               /\ \E i, j \in 1..Len(ledger[w]) :
                     /\ i < j
                     /\ ledger[w][i].tx = u /\ ledger[w][j].tx = t
                     /\ ledger[w][i].dir # ledger[w][j].dir
                     /\ ledger[w][i].amount = ledger[w][j].amount

\* No operation is reversed twice, by a REFUND and a ROLLBACK, by two calls or
\* by a call and the worker (README.md:422), and it is not the unique index of
\* migration 0008, whose violation the code answers with a 500, that sees to it:
\* the wallet is read before the reversal is looked up, so the version check has
\* stopped the loser of two racing reversals before it reaches the index.
ReversedOnce ==
    /\ \A t, u \in Requests :
          /\ Moved(t) /\ Moved(u)
          /\ {input[t].kind, input[u].kind} \subseteq Reversals
          /\ input[t].ref = input[u].ref
          => t = u
    /\ \A p \in Sessions : pc[p] = "commit" => ~ MeetsReversalIndex(p)

\* An operation and a key belong to one row, however the lookups of
\* resolveExisting interleave with the commits of the same call sent twice.
AppliedOnce ==
    \A t, u \in Stored :
        t # u => input[t].op # input[u].op /\ input[t].key # input[u].key

\* What a caller was told is in the database: the row exists, it is the call's
\* own content, and a final answer repeats the row's status, failure and result.
AnswersAreDurable ==
    \A r \in Requests :
        reply[r].code = "ok" =>
            LET t == reply[r].tx
                row == txs[t]
            IN /\ row.status # "ABSENT"
               /\ SameContent(input[t], input[r]) /\ input[t].key = input[r].key
               /\ reply[r].status \in Terminal =>
                     /\ row.status = reply[r].status
                     /\ row.failure = reply[r].failure
                     /\ row.result \in {Null, reply[r].balance}

\* A call is refused as a conflict only when its key or its operation belongs to
\* a call with another content or another key, never for a race with itself.
ConflictJustified ==
    \A r \in Requests :
        reply[r].code = "conflict" =>
            \E t \in Stored :
                /\ Clashes(r, t)
                /\ input[t].key # input[r].key \/ ~ SameContent(input[t], input[r])

\* A rejection, though decided on a snapshot, is one the committed history
\* justifies, and the balance it reports is one the wallet has had.
BalancesOf(w) == {ledger[w][i].after : i \in 1..Len(ledger[w])}
                     \cup (IF InitialOf[w] = 0 THEN {0} ELSE {})

Justified(t, in, row) ==
    CASE row.failure \in {"INSUFFICIENT_BALANCE", "REVERSAL_INSUFFICIENT_BALANCE"} ->
            in.amount > row.result
      [] row.failure = "CURRENCY_MISMATCH" -> in.cur # CurrencyOf[in.wallet]
      [] row.failure = "REFERENCE_MISMATCH" ->
            \E u \in Requests : /\ input[u].op = in.ref /\ txs[u].status = "PROCESSED"
                                /\ ~ Agrees(in, input[u])
      [] row.failure = "REFERENCE_NOT_PROCESSABLE" ->
            \E u \in Requests : /\ input[u].op = in.ref /\ txs[u].status \in Terminal
                                /\ txs[u].status = "PROCESSED" =>
                                      input[u].kind \notin ReferableKinds(in.kind)
      [] row.failure = "REFERENCE_ALREADY_REVERSED" ->
            \E u \in Requests \ {t} : Moved(u) /\ input[u].kind \in Reversals
                                      /\ input[u].ref = in.ref
      [] OTHER -> FALSE

RejectionJustified ==
    \A t \in Requests :
        txs[t].status = "REJECTED" =>
            /\ Justified(t, input[t], txs[t])
            /\ txs[t].result \in BalancesOf(input[t].wallet)

\* The outbox tells the story of the row, each transition once and in order:
\* nothing before it is stored, one final event, and it agrees with the status.
EventsMatchOutcome ==
    \A t \in Requests :
        LET types == [i \in 1..Len(events[t]) |-> events[t][i].type]
            final == CASE txs[t].status = "PROCESSED" /\ input[t].kind = "LOSS" ->
                              << "Processed" >>
                       [] txs[t].status = "PROCESSED" /\ input[t].kind # "LOSS" ->
                              << "Processed", "BalanceChanged" >>
                       [] txs[t].status = "REJECTED" -> << "Rejected" >>
                       [] txs[t].status = "FAILED"   -> << "Expired" >>
                       [] OTHER -> << >>
        IN CASE txs[t].status = "ABSENT" -> types = << >>
             [] txs[t].status \in {"PENDING_REFERENCE", "FAILED"} ->
                    types = << "PendingReference" >> \o final
             [] OTHER -> types \in {final, << "PendingReference" >> \o final}

\* A terminal row never changes again, an entry is never changed or removed, and
\* a row never disappears: a late worker, an expiry and a retry included.
TerminalFrozen ==
    [][/\ \A t \in TxIds :
             /\ txs[t].status \in Terminal => txs'[t] = txs[t]
             /\ txs[t].status # "ABSENT" => txs'[t].status # "ABSENT"
       /\ \A w \in Wallets :
             /\ Len(ledger'[w]) >= Len(ledger[w])
             /\ \A i \in 1..Len(ledger[w]) : ledger'[w][i] = ledger[w][i]]_vars

\* Every call is answered: waits on unique indexes and row locks end, and the
\* retry loop is bounded.
Answered == \A r \in Requests : <>(pc[r] = "done")

\* A pending reference does not stay pending: it settles, is rejected or expires,
\* however often the worker postpones it (reference_retry_worker.go:62-110).
PendingResolves ==
    \A t \in Requests :
        txs[t].status = "PENDING_REFERENCE" ~> txs[t].status \in Terminal

--------------------------------------------------------------------------------
(* A statement of the documents that the code does not keep.                 *)

\* README.md:525: replays of a finished operation return the balance observed
\* when it was processed, so two of them return the same one.  An expired row
\* stores no result and is replayed with the balance of the day.
ReplaysAgree ==
    \A r, s \in Requests :
        /\ reply[r].code = "ok" /\ reply[s].code = "ok"
        /\ reply[r].replay /\ reply[s].replay
        /\ reply[r].tx = reply[s].tx
        /\ {reply[r].status, reply[s].status} \subseteq Terminal
        => reply[r].balance = reply[s].balance
================================================================================
