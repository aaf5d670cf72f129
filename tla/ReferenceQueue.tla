----------------------------- MODULE ReferenceQueue -----------------------------
(***************************************************************************)
(* The queue of the rows in PENDING_REFERENCE, as ReferenceRetryWorker     *)
(* serves it: once a second it resumes the oldest rows whose backoff is    *)
(* over, no more than a LIMIT, waits for them, and then expires the oldest *)
(* rows older than the TTL, no more than a LIMIT.  What a resumption does  *)
(* to the ledger, and how two workers meet on one row, is in WagerLedger;  *)
(* here it is when a row's turn comes.                                     *)
(*                                                                         *)
(* Time is the ticker of the worker: a Tick is a second.  A row is the     *)
(* number of its place in ORDER BY created_at, id.                         *)
(***************************************************************************)
EXTENDS Integers, FiniteSets, FiniteSetsExt

(* An operator whose name ends in Bug is a mistake the code could contain.  *)
(* No specification uses it: each shows that a property notices it.         *)

CONSTANTS
    Rows,           \* the rows that may ever be pending, 1..N
    Limit,          \* of both lists (32 in the code)
    TTLs,           \* REFERENCE_PENDING_TTL, in ticks; 0 turns expiry off
    MaxBackoff,     \* the longest backoff, in ticks (30)
    MaxShift,       \* attempts beyond which no shift is computed (5)
    MaxFailures     \* BOUND: statements that fail and processes that stop

ASSUME QueueAssumption ==
    /\ IsFiniteSet(Rows) /\ Rows = 1..Cardinality(Rows)
    /\ {Limit, MaxBackoff} \subseteq Nat \ {0}
    /\ TTLs \subseteq Nat /\ MaxShift \in Nat /\ MaxFailures \in Nat
    /\ MaxBackoff <= 2 ^ (MaxShift + 1)

VARIABLES
    status,         \* of each row
    attempts, wait, \* reference_retry_attempts; ticks to reference_next_retry_at
    age,            \* ticks since created_at
    arrived,        \* whether the row's reference has been processed
    stuck,          \* rows whose credit overflows the balance whenever tried
    ttl,
    phase, batch,   \* of the worker: what it does, and the ids still to do
    tried,          \* history: the ids this pass has resumed
    failures

row    == << status, attempts, wait, age >>
worker == << phase, batch, tried >>
vars   == << row, arrived, stuck, ttl, worker, failures >>

Pending(r) == status[r] = "pending"
Oldest     == IF ttl = 0 THEN 0 ELSE ttl + 1   \* BOUND: age saturates here

Init ==
    /\ status = [r \in Rows |-> "absent"]
    /\ attempts = [r \in Rows |-> 0] /\ wait = [r \in Rows |-> 0]
    /\ age = [r \in Rows |-> 0]
    /\ arrived = [r \in Rows |-> FALSE]
    /\ stuck \in SUBSET Rows
    /\ ttl \in TTLs
    /\ phase = "due" /\ batch = {} /\ tried = {}
    /\ failures = 0

--------------------------------------------------------------------------------
(* Around the worker.                                                       *)

\* A call is stored as PENDING_REFERENCE: no attempt yet, due at once.
Create(r) ==
    /\ status[r] = "absent"
    /\ \A s \in Rows : s < r => status[s] # "absent"
    /\ status' = [status EXCEPT ![r] = "pending"]
    /\ UNCHANGED << attempts, wait, age, arrived, stuck, ttl, worker, failures >>

Arrive(r) ==
    /\ Pending(r) /\ ~ arrived[r]
    /\ arrived' = [arrived EXCEPT ![r] = TRUE]
    /\ UNCHANGED << row, stuck, ttl, worker, failures >>

\* A pass takes less than a tick.  While the process is down time goes on.
Tick ==
    /\ phase \in {"asleep", "down"}
    /\ wait' = [r \in Rows |-> IF wait[r] > 0 THEN wait[r] - 1 ELSE 0]
    /\ age' = [r \in Rows |-> IF Pending(r) /\ age[r] < Oldest THEN age[r] + 1 ELSE age[r]]
    /\ phase' = IF phase = "asleep" THEN "due" ELSE phase
    /\ UNCHANGED << status, attempts, arrived, stuck, ttl, batch, tried, failures >>

--------------------------------------------------------------------------------
(* Whose turn it is.                                                         *)

Listable == {r \in Rows : Pending(r) /\ wait[r] = 0}
Stale_TriedBug == {r \in Rows : Pending(r) /\ age[r] > ttl /\ attempts[r] > 0}
Stale    == {r \in Rows : Pending(r) /\ age[r] > ttl}

\* ORDER BY created_at, id LIMIT.
FirstOf(S) == {r \in S : Cardinality({s \in S : s < r}) < Limit}

\* referenceRetryBackoff: two ticks after the first attempt, and doubling.
Backoff_NoneBug(n) == 0
Backoff(n) ==
    IF n < 1 THEN 1
    ELSE IF n > MaxShift THEN MaxBackoff
    ELSE Min({2 ^ n, MaxBackoff})

\* BOUND: the counter saturates where the backoff no longer grows.
OneMore(n) == IF n <= MaxShift THEN n + 1 ELSE n

--------------------------------------------------------------------------------
(* A pass of the worker.                                                     *)

Enters(name, ids) == phase' = name /\ batch' = ids

ListPending ==
    /\ phase = "due"
    /\ Enters("resume", FirstOf(Listable))
    /\ UNCHANGED << row, arrived, stuck, ttl, tried, failures >>

\* A goroutine per id: they end in any order, and the row lock and the status
\* check behind it find the row as it is by then.
Takes(r) ==
    /\ r \in batch
    /\ batch' = batch \ {r}
    /\ UNCHANGED << phase, stuck, ttl >>

\* Nobody reads the other columns of a row that has ended: they go to zero.
Ends(r, outcome) ==
    /\ status' = [status EXCEPT ![r] = outcome]
    /\ attempts' = [attempts EXCEPT ![r] = 0] /\ wait' = [wait EXCEPT ![r] = 0]
    /\ age' = [age EXCEPT ![r] = 0] /\ arrived' = [arrived EXCEPT ![r] = FALSE]

\* ResumePendingReference settles or rejects the row, notes the attempt, or fails
\* with the overflow, which rolls back and notes nothing.
Resume(r) ==
    /\ phase = "resume"
    /\ Takes(r)
    /\ tried' = tried \cup {r}
    /\ \/ arrived[r] /\ r \notin stuck /\ Ends(r, "resolved")
       \/ /\ ~ arrived[r]
          /\ attempts' = [attempts EXCEPT ![r] = OneMore(@)]
          /\ wait' = [wait EXCEPT ![r] = Backoff(attempts[r] + 1)]
          /\ UNCHANGED << status, age, arrived >>
       \/ arrived[r] /\ r \in stuck /\ UNCHANGED << row, arrived >>
    /\ UNCHANGED failures

\* wg.Wait: the expiry begins when every resumption has ended, failed or not.
AllEnded_NoWaitBug == TRUE
AllEnded == batch = {}

ListStale ==
    /\ phase = "resume" /\ AllEnded
    /\ IF ttl = 0 THEN Enters("asleep", {}) ELSE Enters("expire", FirstOf(Stale))
    /\ tried' = IF ttl = 0 THEN {} ELSE tried
    /\ UNCHANGED << row, arrived, stuck, ttl, failures >>

\* ExpirePendingReference: the status, whatever has arrived meanwhile.
Expire(r) ==
    /\ phase = "expire"
    /\ Takes(r)
    /\ Ends(r, "expired")
    /\ UNCHANGED << tried, failures >>

Sleeps ==
    /\ Enters("asleep", {}) /\ tried' = {}
    /\ UNCHANGED << row, arrived, stuck, ttl >>

EndOfPass == phase = "expire" /\ batch = {} /\ Sleeps /\ UNCHANGED failures

\* A list fails: the pass is over, its expiry included.
ListFails ==
    /\ phase = "due" \/ (phase = "resume" /\ batch = {} /\ ttl > 0)
    /\ failures < MaxFailures /\ failures' = failures + 1
    /\ Sleeps

\* The transaction of one id fails, by a version conflict or a lost connection:
\* logged, and nothing changes.
TransactionFails(r) ==
    /\ phase \in {"resume", "expire"}
    /\ Takes(r)
    /\ failures < MaxFailures /\ failures' = failures + 1
    /\ tried' = IF phase = "resume" THEN tried \cup {r} ELSE tried
    /\ UNCHANGED << row, arrived >>

\* The process stops, in the middle of a pass or not, and starts again later with
\* the rows as they are.
Stop ==
    /\ phase # "down"
    /\ failures < MaxFailures /\ failures' = failures + 1
    /\ Enters("down", {}) /\ tried' = {}
    /\ UNCHANGED << row, arrived, stuck, ttl >>

Start ==
    /\ phase = "down"
    /\ Enters("due", {})
    /\ UNCHANGED << row, arrived, stuck, ttl, tried, failures >>

WorkerStep ==
    \/ ListPending \/ ListStale \/ EndOfPass \/ ListFails \/ Start
    \/ \E r \in Rows : Resume(r) \/ Expire(r) \/ TransactionFails(r)

Next ==
    \/ WorkerStep \/ Tick \/ Stop
    \/ \E r \in Rows : Create(r) \/ Arrive(r)

Spec == Init /\ [][Next]_vars

\* The process is started again, its goroutines run, and its ticker ticks.
Fairness == WF_vars(WorkerStep) /\ WF_vars(Tick /\ phase = "asleep")

FairSpec == Spec /\ Fairness

--------------------------------------------------------------------------------
(* Properties.                                                               *)

\* The expiry takes no row that the worker had room to try: one that expires was
\* tried before, in this pass or an earlier one, or the pass was full of older
\* rows, as the first after a long stop may be (reference_retry_worker.go:68-85).
TriedBeforeExpired ==
    [][\A r \in Rows :
          Pending(r) /\ status'[r] = "expired" =>
              attempts[r] > 0 \/ r \in tried \/ Cardinality(tried) = Limit]_vars

\* What the backoff is for: rows whose reference does not come, the older ones
\* first in every list, do not keep the worker from a row that can be settled.
\* It holds with expiry off, while the rows that overflow, which note no attempt
\* and come back every tick, leave a place in the list, and while the others fit
\* in the places of one backoff (wagertx.go:421-425).
RoomFor(r) ==
    LET free == Limit - Cardinality(stuck)
    IN free > 0 /\ Cardinality(Rows \ stuck) <= free * MaxBackoff

NoneStarves ==
    \A r \in Rows :
        ttl = 0 /\ Pending(r) /\ arrived[r] /\ r \notin stuck /\ RoomFor(r)
            ~> status[r] = "resolved"

\* With a TTL every pending row ends, the rows that overflow and any number of
\* rows behind them included (reference_retry_worker.go:86-110).
EveryRowEnds ==
    \A r \in Rows : ttl > 0 /\ Pending(r) ~> status[r] \in {"resolved", "expired"}
================================================================================
