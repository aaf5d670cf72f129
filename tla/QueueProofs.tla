------------------------------ MODULE QueueProofs ------------------------------
(***************************************************************************)
(* Theorem about the queue of pending references: the expiry takes no row  *)
(* that the worker had room to try, for any number of rows, any LIMIT, TTL *)
(* and backoff, whatever fails and however often the process stops.        *)
(*                                                                         *)
(* The argument: a row without attempts has no backoff to wait for, so     *)
(* every pass lists it or has a full list of older ones.  What the pass    *)
(* lists it still has to do or has tried, and time stands still in it: the *)
(* rows that come in the middle are too young for its expiry.              *)
(***************************************************************************)
EXTENDS ReferenceQueue, FiniteSetTheorems, TLAPS

\* What the variables hold, as far as the argument needs it.
Shapes ==
    /\ DOMAIN status = Rows /\ attempts \in [Rows -> Nat]
    /\ DOMAIN wait = Rows /\ age \in [Rows -> Nat]
    /\ ttl \in Nat /\ batch \subseteq Rows /\ tried \subseteq Rows
    /\ phase \in {"due", "resume", "expire", "asleep", "down"}

\* Only a row that is pending gets older, and one without attempts does not wait.
RowsHonest ==
    \A r \in Rows : /\ ~ Pending(r) => age[r] = 0
                    /\ attempts[r] = 0 => wait[r] = 0

\* A row that is old enough to be in the lists of this pass and was never tried.
Untried(r) == Pending(r) /\ age[r] > 0 /\ attempts[r] = 0

\* A set of rows took what room there was for the row.
TookRoom(S, r) == r \in S \/ Cardinality(S) = Limit

\* What a pass has done with the rows that were never tried.
PassHonest ==
    /\ phase \in {"due", "asleep", "down"} => tried = {}
    /\ phase = "resume" => \A r \in Rows : Untried(r) => TookRoom(batch \cup tried, r)
    /\ phase = "expire" =>
          /\ \A r \in Rows : Untried(r) => TookRoom(tried, r)
          /\ \A r \in batch : age[r] > 0

\* The inductive invariant of the queue.
QInv == Shapes /\ RowsHonest /\ PassHonest

--------------------------------------------------------------------------------
(* The first rows of a list.                                                  *)

\* A set of naturals that is not empty has a least element: it has one that no
\* interval shorter than its own ends in.
LEMMA HasLeast ==
    ASSUME NEW S \in SUBSET Nat, S # {}
    PROVE  \E m \in S : \A k \in S : m <= k
  <1> DEFINE T == {0..m : m \in S}
  <1>1. T \subseteq FiniteSubsetsOf(Nat)
    <2>1. ASSUME NEW m \in S PROVE 0..m \in FiniteSubsetsOf(Nat)
      <3>1. IsFiniteSet(0..m) /\ 0..m \subseteq Nat
        BY FS_Interval
      <3> QED
        BY <3>1 DEF FiniteSubsetsOf
    <2> QED
      BY <2>1
  <1>2. T # {}
    OBVIOUS
  <1>3. \E x \in T : \A y \in T : ~ (<< y, x >> \in StrictSubsetOrdering(Nat))
    <2> HIDE DEF T
    <2> QED
      BY <1>1, <1>2, WFMin, FS_StrictSubsetOrderingWellFounded
  <1>4. PICK m \in S : \A y \in T : ~ (<< y, 0..m >> \in StrictSubsetOrdering(Nat))
    BY <1>3
  <1>5. ASSUME NEW k \in S, k < m PROVE FALSE
    <2>1. 0..k \in T /\ 0..k \subseteq 0..m /\ 0..k \subseteq Nat /\ 0..m \subseteq Nat
      BY <1>5
    <2>2. 0..k # 0..m
      <3>1. m \in 0..m /\ m \notin 0..k
        BY <1>5
      <3> QED
        BY <3>1
    <2>3. << 0..k, 0..m >> \in StrictSubsetOrdering(Nat)
      BY <2>1, <2>2 DEF StrictSubsetOrdering
    <2> QED
      BY <1>4, <2>1, <2>3
  <1> QED
    BY <1>5

\* A list with a limit leaves a row out only when it is full: the first row left out
\* has as many before it as the limit, and no more, for the last of those is in.
LEMMA FirstOfIsFull ==
    ASSUME NEW S \in SUBSET Rows, NEW r \in S, r \notin FirstOf(S)
    PROVE  Cardinality(FirstOf(S)) = Limit
  <1> DEFINE Before(x) == {s \in S : s < x}
  <1>1. IsFiniteSet(S) /\ Rows \subseteq Nat /\ S \subseteq Nat
        /\ Limit \in Nat /\ Limit > 0
    <2>1. Rows \subseteq Nat
      <3>1. Cardinality(Rows) \in Nat /\ Rows = 1..Cardinality(Rows)
        BY QueueAssumption, FS_CardinalityType
      <3> QED
        BY <3>1
    <2>2. IsFiniteSet(S)
      BY QueueAssumption, FS_Subset
    <2>3. Limit \in Nat /\ Limit > 0
      BY QueueAssumption
    <2> QED
      BY <2>1, <2>2, <2>3
  <1>2. ASSUME NEW x PROVE IsFiniteSet(Before(x)) /\ Cardinality(Before(x)) \in Nat
    <2>1. Before(x) \in SUBSET S
      OBVIOUS
    <2> QED
      BY <1>1, <2>1, FS_Subset, FS_CardinalityType
  <1>3. FirstOf(S) = {x \in S : Cardinality(Before(x)) < Limit}
    BY DEF FirstOf
  <1> DEFINE Out == S \ FirstOf(S)
  <1>4. Out \in SUBSET Nat /\ Out # {}
    BY <1>1
  <1>5. PICK m \in Out : \A x \in Out : m <= x
    <2> HIDE DEF Out
    <2> QED
      BY <1>4, HasLeast
  <1>6. m \in S /\ m \in Nat /\ m \notin FirstOf(S) /\ \A x \in S : x < m => x \in FirstOf(S)
    BY <1>1, <1>5
  <1>7. Cardinality(Before(m)) >= Limit
    BY <1>1, <1>2, <1>3, <1>6
  <1>8. FirstOf(S) = Before(m)
    <2>1. ASSUME NEW x \in FirstOf(S), x > m PROVE FALSE
      <3>1. x \in S /\ Cardinality(Before(x)) < Limit
        BY <1>3
      <3>2. Before(m) \in SUBSET Before(x)
        <4>1. \A s \in S : s < m => s < x
          BY <1>1, <1>6, <2>1, <3>1
        <4> QED
          BY <4>1
      <3>3. Cardinality(Before(m)) <= Cardinality(Before(x))
        BY <1>2, <3>2, FS_Subset
      <3> QED
        BY <1>1, <1>2, <1>7, <3>1, <3>3
    <2>2. \A x \in FirstOf(S) : x \in S /\ x # m /\ ~ (x > m)
      BY <1>3, <1>6, <2>1
    <2>3. \A x \in FirstOf(S) : x \in S /\ x < m
      <3>1. ASSUME NEW x \in FirstOf(S) PROVE x \in S /\ x < m
        <4>1. x \in S /\ x \in Nat /\ x # m /\ ~ (x > m)
          BY <1>1, <2>2
        <4> QED
          BY <1>6, <4>1
      <3> QED
        BY <3>1
    <2> QED
      BY <1>6, <2>3
  <1>9. Cardinality(Before(m)) <= Limit
    <2> DEFINE Gaps == {m - x : x \in Before(m)}
    <2>1. Before(m) # {}
      BY <1>1, <1>7, FS_EmptySet
    <2>2. Gaps \in SUBSET Nat /\ Gaps # {}
      BY <1>1, <1>6, <2>1
    <2>3. PICK g \in Gaps : \A h \in Gaps : g <= h
      <3> HIDE DEF Gaps
      <3> QED
        BY <2>2, HasLeast
    <2>4. PICK y \in Before(m) : g = m - y
      BY <2>3
    <2>5. \A x \in Before(m) : x <= y
      <3>1. \A x \in Before(m) : m - y <= m - x /\ x \in Nat /\ y \in Nat
        BY <1>1, <2>3, <2>4
      <3> QED
        BY <1>6, <3>1
    <2>6. Before(m) = Before(y) \cup {y}
      <3>1. \A x \in S : x < m <=> x < y \/ x = y
        <4>1. \A x \in S : x \in Nat /\ (x < m => x <= y)
          BY <1>1, <2>5
        <4>2. y \in S /\ y \in Nat /\ y < m
          BY <1>1, <2>4
        <4> QED
          BY <1>6, <4>1, <4>2
      <3>2. y \in S
        OBVIOUS
      <3> QED
        BY <3>1, <3>2
    <2>7. y \notin Before(y)
      BY <1>1
    <2>8. Cardinality(Before(m)) = Cardinality(Before(y)) + 1
      <3>1. IsFiniteSet(Before(y))
        BY <1>2
      <3> HIDE DEF Before
      <3>2. Cardinality(Before(y) \cup {y}) = Cardinality(Before(y)) + 1
        BY <2>7, <3>1, FS_AddElement
      <3> QED
        BY <2>6, <3>2
    <2>9. Cardinality(Before(y)) < Limit
      BY <1>3, <1>8
    <2> QED
      BY <1>1, <1>2, <2>8, <2>9
  <1> QED
    BY <1>1, <1>2, <1>7, <1>8, <1>9
--------------------------------------------------------------------------------
(* Every step keeps QInv.                                                     *)

\* The first states.
LEMMA InitQInv == Init => QInv
  <1> SUFFICES ASSUME Init PROVE QInv
    OBVIOUS
  <1>1. ttl \in Nat
    BY QueueAssumption DEF Init
  <1> QED
    BY <1>1 DEF Init, QInv, Shapes, RowsHonest, PassHonest, Pending

\* Around the worker rows come and get older.
LEMMA AroundKeepsQInv ==
    ASSUME QInv, Tick \/ \E r \in Rows : Create(r) \/ Arrive(r)
    PROVE  QInv'
  <1> USE DEF QInv
  <1>1. CASE Tick
    <2>1. /\ phase \in {"asleep", "down"} /\ phase' \in {"due", "down"}
          /\ status' = status /\ attempts' = attempts /\ ttl' = ttl
          /\ batch' = batch /\ tried' = tried
          /\ wait' = [r \in Rows |-> IF wait[r] > 0 THEN wait[r] - 1 ELSE 0]
          /\ age' = [r \in Rows |-> IF Pending(r) /\ age[r] < Oldest THEN age[r] + 1
                                    ELSE age[r]]
      BY <1>1 DEF Tick, worker
    <2>2. Shapes'
      <3>1. \A r \in Rows : age[r] \in Nat
        BY DEF Shapes
      <3>2. age' \in [Rows -> Nat]
        BY <2>1, <3>1
      <3> QED
        BY <2>1, <3>2 DEF Shapes
    <2>3. RowsHonest'
      <3>1. \A r \in Rows : Pending(r)' <=> Pending(r)
        BY <2>1 DEF Pending
      <3>2. \A r \in Rows : wait[r] = 0 => wait'[r] = 0
        BY <2>1
      <3>3. \A r \in Rows : ~ Pending(r) => age'[r] = age[r]
        BY <2>1
      <3> QED
        BY <2>1, <3>1, <3>2, <3>3 DEF RowsHonest
    <2>4. PassHonest'
      BY <2>1 DEF PassHonest
    <2> QED
      BY <2>2, <2>3, <2>4
  <1>2. ASSUME NEW r \in Rows, Create(r) PROVE QInv'
    <2>1. /\ status' = [status EXCEPT ![r] = "pending"] /\ ~ Pending(r)
          /\ attempts' = attempts /\ wait' = wait /\ age' = age /\ ttl' = ttl
          /\ phase' = phase /\ batch' = batch /\ tried' = tried
      BY <1>2 DEF Create, worker, Pending
    <2>2. \A q \in Rows : q # r => (Pending(q)' <=> Pending(q))
      BY <2>1 DEF Pending, Shapes
    <2>3. age[r] = 0
      BY <2>1 DEF RowsHonest
    <2>4. \A q \in Rows : Untried(q)' => Untried(q)
      BY <2>1, <2>2, <2>3 DEF Untried
    <2>5. Shapes' /\ RowsHonest'
      BY <2>1, <2>2, <2>3 DEF Shapes, RowsHonest
    <2>6. PassHonest'
      BY <2>1, <2>4 DEF PassHonest, TookRoom
    <2> QED
      BY <2>5, <2>6
  <1>3. ASSUME NEW r \in Rows, Arrive(r) PROVE QInv'
    BY <1>3 DEF Arrive, row, worker, Shapes, RowsHonest, PassHonest, Pending, Untried, TookRoom
  <1> QED
    BY <1>1, <1>2, <1>3

\* Lists, and the passes they begin and end: the rows do not change.
LEMMA ListsKeepQInv ==
    ASSUME QInv, ListPending \/ ListStale \/ EndOfPass \/ ListFails \/ Start \/ Stop
    PROVE  QInv'
  <1> USE DEF QInv
  <1>1. /\ status' = status /\ attempts' = attempts /\ wait' = wait /\ age' = age
        /\ ttl' = ttl
    BY DEF ListPending, ListStale, EndOfPass, ListFails, Start, Stop, Sleeps, row
  <1>2. RowsHonest' /\ \A r \in Rows : Untried(r)' <=> Untried(r)
    BY <1>1 DEF RowsHonest, Untried, Pending
  <1>3. \A S \in SUBSET Rows : FirstOf(S) \subseteq S
    BY DEF FirstOf
  <1>4. CASE ListPending
    <2>1. /\ phase' = "resume" /\ batch' = FirstOf(Listable) /\ tried' = tried /\ tried = {}
      BY <1>4 DEF ListPending, Enters, PassHonest
    <2>2. Listable \subseteq Rows
      BY DEF Listable
    <2>3. ASSUME NEW r \in Rows, Untried(r) PROVE TookRoom(batch', r)
      <3>1. r \in Listable
        BY <2>3 DEF Untried, Listable, RowsHonest
      <3> QED
        BY <2>1, <2>2, <3>1, FirstOfIsFull DEF TookRoom
    <2>4. batch' \cup tried' = batch'
      BY <2>1
    <2>5. PassHonest'
      BY <1>2, <2>1, <2>3, <2>4 DEF PassHonest, TookRoom
    <2>6. Shapes'
      BY <1>1, <1>3, <2>1, <2>2 DEF Shapes
    <2> QED
      BY <1>2, <2>5, <2>6
  <1>5. CASE ListStale
    <2>1. /\ phase = "resume" /\ batch = {}
          /\ IF ttl = 0 THEN phase' = "asleep" /\ batch' = {} /\ tried' = {}
             ELSE phase' = "expire" /\ batch' = FirstOf(Stale) /\ tried' = tried
      BY <1>5 DEF ListStale, AllEnded, Enters
    <2>2. Stale \subseteq Rows /\ \A r \in Stale : age[r] > 0
      <3>1. \A r \in Stale : r \in Rows /\ age[r] > ttl /\ age[r] \in Nat /\ ttl \in Nat
        BY DEF Stale, Shapes
      <3> QED
        BY <3>1
    <2>3. Shapes'
      BY <1>1, <1>3, <2>1, <2>2 DEF Shapes
    <2>4. batch \cup tried = tried
      BY <2>1
    <2>5. CASE ttl = 0
      BY <1>2, <2>1, <2>3, <2>5 DEF PassHonest
    <2>6. CASE ttl # 0
      <3>1. \A r \in Rows : Untried(r) => TookRoom(tried, r)
        BY <2>1, <2>4 DEF PassHonest
      <3>2. \A r \in batch' : age'[r] > 0
        BY <1>1, <1>3, <2>1, <2>2, <2>6
      <3>3. \A r \in Rows : Untried(r)' => TookRoom(tried', r)
        BY <1>2, <2>1, <2>6, <3>1
      <3>4. PassHonest'
        BY <2>1, <2>6, <3>2, <3>3 DEF PassHonest, TookRoom
      <3> QED
        BY <1>2, <2>3, <3>4
    <2> QED
      BY <2>5, <2>6
  <1>6. CASE EndOfPass \/ ListFails \/ Start \/ Stop
    <2>1. /\ phase' \in {"due", "asleep", "down"} /\ batch' = {} /\ tried' = {}
      BY <1>6 DEF EndOfPass, ListFails, Start, Stop, Sleeps, Enters, PassHonest
    <2> QED
      BY <1>1, <1>2, <2>1 DEF PassHonest, Shapes
  <1> QED
    BY <1>4, <1>5, <1>6

\* What a transaction of the worker does to its row leaves no row untried that was
\* not, and a row that leaves the batch of resumptions is one that was tried.
LEMMA TakesKeepQInv ==
    ASSUME QInv, NEW r \in Rows, Resume(r) \/ Expire(r) \/ TransactionFails(r)
    PROVE  QInv'
  <1> USE DEF QInv
  <1>1. /\ r \in batch /\ batch' = batch \ {r} /\ phase' = phase /\ ttl' = ttl
        /\ phase \in {"resume", "expire"}
        /\ tried' = IF phase = "resume" THEN tried \cup {r} ELSE tried
    BY DEF Resume, Expire, TransactionFails, Takes
  <1>2. \/ Ends(r, "resolved") \/ Ends(r, "expired")
        \/ /\ attempts' = [attempts EXCEPT ![r] = OneMore(@)]
           /\ wait' = [wait EXCEPT ![r] = Backoff(attempts[r] + 1)]
           /\ status' = status /\ age' = age
        \/ status' = status /\ attempts' = attempts /\ wait' = wait /\ age' = age
    BY DEF Resume, Expire, TransactionFails, row
  <1>3. attempts[r] \in Nat /\ OneMore(attempts[r]) \in Nat /\ OneMore(attempts[r]) # 0
    BY QueueAssumption DEF OneMore, Shapes
  <1>4. /\ DOMAIN status' = Rows /\ attempts' \in [Rows -> Nat]
        /\ DOMAIN wait' = Rows /\ age' \in [Rows -> Nat]
    BY <1>2, <1>3 DEF Ends, Shapes
  <1>5. /\ \A q \in Rows : q # r => /\ status'[q] = status[q] /\ attempts'[q] = attempts[q]
                                    /\ wait'[q] = wait[q] /\ age'[q] = age[q]
        /\ \/ status'[r] # "pending" /\ attempts'[r] = 0 /\ wait'[r] = 0 /\ age'[r] = 0
           \/ status'[r] = status[r] /\ attempts'[r] # 0 /\ age'[r] = age[r]
           \/ /\ status'[r] = status[r] /\ attempts'[r] = attempts[r]
              /\ wait'[r] = wait[r] /\ age'[r] = age[r]
    BY <1>2, <1>3 DEF Ends, Shapes
  <1>6. Shapes'
    BY <1>1, <1>4 DEF Shapes
  <1>7. RowsHonest' /\ \A q \in Rows : Untried(q)' => Untried(q)
    BY <1>5 DEF RowsHonest, Untried, Pending
  <1>8. CASE phase = "resume"
    <2>1. batch' \cup tried' = batch \cup tried
      BY <1>1, <1>8
    <2> QED
      BY <1>1, <1>6, <1>7, <1>8, <2>1 DEF PassHonest, TookRoom
  <1>9. CASE phase = "expire"
    <2>1. \A q \in batch' : age'[q] > 0
      BY <1>1, <1>5, <1>9 DEF PassHonest, Shapes
    <2>2. tried' = tried
      BY <1>1, <1>9
    <2> QED
      BY <1>1, <1>6, <1>7, <1>9, <2>1, <2>2 DEF PassHonest, TookRoom
  <1> QED
    BY <1>1, <1>8, <1>9

\* Every step keeps the invariant.
LEMMA NextQInv == QInv /\ [Next]_vars => QInv'
  <1> SUFFICES ASSUME QInv, [Next]_vars PROVE QInv'
    OBVIOUS
  <1>1. CASE UNCHANGED vars
    BY <1>1 DEF QInv, Shapes, RowsHonest, PassHonest, Pending, Untried, TookRoom,
                vars, row, worker
  <1>2. CASE Tick \/ \E r \in Rows : Create(r) \/ Arrive(r)
    BY <1>2, AroundKeepsQInv
  <1>3. CASE ListPending \/ ListStale \/ EndOfPass \/ ListFails \/ Start \/ Stop
    BY <1>3, ListsKeepQInv
  <1>4. ASSUME NEW r \in Rows, Resume(r) \/ Expire(r) \/ TransactionFails(r) PROVE QInv'
    BY <1>4, TakesKeepQInv
  <1> QED
    BY <1>1, <1>2, <1>3, <1>4 DEF Next, WorkerStep

--------------------------------------------------------------------------------
(* Theorem.                                                                   *)

\* The expiry takes no row that the worker had room to try: one that expires was
\* tried before, in this pass or an earlier one, or the pass was full of older rows
\* (reference_retry_worker.go:68-85).
THEOREM ExpiryComesAfterTrying == Spec => TriedBeforeExpired
  <1> DEFINE Tried(r) == Pending(r) /\ status'[r] = "expired" =>
                 attempts[r] > 0 \/ r \in tried \/ Cardinality(tried) = Limit
  <1>1. QInv /\ [Next]_vars => [\A r \in Rows : Tried(r)]_vars
    <2> SUFFICES ASSUME QInv, Next, NEW r \in Rows, Pending(r), status'[r] = "expired"
                 PROVE  attempts[r] > 0 \/ r \in tried \/ Cardinality(tried) = Limit
      OBVIOUS
    <2>0. attempts[r] \in Nat
      BY DEF QInv, Shapes
    <2>1. PICK q \in Rows : Expire(q) /\ q = r
      <3>1. status[r] = "pending" /\ DOMAIN status = Rows
        BY DEF Pending, QInv, Shapes
      <3>2. status' # status
        BY <3>1
      <3>3. \E q \in Rows : Create(q) \/ Resume(q) \/ Expire(q)
        BY <3>2 DEF Next, WorkerStep, ListPending, ListStale, EndOfPass, ListFails, Start, Stop,
                    Sleeps, Tick, Arrive, TransactionFails, row
      <3>4. PICK q \in Rows : Create(q) \/ Resume(q) \/ Expire(q)
        BY <3>3
      <3>5. ~ Create(q) /\ ~ Resume(q)
        BY <3>1, <3>2 DEF Create, Resume, Ends, row
      <3>6. status' = [status EXCEPT ![q] = "expired"]
        BY <3>4, <3>5 DEF Expire, Ends
      <3> QED
        BY <3>1, <3>4, <3>5, <3>6
    <2>2. phase = "expire" /\ r \in batch
      BY <2>1 DEF Expire, Takes
    <2>3. age[r] > 0
      BY <2>2 DEF QInv, PassHonest
    <2> QED
      BY <2>0, <2>2, <2>3 DEF QInv, PassHonest, Untried, TookRoom
  <1>2. Spec => []QInv
    BY InitQInv, NextQInv, PTL DEF Spec
  <1> QED
    BY <1>1, <1>2, PTL DEF Spec, TriedBeforeExpired
================================================================================
