----------------------------- MODULE ConsumerProofs -----------------------------
(***************************************************************************)
(* Theorems about the consumer and its inbox, for any number of messages,  *)
(* groups and server instances: one effect per id, nothing removed before  *)
(* its commit, and nothing in the dead-letter queue without that many      *)
(* failures.                                                               *)
(*                                                                         *)
(* The last is an argument about deliveries.  While the id of a message    *)
(* that could be handled has no inbox row, every delivery of it but one    *)
(* has ended, and each ended in a failure, a stop or an overrun            *)
(* visibility.  The one that has not is the current delivery, in the batch *)
(* of a consumer; the queue redrives no message that has such a delivery.  *)
(*                                                                         *)
(* From the first two follows that the consumers are a channel as Delivery *)
(* has it, and one that never has a reason to hand an id over twice.       *)
(***************************************************************************)
EXTENDS Consumer, FiniteSetTheorems, TLAPS

\* The current delivery of a message is in the batch of a consumer.
Underway(m) == \E c \in Consumers : \E d \in InHand(c) : d.msg = m /\ IsCurrent(d)

\* A message that would be handled if nothing went wrong, and has not been.
Awaited(m) == BodyOf[m] \in Valid \ Refused /\ inbox[IdOf[m]] = None

\* What went wrong so far pays for every delivery that has ended.
Paid(m) ==
    Awaited(m) => receives[m] <= failures + stops + slow + (IF Underway(m) THEN 1 ELSE 0)

\* Between its inbox row and its commit a consumer has the id for itself, and
\* before it removes a message the id of it is committed.
OneInserts ==
    /\ \A c \in Consumers : pc[c] = "process" => inbox[IdOf[Current(c)]] = None
    /\ \A c \in Consumers : pc[c] = "delete" => inbox[IdOf[Current(c)]] # None
    /\ \A c, o \in Consumers :
          pc[c] = "process" /\ pc[o] = "process" /\ IdOf[Current(c)] = IdOf[Current(o)]
          => c = o

\* What is in the dead-letter queue got there after its last delivery.
DeadAfterAll == \A m \in Messages : place[m] = "dead" => receives[m] = MaxReceives

\* The inductive invariant of the consumer.
CInv ==
    /\ OneInserts /\ OneEffectPerId /\ RemovedAfterCommit /\ DeadAfterAll
    /\ \A m \in Messages : Paid(m)

--------------------------------------------------------------------------------
(* A batch in order.                                                          *)

\* Numbers have an increasing enumeration: each at the place its rank gives it.
LEMMA Enumerates ==
    ASSUME NEW S, IsFiniteSet(S), S \subseteq Nat
    PROVE  \E s \in [1..Cardinality(S) -> S] : \A i, j \in DOMAIN s : i < j => s[i] < s[j]
  <1> DEFINE n == Cardinality(S)
             UpTo(x) == {y \in S : y <= x}
             rank == [x \in S |-> Cardinality(UpTo(x))]
  <1>1. n \in Nat
    BY FS_CardinalityType
  <1>2. ASSUME NEW x \in S PROVE rank[x] \in 1..n /\ IsFiniteSet(UpTo(x))
    <2>1. UpTo(x) \in SUBSET S
      OBVIOUS
    <2>2. IsFiniteSet(UpTo(x)) /\ Cardinality(UpTo(x)) <= n
      BY <2>1, FS_Subset
    <2>3. x \in UpTo(x)
      OBVIOUS
    <2>4. Cardinality(UpTo(x)) \in Nat /\ Cardinality(UpTo(x)) # 0
      BY <2>2, <2>3, FS_CardinalityType, FS_EmptySet
    <2> QED
      BY <1>1, <2>2, <2>4
  <1>3. ASSUME NEW x \in S, NEW y \in S, x < y PROVE rank[x] < rank[y]
    <2>1. UpTo(x) \in SUBSET UpTo(y)
      <3>1. \A z \in S : z <= x => z <= y
        BY <1>3
      <3> QED
        BY <3>1
    <2>2. UpTo(x) # UpTo(y)
      <3>1. y \in UpTo(y) /\ y \notin UpTo(x)
        BY <1>3
      <3> QED
        BY <3>1
    <2>3. Cardinality(UpTo(x)) <= Cardinality(UpTo(y))
          /\ Cardinality(UpTo(x)) # Cardinality(UpTo(y))
      BY <1>2, <2>1, <2>2, FS_Subset
    <2> QED
      BY <1>1, <1>2, <2>3
  <1>4. rank \in [S -> 1..n]
    BY <1>2
  <1>5. \A x, y \in S : rank[x] = rank[y] => x = y
    <2>1. \A x, y \in S : x < y \/ y < x \/ x = y
      OBVIOUS
    <2> QED
      BY <1>1, <1>2, <1>3, <2>1
  <1>6. \A i \in 1..n : \E x \in S : rank[x] = i
    <2>1. rank \in Injection(S, 1..n)
      BY <1>4, <1>5 DEF Injection, IsInjective
    <2>2. IsFiniteSet(1..n) /\ Cardinality(1..n) = n
      BY <1>1, FS_Interval
    <2>3. rank \in Surjection(S, 1..n)
      BY <2>1, <2>2, FS_Injection
    <2> QED
      BY <2>3 DEF Surjection
  <1> DEFINE s == [i \in 1..n |-> CHOOSE x \in S : rank[x] = i]
  <1>7. \A i \in 1..n : s[i] \in S /\ rank[s[i]] = i
    BY <1>6
  <1>8. s \in [1..n -> S]
    BY <1>7
  <1>9. ASSUME NEW i \in 1..n, NEW j \in 1..n, i < j PROVE s[i] < s[j]
    <2>1. /\ s[i] \in S /\ s[j] \in S /\ rank[s[i]] = i /\ rank[s[j]] = j
          /\ s[i] \in Nat /\ s[j] \in Nat
      BY <1>7
    <2> HIDE DEF s, rank
    <2>2. s[i] < s[j] \/ s[j] < s[i] \/ s[i] = s[j]
      BY <2>1
    <2>3. s[j] < s[i] => rank[s[j]] < rank[s[i]]
      BY <1>3, <2>1
    <2> QED
      BY <1>9, <2>1, <2>2, <2>3
  <1> QED
    BY <1>8, <1>9

\* The batch of a delivery has every message of the set once.
LEMMA InOrderIsAll ==
    ASSUME NEW S, S \subseteq Messages
    PROVE  /\ Cardinality(S) \in Nat
           /\ InOrder(S) \in [1..Cardinality(S) -> S]
           /\ \A m \in S : \E i \in 1..Cardinality(S) : InOrder(S)[i] = m
  <1> DEFINE n == Cardinality(S)
             Increases(s) == \A i, j \in DOMAIN s : i < j => s[i] < s[j]
             t == InOrder(S)
  <1>1. IsFiniteSet(S) /\ S \subseteq Nat /\ n \in Nat
    BY ConsumerAssumption, FS_Subset, FS_CardinalityType
  <1>2. t \in [1..n -> S] /\ Increases(t)
    <2>1. \E s \in [1..n -> S] : Increases(s)
      BY <1>1, Enumerates
    <2>2. t = CHOOSE s \in [1..n -> S] : Increases(s)
      BY DEF InOrder
    <2> QED
      BY <2>1, <2>2
  <1>3. \A i, j \in 1..n : t[i] = t[j] => i = j
    <2>1. ASSUME NEW i \in 1..n, NEW j \in 1..n, i < j PROVE t[i] # t[j]
      <3>1. t[i] < t[j] /\ t[i] \in Nat /\ t[j] \in Nat
        BY <1>1, <1>2, <2>1
      <3> QED
        BY <3>1
    <2> QED
      BY <1>1, <2>1
  <1>4. t \in Injection(1..n, S)
    BY <1>2, <1>3 DEF Injection, IsInjective
  <1>5. IsFiniteSet(1..n) /\ Cardinality(1..n) = n
    BY <1>1, FS_Interval
  <1>6. t \in Surjection(1..n, S)
    BY <1>1, <1>4, <1>5, FS_Injection
  <1> QED
    BY <1>1, <1>2, <1>6 DEF Surjection

--------------------------------------------------------------------------------
(* Types.                                                                     *)

\* A consumer at work has a current message.
LEMMA HasCurrent ==
    ASSUME TypeOK, NEW c \in Consumers, pc[c] # "idle"
    PROVE  /\ batch[c] \in Seq(Deliveries) /\ Len(batch[c]) \in Nat /\ Len(batch[c]) >= 1
           /\ DOMAIN batch[c] = 1..Len(batch[c])
           /\ batch[c][1] \in Deliveries /\ batch[c][1] \in InHand(c)
           /\ Current(c) \in Messages /\ IdOf[Current(c)] \in Ids
  <1>1. batch[c] \in Seq(Deliveries) /\ batch[c] # << >>
    BY DEF TypeOK
  <1>2. Len(batch[c]) \in Nat /\ Len(batch[c]) >= 1 /\ DOMAIN batch[c] = 1..Len(batch[c])
    BY <1>1
  <1>3. batch[c][1] \in Deliveries /\ batch[c][1] \in InHand(c)
    BY <1>1, <1>2 DEF InHand
  <1>4. Current(c) \in Messages
    BY <1>3 DEF Current, Deliveries
  <1> QED
    BY <1>1, <1>2, <1>3, <1>4 DEF Ids

\* A consumer that goes on has what was behind the current message.
LEMMA AdvancesToTheRest ==
    ASSUME TypeOK, NEW c \in Consumers, pc[c] # "idle", Advances(c)
    PROVE  /\ batch' \in [Consumers -> Seq(Deliveries)]
           /\ pc' \in [Consumers -> {"idle", "handle", "process", "delete"}]
           /\ \A o \in Consumers : pc'[o] = "idle" <=> batch'[o] = << >>
           /\ \A o \in Consumers : o # c => pc'[o] = pc[o] /\ batch'[o] = batch[o]
           /\ pc'[c] \in {"idle", "handle"}
           /\ \A d \in InHand(c) : d # batch[c][1] => d \in InHand(c)'
  <1>1. /\ batch[c] \in Seq(Deliveries) /\ Len(batch[c]) \in Nat /\ Len(batch[c]) >= 1
        /\ DOMAIN batch[c] = 1..Len(batch[c])
    BY HasCurrent
  <1>2. /\ Tail(batch[c]) \in Seq(Deliveries) /\ Len(Tail(batch[c])) = Len(batch[c]) - 1
        /\ \A i \in 1..Len(Tail(batch[c])) : Tail(batch[c])[i] = batch[c][i + 1]
        /\ DOMAIN Tail(batch[c]) = 1..Len(Tail(batch[c]))
    <2>1. batch[c] # << >>
      BY <1>1
    <2>2. Tail(batch[c]) \in Seq(Deliveries) /\ Len(Tail(batch[c])) = Len(batch[c]) - 1
      BY <1>1, <2>1
    <2> QED
      BY <1>1, <2>1, <2>2
  <1>3. Tail(batch[c]) = << >> <=> Len(batch[c]) = 1
    <2>1. \A t \in Seq(Deliveries), k \in Nat : Len(t) = k - 1 => (t = << >> <=> k = 1)
      OBVIOUS
    <2> QED
      BY <1>1, <1>2, <2>1, Zenon
  <1>4. /\ batch' = [batch EXCEPT ![c] = Tail(batch[c])]
        /\ pc' = [pc EXCEPT ![c] = IF Len(batch[c]) = 1 THEN "idle" ELSE "handle"]
        /\ batch \in [Consumers -> Seq(Deliveries)]
        /\ pc \in [Consumers -> {"idle", "handle", "process", "delete"}]
        /\ \A o \in Consumers : pc[o] = "idle" <=> batch[o] = << >>
    BY DEF Advances, TypeOK
  <1>5. /\ batch'[c] = Tail(batch[c])
        /\ pc'[c] = IF Len(batch[c]) = 1 THEN "idle" ELSE "handle"
        /\ \A o \in Consumers : o # c => pc'[o] = pc[o] /\ batch'[o] = batch[o]
    BY <1>4
  <1>6. ASSUME NEW d \in InHand(c), d # batch[c][1] PROVE d \in InHand(c)'
    <2>1. PICK i \in 1..Len(batch[c]) : d = batch[c][i]
      BY <1>1 DEF InHand
    <2>2. i - 1 \in 1..Len(Tail(batch[c])) /\ Tail(batch[c])[i - 1] = batch[c][i]
      BY <1>1, <1>2, <1>6, <2>1
    <2>3. i - 1 \in DOMAIN batch'[c] /\ batch'[c][i - 1] = d
      BY <1>2, <1>5, <2>1, <2>2
    <2> QED
      BY <2>3 DEF InHand
  <1>7. batch' \in [Consumers -> Seq(Deliveries)]
    BY <1>2, <1>4
  <1>8. \A o \in Consumers : pc'[o] = "idle" <=> batch'[o] = << >>
    BY <1>3, <1>4, <1>5
  <1> QED
    BY <1>4, <1>5, <1>6, <1>7, <1>8

\* A commit writes a row of the inbox and counts an effect.
LEMMA CommittedTyped ==
    ASSUME TypeOK, NEW m \in Messages, Committed(m)
    PROVE  inbox' \in [Ids -> Messages \cup {None}] /\ effects' \in [Messages -> Nat]
  BY DEF TypeOK, Committed, Ids

\* The batch a consumer receives: current deliveries of the messages it asked for.
LEMMA ReceivedBatch ==
    ASSUME TypeOK, NEW c \in Consumers, NEW S \in Batches, pc[c] = "idle",
           receives' = [m \in Messages |-> IF m \in S THEN receives[m] + 1 ELSE receives[m]],
           batch' = [batch EXCEPT ![c] = [i \in 1..Cardinality(S) |-> Delivery(InOrder(S)[i])]]
    PROVE  /\ batch' \in [Consumers -> Seq(Deliveries)]
           /\ batch'[c] # << >>
           /\ \A o \in Consumers : o # c => batch'[o] = batch[o]
           /\ \A m \in S : Delivery(m) \in InHand(c)'
           /\ receives' \in [Messages -> 0..MaxReceives]
           /\ \A m \in S : m \in Ready
  <1>1. S \subseteq Messages /\ S # {} /\ \A m \in S : m \in Ready /\ ~ Redrives(m)
    BY DEF Batches, Ready
  <1> DEFINE n == Cardinality(S)
             new == [i \in 1..n |-> Delivery(InOrder(S)[i])]
  <1>2. /\ n \in Nat /\ InOrder(S) \in [1..n -> S]
        /\ \A m \in S : \E i \in 1..n : InOrder(S)[i] = m
    BY <1>1, InOrderIsAll
  <1>3. \A m \in S : receives[m] \in 0..MaxReceives /\ receives[m] < MaxReceives
    <2>1. MaxReceives \in Nat
      BY ConsumerAssumption
    <2>2. \A m \in S : receives[m] \in 0..MaxReceives /\ ~ (receives[m] >= MaxReceives)
      BY <1>1 DEF Redrives, TypeOK
    <2> QED
      BY <2>1, <2>2
  <1>4. \A m \in S : Delivery(m) \in Deliveries
    BY <1>1, <1>3, ConsumerAssumption DEF Delivery, Deliveries
  <1>5. new \in [1..n -> Deliveries]
    BY <1>2, <1>4
  <1>6. new \in Seq(Deliveries) /\ Len(new) = n /\ DOMAIN new = 1..n
    BY <1>2, <1>5
  <1>7. batch' = [batch EXCEPT ![c] = new] /\ batch \in [Consumers -> Seq(Deliveries)]
    BY DEF TypeOK
  <1>8. /\ batch' \in [Consumers -> Seq(Deliveries)] /\ batch'[c] = new
        /\ \A o \in Consumers : o # c => batch'[o] = batch[o]
    <2> HIDE DEF new
    <2> QED
      BY <1>6, <1>7
  <1>9. n # 0
    BY <1>1, <1>2
  <1>10. ASSUME NEW m \in S PROVE Delivery(m) \in InHand(c)'
    <2>1. PICK i \in 1..n : InOrder(S)[i] = m
      BY <1>2
    <2>2. i \in DOMAIN new /\ new[i] = Delivery(m)
      BY <2>1
    <2>3. Delivery(m) \in {new[j] : j \in DOMAIN new}
      BY <2>2
    <2> HIDE DEF new
    <2> QED
      BY <1>8, <2>3 DEF InHand
  <1>11. receives' \in [Messages -> 0..MaxReceives]
    BY <1>1, <1>3, ConsumerAssumption DEF TypeOK
  <1> QED
    BY <1>1, <1>6, <1>8, <1>9, <1>10, <1>11

\* Every step keeps the types.
LEMMA NextTypeOK == TypeOK /\ [Next]_vars => TypeOK'
  <1> SUFFICES ASSUME TypeOK, [Next]_vars PROVE TypeOK'
    OBVIOUS
  <1>1. ASSUME NEW c \in Consumers, Receive(c) PROVE TypeOK'
    <2>1. PICK S \in Batches :
             /\ hidden' = [m \in Messages |-> hidden[m] \/ m \in S]
             /\ receives' = [m \in Messages |-> IF m \in S THEN receives[m] + 1 ELSE receives[m]]
             /\ batch' = [batch EXCEPT ![c] =
                             [i \in 1..Cardinality(S) |-> Delivery(InOrder(S)[i])]]
      BY <1>1 DEF Receive
    <2>2. /\ pc[c] = "idle" /\ pc' = [pc EXCEPT ![c] = "handle"] /\ place' = place
          /\ inbox' = inbox /\ effects' = effects
          /\ failures' = failures /\ stops' = stops /\ slow' = slow
      BY <1>1 DEF Receive, database
    <2>3. /\ batch' \in [Consumers -> Seq(Deliveries)] /\ batch'[c] # << >>
          /\ \A o \in Consumers : o # c => batch'[o] = batch[o]
          /\ receives' \in [Messages -> 0..MaxReceives]
      BY <2>1, <2>2, ReceivedBatch
    <2>4. hidden' \in [Messages -> BOOLEAN]
      BY <2>1 DEF TypeOK
    <2>5. /\ pc' \in [Consumers -> {"idle", "handle", "process", "delete"}]
          /\ \A o \in Consumers : pc'[o] = "idle" <=> batch'[o] = << >>
      BY <2>2, <2>3 DEF TypeOK
    <2> QED
      BY <2>2, <2>3, <2>4, <2>5 DEF TypeOK
  <1>2. ASSUME NEW c \in Consumers,
               \/ Undecodable(c) \/ Refuse(c) \/ DeleteMessage(c) \/ DeleteFails(c)
               \/ FailThisTime(c)
        PROVE  TypeOK'
    <2>1. pc[c] # "idle" /\ Advances(c) /\ receives' = receives /\ stops' = stops /\ slow' = slow
      BY <1>2 DEF Undecodable, Refuse, DeleteMessage, DeleteFails, FailThisTime, Fails, queue
    <2>2. /\ batch' \in [Consumers -> Seq(Deliveries)]
          /\ pc' \in [Consumers -> {"idle", "handle", "process", "delete"}]
          /\ \A o \in Consumers : pc'[o] = "idle" <=> batch'[o] = << >>
      BY <2>1, AdvancesToTheRest
    <2>3. Current(c) \in Messages
      BY <2>1, HasCurrent
    <2>4. inbox' \in [Ids -> Messages \cup {None}] /\ effects' \in [Messages -> Nat]
      <3>1. UNCHANGED database \/ Committed(Current(c))
        BY <1>2 DEF Undecodable, Refuse, DeleteMessage, DeleteFails, FailThisTime
      <3> QED
        BY <2>3, <3>1, CommittedTyped DEF database, TypeOK
    <2>5. place' \in [Messages -> {"queue", "gone", "dead"}] /\ hidden' \in [Messages -> BOOLEAN]
      BY <1>2, <2>3
         DEF Undecodable, Refuse, DeleteMessage, DeleteFails, FailThisTime, queue, TypeOK
    <2>6. failures' \in 0..MaxFailures
      BY <1>2, ConsumerAssumption
         DEF Undecodable, Refuse, DeleteMessage, DeleteFails, FailThisTime, queue, TypeOK
    <2> QED
      BY <2>1, <2>2, <2>4, <2>5, <2>6 DEF TypeOK
  <1>3. ASSUME NEW c \in Consumers, InboxCreate(c) PROVE TypeOK'
    BY <1>3 DEF InboxCreate, TypeOK, queue, database
  <1>4. ASSUME NEW c \in Consumers, Commit(c) PROVE TypeOK'
    <2>1. Current(c) \in Messages
      BY <1>4, HasCurrent DEF Commit
    <2>2. inbox' \in [Ids -> Messages \cup {None}] /\ effects' \in [Messages -> Nat]
      BY <1>4, <2>1, CommittedTyped DEF Commit
    <2> QED
      BY <1>4, <2>2 DEF Commit, TypeOK, queue
  <1>5. ASSUME NEW c \in Consumers, Stop(c) PROVE TypeOK'
    <2>1. /\ pc' = [pc EXCEPT ![c] = "idle"] /\ batch' = [batch EXCEPT ![c] = << >>]
          /\ place' = place /\ receives' = receives /\ failures' = failures /\ slow' = slow
          /\ stops < MaxStops /\ stops' = stops + 1
      BY <1>5 DEF Stop
    <2>2. hidden' \in [Messages -> BOOLEAN]
      BY <1>5 DEF Stop, TypeOK
    <2>3. inbox' \in [Ids -> Messages \cup {None}] /\ effects' \in [Messages -> Nat]
      <3>1. UNCHANGED database \/ Committed(Current(c))
        BY <1>5 DEF Stop
      <3>2. Current(c) \in Messages
        BY <1>5, HasCurrent DEF Stop
      <3> QED
        BY <3>1, <3>2, CommittedTyped DEF database, TypeOK
    <2>4. stops' \in 0..MaxStops
      BY <2>1, ConsumerAssumption DEF TypeOK
    <2>5. /\ pc' \in [Consumers -> {"idle", "handle", "process", "delete"}]
          /\ batch' \in [Consumers -> Seq(Deliveries)]
          /\ \A o \in Consumers : pc'[o] = "idle" <=> batch'[o] = << >>
      BY <2>1 DEF TypeOK
    <2> QED
      BY <2>1, <2>2, <2>3, <2>4, <2>5 DEF TypeOK
  <1>6. ASSUME NEW m \in Messages, Redrive(m) PROVE TypeOK'
    BY <1>6 DEF Redrive, TypeOK, database, consumer
  <1>7. ASSUME NEW m \in Messages, VisibilityEnds(m) PROVE TypeOK'
    <2>1. slow' \in 0..MaxSlow
      BY <1>7, ConsumerAssumption DEF VisibilityEnds, TypeOK
    <2> QED
      BY <1>7, <2>1 DEF VisibilityEnds, TypeOK, database, consumer
  <1>8. CASE UNCHANGED vars
    BY <1>8 DEF vars, queue, database, consumer, TypeOK
  <1> QED
    BY <1>1, <1>2, <1>3, <1>4, <1>5, <1>6, <1>7, <1>8 DEF Next, ConsumerStep, Polls

\* At the start nothing is received.
LEMMA InitTypeOK == Init => TypeOK
  BY ConsumerAssumption DEF Init, TypeOK

\* Every variable of the consumer keeps its type: no message is delivered more
\* often than the redrive policy allows (localstack-init-sqs.sh:15), and a consumer
\* at work has a message at hand.
THEOREM ConsumerTypes == Spec => []TypeOK
  BY InitTypeOK, NextTypeOK, PTL DEF Spec

--------------------------------------------------------------------------------
(* What the steps have in common.                                             *)

\* A step of one consumer that is not the insert of an inbox row.
LEMMA OneInsertsStill ==
    ASSUME TypeOK, OneInserts, NEW c \in Consumers,
           \A o \in Consumers : o # c => pc'[o] = pc[o] /\ batch'[o] = batch[o],
           \/ inbox' = inbox
           \/ pc[c] = "process" /\ inbox' = [inbox EXCEPT ![IdOf[Current(c)]] = Current(c)],
           \/ pc'[c] \in {"idle", "handle"}
           \/ pc'[c] = "delete" /\ inbox'[IdOf[Current(c)]] # None /\ batch'[c] = batch[c]
    PROVE  OneInserts'
  <1>1. \A o \in Consumers : o # c => Current(o)' = Current(o)
    BY DEF Current
  <1>2. pc'[c] = "delete" => Current(c)' = Current(c)
    BY DEF Current
  <1>3. pc'[c] # "process"
    OBVIOUS
  <1>4. \A o \in Consumers : pc[o] # "idle" => Current(o) \in Messages /\ IdOf[Current(o)] \in Ids
    BY HasCurrent
  <1>5. inbox \in [Ids -> Messages \cup {None}] /\ None \notin Messages
    BY ConsumerAssumption DEF TypeOK
  <1>6. ASSUME NEW o \in Consumers, o # c, pc[o] = "process"
        PROVE  inbox'[IdOf[Current(o)]] = None
    BY <1>4, <1>5, <1>6 DEF OneInserts
  <1>7. ASSUME NEW o \in Consumers, o # c, pc[o] = "delete"
        PROVE  inbox'[IdOf[Current(o)]] # None
    BY <1>4, <1>5, <1>7 DEF OneInserts
  <1>8. ASSUME NEW o \in Consumers, pc'[o] = "process"
        PROVE  o # c /\ pc[o] = "process" /\ Current(o)' = Current(o)
    BY <1>1, <1>3, <1>8
  <1>9. \A o \in Consumers : pc'[o] = "process" => inbox'[IdOf[Current(o)']] = None
    BY <1>6, <1>8
  <1>10. ASSUME NEW o \in Consumers, pc'[o] = "delete"
         PROVE  inbox'[IdOf[Current(o)']] # None
    BY <1>1, <1>2, <1>7, <1>10
  <1>11. \A o, q \in Consumers :
            pc'[o] = "process" /\ pc'[q] = "process" /\ IdOf[Current(o)'] = IdOf[Current(q)']
            => o = q
    BY <1>8 DEF OneInserts
  <1> QED
    BY <1>9, <1>10, <1>11 DEF OneInserts

\* A commit of an id that has no row: its one effect.
LEMMA CommittedOnce ==
    ASSUME TypeOK, OneEffectPerId, NEW m \in Messages, inbox[IdOf[m]] = None, Committed(m)
    PROVE  /\ OneEffectPerId'
           /\ \A n \in Messages : inbox[IdOf[n]] # None => inbox'[IdOf[n]] # None
           /\ \A n \in Messages : Awaited(n)' => Awaited(n)
           /\ inbox'[IdOf[m]] # None
  <1>1. /\ inbox' = [inbox EXCEPT ![IdOf[m]] = m]
        /\ effects' = [effects EXCEPT ![m] = effects[m] + 1]
        /\ inbox \in [Ids -> Messages \cup {None}] /\ effects \in [Messages -> Nat]
        /\ None \notin Messages /\ \A n \in Messages : IdOf[n] \in Ids
    BY ConsumerAssumption DEF Committed, TypeOK, Ids
  <1>2. ASSUME NEW n \in Messages
        PROVE  effects'[n] = IF inbox'[IdOf[n]] = n THEN 1 ELSE 0
    <2>1. effects[n] = IF inbox[IdOf[n]] = n THEN 1 ELSE 0
      BY DEF OneEffectPerId
    <2>2. CASE IdOf[n] = IdOf[m]
      <3>1. inbox'[IdOf[n]] = m /\ effects[n] = 0
        BY <1>1, <2>1, <2>2
      <3> QED
        BY <1>1, <3>1
    <2>3. CASE IdOf[n] # IdOf[m]
      BY <1>1, <2>1, <2>3
    <2> QED
      BY <2>2, <2>3
  <1>3. \A n \in Messages : inbox[IdOf[n]] # None => inbox'[IdOf[n]] # None
    BY <1>1
  <1>4. \A n \in Messages : Awaited(n)' => Awaited(n)
    BY <1>3 DEF Awaited
  <1>5. inbox'[IdOf[m]] # None
    BY <1>1
  <1> QED
    BY <1>2, <1>3, <1>4, <1>5 DEF OneEffectPerId

\* A delivery that ends is paid for.
LEMMA PaidStill ==
    ASSUME TypeOK, TypeOK', NEW m \in Messages, Paid(m),
           Awaited(m)' => Awaited(m), receives'[m] = receives[m],
           failures' >= failures, stops' >= stops, slow' >= slow,
           Awaited(m) /\ Underway(m) =>
               \/ Underway(m)'
               \/ failures' = failures + 1 \/ stops' = stops + 1 \/ slow' = slow + 1
    PROVE  Paid(m)'
  <1>1. /\ failures \in Nat /\ stops \in Nat /\ slow \in Nat /\ receives[m] \in Nat
        /\ failures' \in Nat /\ stops' \in Nat /\ slow' \in Nat
    BY ConsumerAssumption DEF TypeOK
  <1>2. CASE ~ Awaited(m)'
    BY <1>2 DEF Paid
  <1>3. CASE Awaited(m)'
    <2>1. Awaited(m) /\ receives[m] <= failures + stops + slow + (IF Underway(m) THEN 1 ELSE 0)
      BY <1>3 DEF Paid
    <2>2. CASE Underway(m)
      BY <1>1, <2>1, <2>2 DEF Paid
    <2>3. CASE ~ Underway(m)
      BY <1>1, <2>1, <2>3 DEF Paid
    <2> QED
      BY <2>2, <2>3
  <1> QED
    BY <1>2, <1>3

\* A message stays underway in the batch of a consumer that goes on, if it is not
\* the one the consumer leaves.
LEMMA StillUnderway ==
    ASSUME TypeOK, NEW c \in Consumers, NEW m \in Messages, pc[c] # "idle", Advances(c),
           Underway(m), m # Current(c),
           place'[m] = place[m], hidden'[m] = hidden[m], receives'[m] = receives[m]
    PROVE  Underway(m)'
  <1>1. PICK o \in Consumers : \E d \in InHand(o) : d.msg = m /\ IsCurrent(d)
    BY DEF Underway
  <1>2. PICK d \in InHand(o) : d.msg = m /\ IsCurrent(d)
    BY <1>1
  <1>3. IsCurrent(d)'
    BY <1>2 DEF IsCurrent
  <1>4. d \in InHand(o)'
    <2>1. CASE o = c
      <3>1. d # batch[c][1]
        BY <1>2 DEF Current
      <3> QED
        BY <1>2, <2>1, <3>1, AdvancesToTheRest
    <2>2. CASE o # c
      <3>1. batch'[o] = batch[o]
        BY <2>2, AdvancesToTheRest
      <3> QED
        BY <1>2, <3>1 DEF InHand
    <2> QED
      BY <2>1, <2>2
  <1> QED
    BY <1>2, <1>3, <1>4 DEF Underway

--------------------------------------------------------------------------------
(* The invariant, action by action.                                           *)

\* A receive begins a delivery of messages that had none.
LEMMA ReceiveKeeps ==
    ASSUME TypeOK, TypeOK', CInv, NEW c \in Consumers, Receive(c)
    PROVE  CInv'
  <1>1. PICK S \in Batches :
           /\ hidden' = [m \in Messages |-> hidden[m] \/ m \in S]
           /\ receives' = [m \in Messages |-> IF m \in S THEN receives[m] + 1 ELSE receives[m]]
           /\ batch' = [batch EXCEPT ![c] =
                           [i \in 1..Cardinality(S) |-> Delivery(InOrder(S)[i])]]
    BY DEF Receive
  <1>2. /\ pc[c] = "idle" /\ pc' = [pc EXCEPT ![c] = "handle"] /\ place' = place
        /\ inbox' = inbox /\ effects' = effects
        /\ failures' = failures /\ stops' = stops /\ slow' = slow
    BY DEF Receive, database
  <1>3. /\ \A o \in Consumers : o # c => batch'[o] = batch[o]
        /\ \A m \in S : Delivery(m) \in InHand(c)'
        /\ \A m \in S : m \in Ready
    BY <1>1, <1>2, ReceivedBatch
  <1>4. pc'[c] = "handle" /\ \A o \in Consumers : o # c => pc'[o] = pc[o]
    BY <1>2 DEF TypeOK
  <1>5. OneInserts'
    BY <1>2, <1>3, <1>4, OneInsertsStill DEF CInv
  <1>6. OneEffectPerId' /\ RemovedAfterCommit'
    BY <1>2 DEF CInv, OneEffectPerId, RemovedAfterCommit
  <1>7. DeadAfterAll'
    <2>1. \A m \in S : place[m] = "queue"
      BY <1>3 DEF Ready
    <2> QED
      BY <1>1, <1>2, <2>1 DEF CInv, DeadAfterAll
  <1>8. ASSUME NEW m \in Messages PROVE Paid(m)'
    <2>1. Paid(m) /\ (Awaited(m)' <=> Awaited(m))
      BY <1>2 DEF CInv, Awaited
    <2>2. CASE m \in S
      <3>1. place[m] = "queue" /\ ~ hidden[m]
        BY <1>3, <2>2 DEF Ready
      <3>2. ~ Underway(m)
        BY <3>1 DEF Underway, IsCurrent
      <3>3. Underway(m)'
        <4>0. PICK d : d = Delivery(m)
          OBVIOUS
        <4>1. d.msg = m /\ d.receipt = receives[m] + 1 /\ d \in InHand(c)'
          BY <1>3, <2>2, <4>0 DEF Delivery
        <4>2. place'[m] = "queue" /\ hidden'[m] /\ receives'[m] = receives[m] + 1
          BY <1>1, <1>2, <2>2, <3>1
        <4>3. IsCurrent(d)'
          BY <4>1, <4>2 DEF IsCurrent
        <4> QED
          BY <4>1, <4>3 DEF Underway
      <3>4. /\ failures \in Nat /\ stops \in Nat /\ slow \in Nat /\ receives[m] \in Nat
            /\ receives'[m] = receives[m] + 1
        BY <1>1, <2>2, ConsumerAssumption DEF TypeOK
      <3> QED
        BY <1>2, <2>1, <3>2, <3>3, <3>4 DEF Paid
    <2>3. CASE m \notin S
      <3>1. receives'[m] = receives[m] /\ (hidden'[m] <=> hidden[m])
        BY <1>1, <2>3
      <3>2. ASSUME Underway(m) PROVE Underway(m)'
        <4>1. PICK o \in Consumers : \E d \in InHand(o) : d.msg = m /\ IsCurrent(d)
          BY <3>2 DEF Underway
        <4>2. PICK d \in InHand(o) : d.msg = m /\ IsCurrent(d)
          BY <4>1
        <4>3. o # c
          BY <1>2, <4>2 DEF TypeOK, InHand
        <4>4. d \in InHand(o)'
          BY <1>3, <4>2, <4>3 DEF InHand
        <4>5. IsCurrent(d)'
          BY <1>2, <3>1, <4>2 DEF IsCurrent
        <4> QED
          BY <4>2, <4>4, <4>5 DEF Underway
      <3>3. /\ failures' >= failures /\ stops' >= stops /\ slow' >= slow
        BY <1>2, ConsumerAssumption DEF TypeOK
      <3> QED
        BY <2>1, <3>1, <3>2, <3>3, PaidStill
    <2> QED
      BY <2>2, <2>3
  <1> QED
    BY <1>5, <1>6, <1>7, <1>8 DEF CInv

\* The steps that leave a message: it cannot be handled, or has been, or has failed
\* this time.
LEMMA LeavesKeeps ==
    ASSUME TypeOK, TypeOK', CInv, NEW c \in Consumers,
           \/ Undecodable(c) \/ Refuse(c) \/ DeleteMessage(c) \/ DeleteFails(c)
           \/ FailThisTime(c)
    PROVE  CInv'
  <1> DEFINE m == Current(c)
  <1>1. /\ pc[c] # "idle" /\ Advances(c) /\ receives' = receives
        /\ stops' = stops /\ slow' = slow
        /\ failures' = failures \/ failures' = failures + 1
    BY DEF Undecodable, Refuse, DeleteMessage, DeleteFails, FailThisTime, Fails, queue
  <1>2. m \in Messages /\ IdOf[m] \in Ids
    BY <1>1, HasCurrent
  <1>3. /\ pc'[c] \in {"idle", "handle"}
        /\ \A o \in Consumers : o # c => pc'[o] = pc[o] /\ batch'[o] = batch[o]
    BY <1>1, AdvancesToTheRest
  <1>4. \/ UNCHANGED database
        \/ pc[c] = "process" /\ Committed(m)
    BY DEF Undecodable, Refuse, DeleteMessage, DeleteFails, FailThisTime
  <1>5. /\ OneEffectPerId'
        /\ \A n \in Messages : inbox[IdOf[n]] # None => inbox'[IdOf[n]] # None
        /\ \A n \in Messages : Awaited(n)' => Awaited(n)
    <2>1. CASE UNCHANGED database
      BY <2>1 DEF database, CInv, OneEffectPerId, Awaited
    <2>2. CASE pc[c] = "process" /\ Committed(m)
      <3>1. inbox[IdOf[m]] = None
        BY <2>2 DEF CInv, OneInserts
      <3> HIDE DEF m
      <3> QED
        BY <1>2, <2>2, <3>1, CommittedOnce DEF CInv
    <2> QED
      BY <1>4, <2>1, <2>2
  <1>6. OneInserts'
    <2>1. \/ inbox' = inbox
          \/ pc[c] = "process" /\ inbox' = [inbox EXCEPT ![IdOf[Current(c)]] = Current(c)]
      BY <1>4 DEF database, Committed
    <2> QED
      BY <1>3, <2>1, OneInsertsStill DEF CInv
  <1>7. /\ \A n \in Messages : n # m => place'[n] = place[n] /\ hidden'[n] = hidden[n]
        /\ place'[m] # place[m] => place'[m] = "gone" /\ pc[c] = "delete"
    <2>1. /\ place' = place \/ (place' = [place EXCEPT ![m] = "gone"] /\ pc[c] = "delete")
          /\ hidden' = hidden \/ hidden' = [hidden EXCEPT ![m] = FALSE]
      BY DEF Undecodable, Refuse, DeleteMessage, DeleteFails, FailThisTime, queue
    <2>2. /\ place \in [Messages -> {"queue", "gone", "dead"}]
          /\ hidden \in [Messages -> BOOLEAN]
      BY DEF TypeOK
    <2> HIDE DEF m
    <2> QED
      BY <1>2, <2>1, <2>2
  <1>8. RemovedAfterCommit'
    <2>1. pc[c] = "delete" => inbox[IdOf[m]] # None
      BY DEF CInv, OneInserts
    <2>2. \A n \in Messages : place'[n] = "gone" => inbox[IdOf[n]] # None
      BY <1>7, <2>1 DEF CInv, RemovedAfterCommit
    <2> QED
      BY <1>5, <2>2 DEF RemovedAfterCommit
  <1>9. DeadAfterAll'
    BY <1>1, <1>7 DEF CInv, DeadAfterAll
  <1>10. ASSUME NEW n \in Messages PROVE Paid(n)'
    <2>1. /\ failures' >= failures /\ stops' >= stops /\ slow' >= slow
      BY <1>1, ConsumerAssumption DEF TypeOK
    <2>2. Awaited(m) => failures' = failures + 1
      <3>1. pc[c] = "delete" => ~ Awaited(m)
        BY DEF CInv, OneInserts, Awaited
      <3> QED
        BY <3>1 DEF Undecodable, Refuse, DeleteMessage, DeleteFails, FailThisTime, Awaited,
                    IsValid
    <2>3. Awaited(n) /\ Underway(n) => Underway(n)' \/ failures' = failures + 1
      BY <1>1, <1>7, <2>2, StillUnderway
    <2>4. Paid(n) /\ receives'[n] = receives[n]
      BY <1>1 DEF CInv
    <2> QED
      BY <1>5, <2>1, <2>3, <2>4, PaidStill
  <1> QED
    BY <1>5, <1>6, <1>8, <1>9, <1>10 DEF CInv

\* The insert waits for another of the same id, and then finds a row or is the only
\* one.
LEMMA InboxCreateKeeps ==
    ASSUME TypeOK, TypeOK', CInv, NEW c \in Consumers, InboxCreate(c)
    PROVE  CInv'
  <1>1. /\ pc[c] = "handle"
        /\ \A o \in Consumers : ~ IsInserting(o, IdOf[Current(c)])
        /\ pc' = [pc EXCEPT ![c] = IF inbox[IdOf[Current(c)]] # None THEN "delete" ELSE "process"]
        /\ place' = place /\ hidden' = hidden /\ receives' = receives
        /\ inbox' = inbox /\ effects' = effects /\ batch' = batch
        /\ failures' = failures /\ stops' = stops /\ slow' = slow
    BY DEF InboxCreate, IsDuplicate, queue, database
  <1>2. /\ pc'[c] = IF inbox[IdOf[Current(c)]] # None THEN "delete" ELSE "process"
        /\ \A o \in Consumers : o # c => pc'[o] = pc[o]
        /\ \A o \in Consumers : Current(o)' = Current(o)
    BY <1>1 DEF TypeOK, Current
  <1>3. OneInserts'
    BY <1>1, <1>2 DEF CInv, OneInserts, IsInserting
  <1>4. OneEffectPerId' /\ RemovedAfterCommit' /\ DeadAfterAll'
    BY <1>1 DEF CInv, OneEffectPerId, RemovedAfterCommit, DeadAfterAll
  <1>5. \A m \in Messages : Paid(m)'
    BY <1>1 DEF CInv, Paid, Awaited, Underway, InHand, IsCurrent
  <1> QED
    BY <1>3, <1>4, <1>5 DEF CInv

\* The commit writes the row and the effect.
LEMMA CommitKeeps ==
    ASSUME TypeOK, TypeOK', CInv, NEW c \in Consumers, Commit(c)
    PROVE  CInv'
  <1>1. /\ pc[c] = "process" /\ Committed(Current(c)) /\ pc' = [pc EXCEPT ![c] = "delete"]
        /\ place' = place /\ hidden' = hidden /\ receives' = receives /\ batch' = batch
        /\ failures' = failures /\ stops' = stops /\ slow' = slow
    BY DEF Commit, queue
  <1>2. Current(c) \in Messages /\ inbox[IdOf[Current(c)]] = None
    BY <1>1, HasCurrent DEF CInv, OneInserts
  <1>3. /\ OneEffectPerId'
        /\ \A n \in Messages : inbox[IdOf[n]] # None => inbox'[IdOf[n]] # None
        /\ \A n \in Messages : Awaited(n)' => Awaited(n)
        /\ inbox'[IdOf[Current(c)]] # None
    BY <1>1, <1>2, CommittedOnce DEF CInv
  <1>4. pc'[c] = "delete" /\ \A o \in Consumers : o # c => pc'[o] = pc[o] /\ batch'[o] = batch[o]
    BY <1>1 DEF TypeOK
  <1>5. OneInserts'
    <2>1. inbox' = [inbox EXCEPT ![IdOf[Current(c)]] = Current(c)] /\ batch'[c] = batch[c]
      BY <1>1 DEF Committed
    <2> QED
      BY <1>1, <1>3, <1>4, <2>1, OneInsertsStill DEF CInv
  <1>6. RemovedAfterCommit' /\ DeadAfterAll'
    BY <1>1, <1>3 DEF CInv, RemovedAfterCommit, DeadAfterAll
  <1>7. ASSUME NEW m \in Messages PROVE Paid(m)'
    <2>1. Underway(m) => Underway(m)'
      BY <1>1 DEF Underway, InHand, IsCurrent
    <2>2. failures' >= failures /\ stops' >= stops /\ slow' >= slow
      BY <1>1, ConsumerAssumption DEF TypeOK
    <2>3. Paid(m) /\ receives'[m] = receives[m]
      BY <1>1 DEF CInv
    <2> QED
      BY <1>3, <2>1, <2>2, <2>3, PaidStill
  <1> QED
    BY <1>3, <1>5, <1>6, <1>7 DEF CInv

\* A consumer that stops pays for every delivery it had.
LEMMA StopKeeps ==
    ASSUME TypeOK, TypeOK', CInv, NEW c \in Consumers, Stop(c)
    PROVE  CInv'
  <1>1. /\ pc[c] # "idle" /\ stops' = stops + 1
        /\ pc' = [pc EXCEPT ![c] = "idle"] /\ batch' = [batch EXCEPT ![c] = << >>]
        /\ place' = place /\ receives' = receives /\ failures' = failures /\ slow' = slow
        /\ UNCHANGED database \/ (pc[c] = "process" /\ Committed(Current(c)))
    BY DEF Stop
  <1>2. Current(c) \in Messages
    BY <1>1, HasCurrent
  <1>3. /\ OneEffectPerId'
        /\ \A n \in Messages : inbox[IdOf[n]] # None => inbox'[IdOf[n]] # None
        /\ \A n \in Messages : Awaited(n)' => Awaited(n)
    <2>1. CASE UNCHANGED database
      BY <2>1 DEF database, CInv, OneEffectPerId, Awaited
    <2>2. CASE pc[c] = "process" /\ Committed(Current(c))
      <3>1. inbox[IdOf[Current(c)]] = None
        BY <2>2 DEF CInv, OneInserts
      <3> QED
        BY <1>2, <2>2, <3>1, CommittedOnce DEF CInv
    <2> QED
      BY <1>1, <2>1, <2>2
  <1>4. /\ pc'[c] = "idle"
        /\ \A o \in Consumers : o # c => pc'[o] = pc[o] /\ batch'[o] = batch[o]
    BY <1>1 DEF TypeOK
  <1>5. OneInserts'
    <2>1. \/ inbox' = inbox
          \/ pc[c] = "process" /\ inbox' = [inbox EXCEPT ![IdOf[Current(c)]] = Current(c)]
      BY <1>1 DEF database, Committed
    <2> QED
      BY <1>4, <2>1, OneInsertsStill DEF CInv
  <1>6. RemovedAfterCommit' /\ DeadAfterAll'
    BY <1>1, <1>3 DEF CInv, RemovedAfterCommit, DeadAfterAll
  <1>7. ASSUME NEW m \in Messages PROVE Paid(m)'
    <2>1. failures' >= failures /\ stops' >= stops /\ slow' >= slow
      BY <1>1, ConsumerAssumption DEF TypeOK
    <2>2. Paid(m) /\ receives'[m] = receives[m]
      BY <1>1 DEF CInv
    <2> QED
      BY <1>1, <1>3, <2>1, <2>2, PaidStill
  <1> QED
    BY <1>3, <1>5, <1>6, <1>7 DEF CInv

\* What the queue redrives has been delivered as often as it may, and has no
\* delivery underway.
LEMMA RedriveKeeps ==
    ASSUME TypeOK, TypeOK', CInv, NEW m \in Messages, Redrive(m)
    PROVE  CInv'
  <1>1. /\ m \in Ready /\ receives[m] >= MaxReceives /\ place' = [place EXCEPT ![m] = "dead"]
        /\ hidden' = hidden /\ receives' = receives /\ pc' = pc /\ batch' = batch
        /\ inbox' = inbox /\ effects' = effects
        /\ failures' = failures /\ stops' = stops /\ slow' = slow
    BY DEF Redrive, Redrives, database, consumer
  <1>2. /\ place'[m] = "dead" /\ receives[m] = MaxReceives
        /\ \A n \in Messages : n # m => place'[n] = place[n]
    BY <1>1, ConsumerAssumption DEF TypeOK
  <1>3. OneInserts' /\ OneEffectPerId'
    BY <1>1 DEF CInv, OneInserts, OneEffectPerId, Current
  <1>4. RemovedAfterCommit' /\ DeadAfterAll'
    BY <1>1, <1>2 DEF CInv, RemovedAfterCommit, DeadAfterAll
  <1>5. ASSUME NEW n \in Messages PROVE Paid(n)'
    <2>1. failures' >= failures /\ stops' >= stops /\ slow' >= slow
      BY <1>1, ConsumerAssumption DEF TypeOK
    <2>2. Paid(n) /\ receives'[n] = receives[n] /\ (Awaited(n)' => Awaited(n))
      BY <1>1 DEF CInv, Awaited
    <2>3. ~ Underway(m)
      BY <1>1 DEF Ready, Underway, IsCurrent
    <2>4. n # m => (Underway(n) => Underway(n)')
      BY <1>1, <1>2 DEF Underway, InHand, IsCurrent
    <2> QED
      BY <2>1, <2>2, <2>3, <2>4, PaidStill
  <1> QED
    BY <1>3, <1>4, <1>5 DEF CInv

\* A visibility that ends under a live consumer is paid for.
LEMMA VisibilityEndsKeeps ==
    ASSUME TypeOK, TypeOK', CInv, NEW m \in Messages, VisibilityEnds(m)
    PROVE  CInv'
  <1>1. /\ hidden' = [hidden EXCEPT ![m] = FALSE]
        /\ place' = place /\ receives' = receives /\ pc' = pc /\ batch' = batch
        /\ inbox' = inbox /\ effects' = effects /\ failures' = failures /\ stops' = stops
        /\ IF Underway(m) THEN slow' = slow + 1 ELSE slow' = slow
    BY DEF VisibilityEnds, database, consumer, Underway
  <1>2. OneInserts' /\ OneEffectPerId' /\ RemovedAfterCommit' /\ DeadAfterAll'
    BY <1>1 DEF CInv, OneInserts, OneEffectPerId, RemovedAfterCommit, DeadAfterAll, Current
  <1>3. ASSUME NEW n \in Messages PROVE Paid(n)'
    <2>1. failures' >= failures /\ stops' >= stops /\ slow' >= slow
      BY <1>1, ConsumerAssumption DEF TypeOK
    <2>2. Paid(n) /\ receives'[n] = receives[n] /\ (Awaited(n)' => Awaited(n))
      BY <1>1 DEF CInv, Awaited
    <2>3. ASSUME n # m, Underway(n) PROVE Underway(n)'
      <3>1. hidden'[n] = hidden[n]
        BY <1>1, <2>3 DEF TypeOK
      <3> QED
        BY <1>1, <2>3, <3>1 DEF Underway, InHand, IsCurrent
    <2> QED
      BY <1>1, <2>1, <2>2, <2>3, PaidStill
  <1> QED
    BY <1>2, <1>3 DEF CInv

\* At the start nothing is inserted, removed or received.
LEMMA InitCInv == Init => CInv
  <1> SUFFICES ASSUME Init PROVE CInv
    OBVIOUS
  <1>1. OneInserts /\ RemovedAfterCommit /\ DeadAfterAll
    BY DEF Init, OneInserts, RemovedAfterCommit, DeadAfterAll
  <1>2. OneEffectPerId
    BY ConsumerAssumption DEF Init, OneEffectPerId, Ids
  <1>3. \A m \in Messages : Paid(m)
    BY DEF Init, Paid
  <1> QED
    BY <1>1, <1>2, <1>3 DEF CInv

\* Every step keeps the invariant.
LEMMA NextCInv == TypeOK /\ TypeOK' /\ CInv /\ [Next]_vars => CInv'
  <1> SUFFICES ASSUME TypeOK, TypeOK', CInv, [Next]_vars PROVE CInv'
    OBVIOUS
  <1>1. ASSUME NEW c \in Consumers, ConsumerStep(c) PROVE CInv'
    BY <1>1, ReceiveKeeps, LeavesKeeps, InboxCreateKeeps, CommitKeeps DEF ConsumerStep
  <1>2. ASSUME NEW c \in Consumers, Stop(c) PROVE CInv'
    BY <1>2, StopKeeps
  <1>3. ASSUME NEW m \in Messages, Redrive(m) \/ VisibilityEnds(m) PROVE CInv'
    BY <1>3, RedriveKeeps, VisibilityEndsKeeps
  <1>4. CASE UNCHANGED vars
    BY <1>4 DEF vars, queue, database, consumer, CInv, OneInserts, OneEffectPerId,
                RemovedAfterCommit, DeadAfterAll, Paid, Awaited, Underway, InHand, IsCurrent,
                Current
  <1> QED
    BY <1>1, <1>2, <1>3, <1>4 DEF Next, Polls

\* The types and the invariant together.
LEMMA ConsumerInvariant == Spec => [](TypeOK /\ CInv)
  <1>1. Init => TypeOK /\ CInv
    BY InitTypeOK, InitCInv
  <1>2. TypeOK /\ CInv /\ [Next]_vars => (TypeOK /\ CInv)'
    BY NextTypeOK, NextCInv
  <1> QED
    BY <1>1, <1>2, PTL DEF Spec

--------------------------------------------------------------------------------
(* What follows.                                                              *)

\* The messages of one id have one effect between them, committed with the inbox
\* row, whoever is handling a delivery of them at the same time
\* (consumer.go:140-152).
THEOREM AtMostOneEffect == Spec => []OneEffectPerId
  BY ConsumerInvariant, PTL DEF CInv

\* A message leaves the queue only after the handling of its id has committed
\* (consumer.go:94-106).
THEOREM NothingIsLost == Spec => []RemovedAfterCommit
  BY ConsumerInvariant, PTL DEF CInv

\* A message that could be handled reaches the dead-letter queue unhandled only
\* after as many failures, stops and overrun visibilities as it has deliveries
\* (consumer.go:89-106, localstack-init-sqs.sh:15).
THEOREM DeadHasFailed == Spec => []DeadOnlyAfterFailures
  <1>1. ASSUME TypeOK, CInv PROVE DeadOnlyAfterFailures
    <2> SUFFICES ASSUME NEW m \in Messages, place[m] = "dead",
                        BodyOf[m] \in Valid \ Refused, inbox[IdOf[m]] = None
                 PROVE  failures + stops + slow >= MaxReceives
      BY DEF DeadOnlyAfterFailures
    <2>1. receives[m] = MaxReceives /\ Paid(m) /\ Awaited(m)
      BY <1>1 DEF CInv, DeadAfterAll, Awaited
    <2>2. ~ Underway(m)
      BY DEF Underway, IsCurrent
    <2>3. /\ failures \in Nat /\ stops \in Nat /\ slow \in Nat /\ MaxReceives \in Nat
      BY <1>1, ConsumerAssumption DEF TypeOK
    <2> QED
      BY <2>1, <2>2, <2>3 DEF Paid
  <1> QED
    BY <1>1, ConsumerInvariant, PTL

--------------------------------------------------------------------------------
(* The channel.                                                               *)

\* The substitutions of the refinement.
State   == [i \in Ids |-> IF \E m \in MessagesOf(i) : place[m] = "gone"
                          THEN "settled" ELSE "pending"]
Handed  == [i \in Ids |-> Cardinality(EffectsOf(i))]
Reasons == [i \in Ids |-> 0]

\* A row of the inbox is there for its own id.
OwnRows == \A i \in Ids : inbox[i] # None => IdOf[inbox[i]] = i

\* Every step keeps the rows with their ids.
LEMMA RowsAreOwn == Spec => []OwnRows
  <1>1. Init => OwnRows
    BY DEF Init, OwnRows
  <1>2. TypeOK /\ OwnRows /\ [Next]_vars => OwnRows'
    <2> SUFFICES ASSUME TypeOK, OwnRows, [Next]_vars PROVE OwnRows'
      OBVIOUS
    <2>1. ASSUME NEW c \in Consumers, Committed(Current(c)) PROVE OwnRows'
      <3>1. PICK m : m = Current(c)
        OBVIOUS
      <3>2. inbox' = [inbox EXCEPT ![IdOf[m]] = m] /\ inbox \in [Ids -> Messages \cup {None}]
        BY <2>1, <3>1 DEF Committed, TypeOK
      <3> QED
        BY <3>2 DEF OwnRows
    <2>2. CASE inbox' = inbox
      BY <2>2 DEF OwnRows
    <2>3. ASSUME NEW c \in Consumers, ConsumerStep(c) \/ Stop(c)
          PROVE  inbox' = inbox \/ Committed(Current(c))
      BY <2>3 DEF ConsumerStep, Receive, Undecodable, InboxCreate, Commit, Refuse,
                  FailThisTime, DeleteMessage, DeleteFails, Stop, database
    <2>4. ASSUME NEW m \in Messages, Redrive(m) \/ VisibilityEnds(m) PROVE inbox' = inbox
      BY <2>4 DEF Redrive, VisibilityEnds, database
    <2>5. CASE UNCHANGED vars
      BY <2>2, <2>5 DEF vars, database
    <2> QED
      BY <2>1, <2>2, <2>3, <2>4, <2>5 DEF Next, Polls
  <1> QED
    BY <1>1, <1>2, ConsumerInvariant, PTL DEF Spec

\* The effects of an id are those of the message in its row, which has one.
LEMMA EffectsOfRow ==
    ASSUME NEW box \in [Ids -> Messages \cup {None}], NEW eff, NEW i \in Ids,
           \A m \in Messages : eff[m] = IF box[IdOf[m]] = m THEN 1 ELSE 0,
           box[i] # None => IdOf[box[i]] = i
    PROVE  Cardinality(UNION {{m} \X (1..eff[m]) : m \in MessagesOf(i)})
               = IF box[i] = None THEN 0 ELSE 1
  <1> DEFINE E == UNION {{m} \X (1..eff[m]) : m \in MessagesOf(i)}
  <1>1. \A m \in MessagesOf(i) : m \in Messages /\ IdOf[m] = i
                                 /\ eff[m] = IF box[i] = m THEN 1 ELSE 0
    BY DEF MessagesOf
  <1>2. \A x : x \in E <=> \E m \in MessagesOf(i) : x \in {m} \X (1..eff[m])
    OBVIOUS
  <1>3. \A m \in MessagesOf(i) : (1..eff[m]) = IF box[i] = m THEN {1} ELSE {}
    <2>1. 1..1 = {1} /\ 1..0 = {}
      OBVIOUS
    <2> QED
      BY <1>1, <2>1, Zenon
  <1> HIDE DEF E
  <1>4. CASE box[i] = None
    <2>1. \A m \in MessagesOf(i) : (1..eff[m]) = {}
      BY <1>1, <1>3, <1>4, ConsumerAssumption
    <2>2. \A x : x \notin E
      BY <1>2, <2>1
    <2>3. E = {}
      BY <2>2
    <2> QED
      BY <1>4, <2>3, FS_EmptySet DEF E
  <1>5. CASE box[i] # None
    <2>1. PICK n : n = box[i] /\ n \in MessagesOf(i)
      BY <1>5 DEF MessagesOf
    <2>2. \A x : x \in E <=> x \in {n} \X {1}
      <3>1. (1..eff[n]) = {1} /\ \A m \in MessagesOf(i) : m # n => (1..eff[m]) = {}
        BY <1>3, <2>1
      <3>2. ASSUME NEW x, x \in E PROVE x \in {n} \X {1}
        <4>1. PICK m \in MessagesOf(i) : x \in {m} \X (1..eff[m])
          BY <1>2, <3>2
        <4>2. m = n
          BY <3>1, <4>1
        <4> QED
          BY <3>1, <4>1, <4>2
      <3>3. ASSUME NEW x, x \in {n} \X {1} PROVE x \in E
        BY <1>2, <2>1, <3>1, <3>3
      <3> QED
        BY <3>2, <3>3
    <2>3. E = {<< n, 1 >>}
      <3>1. {n} \X {1} = {<< n, 1 >>}
        OBVIOUS
      <3> QED
        BY <2>2, <3>1
    <2>4. Cardinality(E) = 1
      BY <2>3, FS_Singleton
    <2> QED
      BY <1>5, <2>4 DEF E
  <1> QED
    BY <1>4, <1>5

\* An id has been handed over if it has a row.
LEMMA HandedOnce ==
    ASSUME TypeOK, OneEffectPerId, OwnRows
    PROVE  Handed = [i \in Ids |-> IF inbox[i] = None THEN 0 ELSE 1]
  <1>1. ASSUME NEW i \in Ids
        PROVE  Cardinality(EffectsOf(i)) = IF inbox[i] = None THEN 0 ELSE 1
    <2>1. PICK box, eff : box = inbox /\ eff = effects
      OBVIOUS
    <2>2. /\ box \in [Ids -> Messages \cup {None}]
          /\ \A m \in Messages : eff[m] = IF box[IdOf[m]] = m THEN 1 ELSE 0
          /\ box[i] # None => IdOf[box[i]] = i
      BY <2>1 DEF TypeOK, OneEffectPerId, OwnRows
    <2>3. Cardinality(UNION {{m} \X (1..eff[m]) : m \in MessagesOf(i)})
              = IF box[i] = None THEN 0 ELSE 1
      BY <2>2, EffectsOfRow
    <2> QED
      BY <2>1, <2>3 DEF EffectsOf
  <1> QED
    BY <1>1 DEF Handed

\* The same of the state after the step.
LEMMA HandedOnceThen ==
    ASSUME TypeOK', OneEffectPerId', OwnRows'
    PROVE  Handed' = [i \in Ids |-> IF inbox'[i] = None THEN 0 ELSE 1]
  <1>1. ASSUME NEW i \in Ids
        PROVE  Cardinality(EffectsOf(i)') = IF inbox'[i] = None THEN 0 ELSE 1
    <2>1. PICK box, eff : box = inbox' /\ eff = effects'
      OBVIOUS
    <2>2. /\ box \in [Ids -> Messages \cup {None}]
          /\ \A m \in Messages : eff[m] = IF box[IdOf[m]] = m THEN 1 ELSE 0
          /\ box[i] # None => IdOf[box[i]] = i
      BY <2>1 DEF TypeOK, OneEffectPerId, OwnRows
    <2>3. Cardinality(UNION {{m} \X (1..eff[m]) : m \in MessagesOf(i)})
              = IF box[i] = None THEN 0 ELSE 1
      BY <2>2, EffectsOfRow
    <2> QED
      BY <2>1, <2>3 DEF EffectsOf
  <1> QED
    BY <1>1 DEF Handed

\* An id is settled when a message of it is gone.
LEMMA PlaceStays ==
    ASSUME \A m \in Messages : place'[m] = "gone" <=> place[m] = "gone"
    PROVE  State' = State
  <1>1. \A i \in Ids : \A m \in MessagesOf(i) : place'[m] = "gone" <=> place[m] = "gone"
    BY DEF MessagesOf
  <1> QED
    BY <1>1 DEF State

\* Nothing is handed over while the database stays as it is.
LEMMA DatabaseStays ==
    ASSUME UNCHANGED database
    PROVE  Handed' = Handed
  BY DEF Handed, EffectsOf, database

\* A commit hands its id over, for the first time.
LEMMA CommitHands ==
    ASSUME TypeOK, CInv, OwnRows, TypeOK', CInv', OwnRows',
           NEW c \in Consumers, pc[c] = "process", Committed(Current(c)), place' = place
    PROVE  Channel!Next
  <1>1. PICK i \in Ids : i = IdOf[Current(c)] /\ inbox[i] = None
    BY HasCurrent DEF CInv, OneInserts
  <1>2. PICK m \in Messages : m = Current(c)
    BY HasCurrent
  <1>3. inbox' = [inbox EXCEPT ![i] = m] /\ inbox \in [Ids -> Messages \cup {None}] /\ m # None
    BY <1>1, <1>2, ConsumerAssumption DEF Committed, TypeOK
  <1>4. /\ Handed = [j \in Ids |-> IF inbox[j] = None THEN 0 ELSE 1]
        /\ Handed' = [j \in Ids |-> IF inbox'[j] = None THEN 0 ELSE 1]
    BY HandedOnce, HandedOnceThen DEF CInv
  <1>5. Handed' = [Handed EXCEPT ![i] = Handed[i] + 1] /\ Handed[i] = 0
    BY <1>1, <1>3, <1>4
  <1>6. State' = State /\ State[i] # "absent"
    <2>1. State' = State
      BY PlaceStays
    <2> QED
      BY <2>1 DEF State
  <1>7. Reasons' = Reasons /\ Reasons[i] = 0
    BY DEF Reasons
  <1>8. Channel!Hand(i)
    BY <1>5, <1>6, <1>7 DEF Channel!Hand, State, Handed, Reasons
  <1> QED
    BY <1>8 DEF Channel!Next

\* A deletion settles an id that has been handed over, unless the receipt is stale or
\* another message of the id was deleted before.
LEMMA DeleteSettles ==
    ASSUME TypeOK, CInv, OwnRows, NEW c \in Consumers, DeleteMessage(c)
    PROVE  Channel!Next \/ UNCHANGED << State, Handed, Reasons >>
  <1>1. PICK i \in Ids : i = IdOf[Current(c)] /\ inbox[i] # None
    BY HasCurrent DEF DeleteMessage, CInv, OneInserts
  <1>2. PICK m \in Messages : m = Current(c)
    BY HasCurrent DEF DeleteMessage
  <1>3. m \in MessagesOf(i)
    BY <1>1, <1>2 DEF MessagesOf
  <1>4. Handed' = Handed /\ Handed[i] = 1
    <2>1. Handed' = Handed
      BY DatabaseStays DEF DeleteMessage
    <2>2. Handed = [j \in Ids |-> IF inbox[j] = None THEN 0 ELSE 1]
      BY HandedOnce DEF CInv
    <2> QED
      BY <1>1, <2>1, <2>2
  <1>5. Reasons' = Reasons /\ Reasons[i] = 0
    BY DEF Reasons
  <1>6. CASE place' = place
    BY <1>4, <1>5, <1>6, PlaceStays
  <1>7. CASE place' = [place EXCEPT ![m] = "gone"]
    <2>1. \A n \in Messages : place'[n] = "gone" <=> n = m \/ place[n] = "gone"
      BY <1>7 DEF TypeOK
    <2>2. ASSUME NEW j \in Ids
          PROVE  (\E n \in MessagesOf(j) : place'[n] = "gone")
                 <=> j = i \/ \E n \in MessagesOf(j) : place[n] = "gone"
      BY <1>1, <1>2, <1>3, <2>1 DEF MessagesOf
    <2>3. State' = [State EXCEPT ![i] = "settled"]
      BY <2>2 DEF State
    <2>4. State[i] \in {"pending", "settled"}
      BY DEF State
    <2>5. CASE State[i] = "settled"
      <3>1. State' = State
        BY <2>3, <2>5 DEF State
      <3> QED
        BY <1>4, <1>5, <3>1
    <2>6. CASE State[i] = "pending"
      <3>1. Channel!Settle(i)
        BY <1>4, <1>5, <2>3, <2>6 DEF Channel!Settle, State, Handed, Reasons
      <3> QED
        BY <3>1 DEF Channel!Next
    <2> QED
      BY <2>4, <2>5, <2>6
  <1> QED
    BY <1>2, <1>6, <1>7 DEF DeleteMessage

\* Every step is one of the channel or changes nothing in it.
LEMMA NextHandsOver ==
    ASSUME TypeOK, CInv, OwnRows, TypeOK', CInv', OwnRows', [Next]_vars
    PROVE  Channel!Next \/ UNCHANGED << State, Handed, Reasons >>
  <1>1. Reasons' = Reasons
    BY DEF Reasons
  <1>2. ASSUME NEW c \in Consumers, ConsumerStep(c) \/ Stop(c), ~ DeleteMessage(c)
        PROVE  /\ place' = place
               /\ UNCHANGED database \/ (pc[c] = "process" /\ Committed(Current(c)))
    BY <1>2 DEF ConsumerStep, Receive, Undecodable, InboxCreate, Commit, Refuse,
                FailThisTime, DeleteFails, Stop, queue
  <1>3. ASSUME NEW c \in Consumers, ConsumerStep(c) \/ Stop(c)
        PROVE  Channel!Next \/ UNCHANGED << State, Handed, Reasons >>
    BY <1>1, <1>2, <1>3, PlaceStays, DatabaseStays, CommitHands, DeleteSettles
  <1>4. ASSUME NEW m \in Messages, Redrive(m) \/ VisibilityEnds(m)
        PROVE  UNCHANGED << State, Handed, Reasons >>
    <2>1. \A n \in Messages : place'[n] = "gone" <=> place[n] = "gone"
      BY <1>4 DEF Redrive, VisibilityEnds, Ready, TypeOK
    <2>2. UNCHANGED database
      BY <1>4 DEF Redrive, VisibilityEnds
    <2> QED
      BY <1>1, <2>1, <2>2, PlaceStays, DatabaseStays
  <1>5. CASE UNCHANGED vars
    <2>1. place' = place /\ UNCHANGED database
      BY <1>5 DEF vars, queue
    <2> QED
      BY <1>1, <2>1, PlaceStays, DatabaseStays
  <1> QED
    BY <1>3, <1>4, <1>5 DEF Next, Polls

\* Consumers, however their deliveries overlap, make up one channel to the ledger that
\* hands an id over once, whatever goes wrong, and settles it only then
\* (consumer.go:94-152).
THEOREM ConsumerDelivers == Spec => ImplementsDelivery
  <1>1. Init => Channel!Init
    <2> SUFFICES ASSUME Init PROVE Channel!Init
      OBVIOUS
    <2>1. State \in [Ids -> {"absent", "pending"}]
      BY DEF Init, State, MessagesOf
    <2>2. Handed = [i \in Ids |-> 0]
      <3>1. ASSUME NEW i \in Ids PROVE Cardinality(EffectsOf(i)) = 0
        <4>1. \A m \in MessagesOf(i) : (1..effects[m]) = {}
          BY DEF Init, MessagesOf
        <4>2. EffectsOf(i) = {}
          BY <4>1 DEF EffectsOf
        <4> QED
          BY <4>2, FS_EmptySet
      <3> QED
        BY <3>1 DEF Handed
    <2> QED
      BY <2>1, <2>2 DEF Channel!Init, State, Handed
  <1>2. /\ TypeOK /\ CInv /\ OwnRows /\ (TypeOK /\ CInv /\ OwnRows)' /\ [Next]_vars
        => [Channel!Next]_<< State, Handed, Reasons >>
    BY NextHandsOver
  <1> QED
    BY <1>1, <1>2, ConsumerInvariant, RowsAreOwn, PTL
       DEF Spec, ImplementsDelivery, Channel!Spec, State, Handed, Reasons
================================================================================
