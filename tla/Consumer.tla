-------------------------------- MODULE Consumer --------------------------------
(***************************************************************************)
(* The SQS consumer: a loop that receives up to ten messages, handles them *)
(* one after the other and deletes each after its commit.  One database    *)
(* transaction holds the inbox row and everything ExecuteWithin writes.    *)
(* Any number of server instances run the loop against one FIFO queue that *)
(* delivers at least once: a message whose visibility runs out, even while *)
(* its consumer is at work, is delivered again, and after maxReceiveCount  *)
(* deliveries it goes to the dead-letter queue.                            *)
(*                                                                         *)
(* What ExecuteWithin does is WagerLedger's subject.  Here it commits the  *)
(* effect of a message, refuses it for good (invalid input, a conflict),   *)
(* or fails this time (the version check, a lost connection).              *)
(***************************************************************************)
EXTENDS Integers, FiniteSets, Sequences

(* An operator whose name ends in Bug is a mistake the code could contain.  *)
(* No specification uses it: each shows that a property notices it.         *)

CONSTANTS
    Messages,            \* numbers, in the order they were sent to the queue
    IdOf, BodyOf,        \* of each: envelope messageId and the whole body
    GroupOf,             \* of each: MessageGroupId, the producer's choice
    Valid,               \* the bodies decodeEnvelope accepts
    Refused,             \* the bodies ExecuteWithin refuses every time
    Consumers, None,
    BatchSize,           \* MaxNumberOfMessages (10 in the code)
    MaxReceives,         \* maxReceiveCount (5 in the code)
    MaxFailures,         \* BOUND: calls and transactions that fail
    MaxStops,            \* BOUND: consumers that stop with messages at hand
    MaxSlow              \* BOUND: visibilities that end under a live consumer

ASSUME ConsumerAssumption ==
    /\ IsFiniteSet(Messages) /\ Messages \subseteq Nat
    /\ None \notin Messages
    /\ Refused \subseteq Valid
    /\ {BatchSize, MaxReceives} \subseteq Nat \ {0}
    /\ {MaxFailures, MaxStops, MaxSlow} \subseteq Nat

VARIABLES
    place, hidden, receives,   \* the queue: of each message
    inbox,                     \* the message that made each inbox row
    effects,                   \* committed effects of each message
    pc, batch,                 \* of a consumer: its deliveries, oldest first
    failures, stops, slow

queue    == << place, hidden, receives >>
database == << inbox, effects >>
consumer == << pc, batch >>
vars == << queue, database, consumer, failures, stops, slow >>

Ids == {IdOf[m] : m \in Messages}

Init ==
    /\ place = [m \in Messages |-> "queue"]
    /\ hidden = [m \in Messages |-> FALSE]
    /\ receives = [m \in Messages |-> 0]
    /\ inbox = [i \in Ids |-> None]
    /\ effects = [m \in Messages |-> 0]
    /\ pc = [c \in Consumers |-> "idle"]
    /\ batch = [c \in Consumers |-> << >>]
    /\ failures = 0 /\ stops = 0 /\ slow = 0

--------------------------------------------------------------------------------
(* The queue.  A delivery is a message and its receipt; the receipt of an    *)
(* earlier delivery, or of one whose visibility ended, has no effect.        *)

Delivery(m) == [msg |-> m, receipt |-> receives[m] + 1]
IsCurrent(d) ==
    place[d.msg] = "queue" /\ hidden[d.msg] /\ receives[d.msg] = d.receipt

Redrives(m) == receives[m] >= MaxReceives

\* A FIFO queue holds a group back while a message of it is hidden.
Ready == {m \in Messages :
            /\ place[m] = "queue"
            /\ \A n \in Messages : GroupOf[n] = GroupOf[m] => ~ hidden[n]}

\* A batch holds no message without those of its group sent before.
Batches ==
    {S \in SUBSET {m \in Ready : ~ Redrives(m)} :
        /\ S # {} /\ Cardinality(S) <= BatchSize
        /\ \A m \in S : \A n \in Ready :
              n < m /\ GroupOf[n] = GroupOf[m] => n \in S}

InOrder(S) ==
    CHOOSE s \in [1..Cardinality(S) -> S] :
        \A i, j \in DOMAIN s : i < j => s[i] < s[j]

Receive(c) ==
    /\ pc[c] = "idle"
    /\ \E S \in Batches :
          /\ hidden' = [m \in Messages |-> hidden[m] \/ m \in S]
          /\ receives' = [m \in Messages |-> IF m \in S THEN receives[m] + 1 ELSE receives[m]]
          /\ batch' = [batch EXCEPT ![c] =
                          [i \in 1..Cardinality(S) |-> Delivery(InOrder(S)[i])]]
    /\ pc' = [pc EXCEPT ![c] = "handle"]
    /\ UNCHANGED << place, database, failures, stops, slow >>

Redrive(m) ==
    /\ m \in Ready /\ Redrives(m)
    /\ \A n \in Ready : n < m => GroupOf[n] # GroupOf[m]
    /\ place' = [place EXCEPT ![m] = "dead"]
    /\ UNCHANGED << hidden, receives, database, consumer, failures, stops, slow >>

InHand(c) == {batch[c][i] : i \in DOMAIN batch[c]}

VisibilityEnds(m) ==
    /\ place[m] = "queue" /\ hidden[m]
    /\ hidden' = [hidden EXCEPT ![m] = FALSE]
    /\ IF \E c \in Consumers : \E d \in InHand(c) : d.msg = m /\ IsCurrent(d)
       THEN slow < MaxSlow /\ slow' = slow + 1
       ELSE UNCHANGED slow
    /\ UNCHANGED << place, receives, database, consumer, failures, stops >>

--------------------------------------------------------------------------------
(* The loop of a consumer.                                                   *)

Current(c) == batch[c][1].msg

\* On to the next message of the batch, or to the next receive.
Advances(c) ==
    /\ batch' = [batch EXCEPT ![c] = Tail(@)]
    /\ pc' = [pc EXCEPT ![c] = IF Len(batch[c]) = 1 THEN "idle" ELSE "handle"]

\* An error is logged and the loop continues: the message stays hidden until its
\* visibility ends.  The messages behind it are handled all the same.
Fails_RemovesBug(c) == pc' = [pc EXCEPT ![c] = "delete"] /\ UNCHANGED batch
Fails_EndsBatchBug(c) ==
    pc' = [pc EXCEPT ![c] = "idle"] /\ batch' = [batch EXCEPT ![c] = << >>]
Fails_InPlaceBug(c) == UNCHANGED consumer
Fails(c) == Advances(c)

IsValid(c) == BodyOf[Current(c)] \in Valid

Undecodable(c) ==
    /\ pc[c] = "handle" /\ ~ IsValid(c)
    /\ Fails(c)
    /\ UNCHANGED << queue, database, failures, stops, slow >>

\* INSERT ... ON CONFLICT DO NOTHING waits for an uncommitted insert of the same
\* id, then sees what became of it.
IsInserting(c, i) == pc[c] = "process" /\ IdOf[Current(c)] = i
IsDuplicate_NoIndexBug(m) == FALSE
IsDuplicate(m) == inbox[IdOf[m]] # None

InboxCreate(c) ==
    /\ pc[c] = "handle" /\ IsValid(c)
    /\ \A o \in Consumers : ~ IsInserting(o, IdOf[Current(c)])
    /\ pc' = [pc EXCEPT ![c] = IF IsDuplicate(Current(c)) THEN "delete" ELSE "process"]
    /\ UNCHANGED << queue, database, batch, failures, stops, slow >>

\* ExecuteWithin, MarkCompleted and COMMIT: the row and the effect, or neither.
Committed(m) ==
    /\ inbox' = [inbox EXCEPT ![IdOf[m]] = m]
    /\ effects' = [effects EXCEPT ![m] = @ + 1]

Commit(c) ==
    /\ pc[c] = "process" /\ BodyOf[Current(c)] \notin Refused
    /\ Committed(Current(c))
    /\ pc' = [pc EXCEPT ![c] = "delete"]
    /\ UNCHANGED << queue, batch, failures, stops, slow >>

\* The error rolls the inbox row back.
Refuse(c) ==
    /\ pc[c] = "process" /\ BodyOf[Current(c)] \in Refused
    /\ Fails(c)
    /\ UNCHANGED << queue, database, failures, stops, slow >>

\* A failure of this attempt; an error of COMMIT may hide a success.
FailThisTime(c) ==
    /\ pc[c] = "process"
    /\ failures < MaxFailures /\ failures' = failures + 1
    /\ \/ UNCHANGED database
       \/ BodyOf[Current(c)] \notin Refused /\ Committed(Current(c))
    /\ Fails(c)
    /\ UNCHANGED << queue, stops, slow >>

\* The queue drops the message if the receipt is still current.
DeleteMessage(c) ==
    /\ pc[c] = "delete"
    /\ place' = IF IsCurrent(batch[c][1])
                THEN [place EXCEPT ![Current(c)] = "gone"] ELSE place
    /\ hidden' = IF IsCurrent(batch[c][1])
                 THEN [hidden EXCEPT ![Current(c)] = FALSE] ELSE hidden
    /\ Advances(c)
    /\ UNCHANGED << receives, database, failures, stops, slow >>

DeleteFails(c) ==
    /\ pc[c] = "delete"
    /\ failures < MaxFailures /\ failures' = failures + 1
    /\ Advances(c)
    /\ UNCHANGED << queue, database, stops, slow >>

\* The context is cancelled or the process dies.  What is not committed is rolled
\* back, but a COMMIT under way may get through.  The deliveries not yet handled
\* are released, those whose call gets through; a message handled and not yet
\* deleted waits for its visibility to end.
Stop(c) ==
    /\ pc[c] # "idle"
    /\ stops < MaxStops /\ stops' = stops + 1
    /\ \E released \in SUBSET {d \in InHand(c) : ~ (pc[c] = "delete" /\ d = batch[c][1])} :
          hidden' = [m \in Messages |->
              hidden[m] /\ ~ \E d \in released : d.msg = m /\ IsCurrent(d)]
    /\ pc' = [pc EXCEPT ![c] = "idle"]
    /\ batch' = [batch EXCEPT ![c] = << >>]
    /\ \/ UNCHANGED database
       \/ pc[c] = "process" /\ BodyOf[Current(c)] \notin Refused /\ Committed(Current(c))
    /\ UNCHANGED << place, receives, failures, slow >>

\* Nothing is left to receive: the consumers poll an empty queue.
Polls ==
    /\ \A m \in Messages : place[m] # "queue"
    /\ \A c \in Consumers : pc[c] = "idle"
    /\ UNCHANGED vars

ConsumerStep(c) ==
    \/ Receive(c) \/ Undecodable(c) \/ InboxCreate(c) \/ Commit(c) \/ Refuse(c)
    \/ FailThisTime(c) \/ DeleteMessage(c) \/ DeleteFails(c)

Next ==
    \/ \E c \in Consumers : ConsumerStep(c) \/ Stop(c)
    \/ \E m \in Messages : Redrive(m) \/ VisibilityEnds(m)
    \/ Polls

Spec == Init /\ [][Next]_vars

\* Every loop goes on, and the queue keeps its promises: a visibility ends, and a
\* message delivered too often is moved.
Fairness ==
    /\ \A c \in Consumers : WF_vars(ConsumerStep(c))
    /\ \A m \in Messages : WF_vars(Redrive(m)) /\ WF_vars(VisibilityEnds(m))

FairSpec == Spec /\ Fairness

--------------------------------------------------------------------------------
(* Properties.                                                               *)

Deliveries == [msg : Messages, receipt : 1..MaxReceives]

\* Every variable keeps its type: no message is delivered more often than the
\* redrive policy allows (localstack-init-sqs.sh:15), and a consumer at work has
\* a message at hand.
TypeOK ==
    /\ place \in [Messages -> {"queue", "gone", "dead"}]
    /\ hidden \in [Messages -> BOOLEAN]
    /\ receives \in [Messages -> 0..MaxReceives]
    /\ inbox \in [Ids -> Messages \cup {None}]
    /\ effects \in [Messages -> Nat]
    /\ pc \in [Consumers -> {"idle", "handle", "process", "delete"}]
    /\ batch \in [Consumers -> Seq(Deliveries)]
    /\ \A c \in Consumers : pc[c] = "idle" <=> batch[c] = << >>
    /\ failures \in 0..MaxFailures /\ stops \in 0..MaxStops /\ slow \in 0..MaxSlow

\* The messages of one id have one effect between them, committed with the inbox
\* row, whoever is handling a delivery of them at the same time
\* (consumer.go:140-152, ARCHITECTURE.md:229-237).
OneEffectPerId ==
    \A m \in Messages :
        effects[m] = IF inbox[IdOf[m]] = m THEN 1 ELSE 0

\* A message leaves the queue only after the handling of its id has committed, so
\* that a stop, a failure or a stale receipt loses none (consumer.go:94-106).
RemovedAfterCommit ==
    \A m \in Messages : place[m] = "gone" => inbox[IdOf[m]] # None

\* A message that could be handled reaches the dead-letter queue unhandled only
\* after as many failures, stops and overrun visibilities as it has deliveries:
\* what happens to the messages before it in a batch or in its group costs it none
\* (consumer.go:89-106, localstack-init-sqs.sh:15).
DeadOnlyAfterFailures ==
    \A m \in Messages :
        place[m] = "dead" /\ BodyOf[m] \in Valid \ Refused /\ inbox[IdOf[m]] = None
        => failures + stops + slow >= MaxReceives

\* Consumers, however their deliveries overlap, make up one channel to the ledger,
\* for which nothing is a reason to hand an id over twice: an error of COMMIT and a
\* stop before the delete are not (consumer.go:94-152).
MessagesOf(i) == {m \in Messages : IdOf[m] = i}
EffectsOf(i)  == UNION {{m} \X (1..effects[m]) : m \in MessagesOf(i)}

Channel == INSTANCE Delivery WITH
    Items   <- Ids,
    state   <- [i \in Ids |-> IF \E m \in MessagesOf(i) : place[m] = "gone"
                              THEN "settled" ELSE "pending"],
    handed  <- [i \in Ids |-> Cardinality(EffectsOf(i))],
    reasons <- [i \in Ids |-> 0]

ImplementsDelivery == Channel!Spec

\* Every message is handled and removed, or ends in the dead-letter queue: a bad
\* one does not hold its group back for ever (consumer.go:92-101).
EveryMessageSettles ==
    \A m \in Messages : place[m] = "queue" ~> place[m] # "queue"

--------------------------------------------------------------------------------
(* A statement of the documents that the code does not keep.                 *)

\* README.md:588: the hash of the message is verified on a redelivery, so a
\* message is taken for a duplicate only of one with the same body.
DuplicateHasSameBody ==
    \A m \in Messages :
        place[m] = "gone" => BodyOf[inbox[IdOf[m]]] = BodyOf[m]
================================================================================
