--------------------------------- MODULE Outbox ---------------------------------
(***************************************************************************)
(* The transactional outbox: publishers of any number of server instances  *)
(* claim committed rows of outbox_events under a lease, send each to the   *)
(* FIFO queue of events and mark it.  A statement or a call to the queue   *)
(* is one step; between two of them anything may happen: the lease runs    *)
(* out while its publisher is still working, another publisher takes over, *)
(* a process stops, a call or an UPDATE fails.                             *)
(*                                                                         *)
(* Time is abstracted to what the WHERE clause of Claim compares: whether  *)
(* a lease is older than the TTL and whether next_attempt_at has come.     *)
(* locked_by and attempts are written but never decide anything, and are   *)
(* left out; the length of the backoff is arbitrary.                       *)
(***************************************************************************)
EXTENDS Integers, FiniteSets

(* An operator whose name ends in Bug is a mistake the code could contain.  *)
(* No specification uses it: each shows that a property notices it.         *)

CONSTANTS
    Events, Publishers,
    OccurredAt,     \* of each event; two events of one commit share it
    BatchSize,      \* claimBatchSize (20 in the code)
    None,
    MaxFaults       \* BOUND: what goes wrong in a behaviour, see Faults

ASSUME OutboxAssumption ==
    /\ OccurredAt \in [Events -> Nat]
    /\ BatchSize \in Nat \ {0}
    /\ None \notin Events /\ IsFiniteSet(Publishers)
    /\ MaxFaults \in Nat

VARIABLES
    row,        \* outbox_events
    pc, batch, rec,            \* of a publisher: records to send, the one sent
    remembered, copies,        \* the queue: deduplication ids, messages kept
    sends,                     \* SendMessage calls the queue accepted
    excuses,                   \* reasons an event has to be sent once more
    windows,                   \* times the queue forgot an event
    failures, stops, slow, forgets

publisher == << pc, batch, rec >>
queue     == << remembered, copies, sends >>
vars == << row, publisher, queue, excuses, windows, failures, stops, slow, forgets >>

Absent == [status |-> "absent", lease |-> "free", due |-> FALSE]

Init ==
    /\ row = [e \in Events |-> Absent]
    /\ pc = [p \in Publishers |-> "idle"]
    /\ batch = [p \in Publishers |-> {}]
    /\ rec = [p \in Publishers |-> None]
    /\ remembered = {}
    /\ copies = [e \in Events |-> 0]
    /\ sends = [e \in Events |-> 0]
    /\ excuses = [e \in Events |-> 0]
    /\ windows = [e \in Events |-> 0]
    /\ failures = 0 /\ stops = 0 /\ slow = 0 /\ forgets = 0

\* Calls and statements that failed, publishers that stopped with work at hand,
\* leases that ran out under a live publisher, deduplication windows that ended.
Faults == failures + stops + slow + forgets
MayFail == Faults < MaxFaults

--------------------------------------------------------------------------------
(* The table.                                                               *)

\* A ledger transaction commits with its event: next_attempt_at defaults to now.
Create(e) ==
    /\ row[e].status = "absent"
    /\ row' = [row EXCEPT ![e] = [status |-> "pending", lease |-> "free", due |-> TRUE]]
    /\ UNCHANGED << publisher, queue, excuses, windows, failures, stops, slow, forgets >>

Unleased_NoTTLBug(e)  == row[e].lease = "free"
Unleased_IgnoredBug(e) == TRUE
Unleased(e)  == row[e].lease \in {"free", "expired"}

Claimable == {e \in Events : row[e].status = "pending" /\ row[e].due /\ Unleased(e)}

\* ORDER BY occurred_at LIMIT: the oldest rows, ties in any order.
Oldest ==
    {S \in SUBSET Claimable :
        /\ Cardinality(S) = IF Cardinality(Claimable) < BatchSize
                            THEN Cardinality(Claimable) ELSE BatchSize
        /\ \A e \in S : \A f \in Claimable \ S : OccurredAt[e] <= OccurredAt[f]}

\* One statement.  SKIP LOCKED makes two of them take disjoint rows, as if one
\* had run after the other.  With nothing to claim the publisher waits a tick.
Claim(p) ==
    /\ pc[p] = "idle"
    /\ \E S \in Oldest :
          /\ row' = [e \in Events |-> IF e \in S THEN [row[e] EXCEPT !.lease = "held"]
                                                 ELSE row[e]]
          /\ batch' = [batch EXCEPT ![p] = S]
          /\ pc' = [pc EXCEPT ![p] = IF S = {} THEN "idle" ELSE "send"]
          /\ excuses' = [e \in Events |-> IF e \in S /\ row[e].lease = "expired"
                                          THEN excuses[e] + 1 ELSE excuses[e]]
    /\ UNCHANGED << rec, queue, windows, failures, stops, slow, forgets >>

--------------------------------------------------------------------------------
(* publishOne, record after record; RETURNING gives them in no order.        *)

\* MessageDeduplicationId is the id of the event, whoever sends it and however
\* often.
DedupId_FreshBug(e) == << e, sends[e] >>
DedupId(e) == e

Accepted(e) ==
    /\ sends' = [sends EXCEPT ![e] = @ + 1]
    /\ remembered' = remembered \cup {DedupId(e)}
    /\ copies' = IF DedupId(e) \in remembered THEN copies
                 ELSE [copies EXCEPT ![e] = @ + 1]

Works(p, e, label) ==
    /\ pc[p] = "send" /\ e \in batch[p]
    /\ batch' = [batch EXCEPT ![p] = @ \ {e}]
    /\ rec' = [rec EXCEPT ![p] = e]
    /\ pc' = [pc EXCEPT ![p] = label]
    /\ UNCHANGED << row, windows, stops, slow, forgets >>

Send(p, e) ==
    /\ Works(p, e, "sent")
    /\ Accepted(e)
    /\ UNCHANGED << excuses, failures >>

AfterError_MarkedBug == "sent"
AfterError == "failed"

\* SendMessage returns an error: the queue has the message or it has not.
SendFails(p, e) ==
    /\ MayFail /\ failures' = failures + 1
    /\ Works(p, e, AfterError)
    /\ \/ UNCHANGED << queue, excuses >>
       \/ Accepted(e) /\ excuses' = [excuses EXCEPT ![e] = @ + 1]

Advances(p) ==
    /\ pc' = [pc EXCEPT ![p] = IF batch[p] = {} THEN "idle" ELSE "send"]
    /\ rec' = [rec EXCEPT ![p] = None]
    /\ UNCHANGED << batch, queue, excuses, windows, stops, slow, forgets >>

\* Both UPDATEs name the row by id alone: they apply whoever holds it by now.
Published(r) == [r EXCEPT !.status = "published", !.lease = "free"]
Failed_RevivesBug(r) == [r EXCEPT !.status = "pending", !.lease = "free", !.due = FALSE]
Failed(r)    == [r EXCEPT !.lease = "free", !.due = FALSE]

MarkPublished(p) ==
    /\ pc[p] = "sent"
    /\ row' = [row EXCEPT ![rec[p]] = Published(@)]
    /\ Advances(p)
    /\ UNCHANGED failures

MarkFailed(p) ==
    /\ pc[p] = "failed"
    /\ row' = [row EXCEPT ![rec[p]] = Failed(@)]
    /\ Advances(p)
    /\ UNCHANGED failures

\* The UPDATE fails: logged, and the lease stays until it runs out.
MarkFails(p) ==
    /\ pc[p] \in {"sent", "failed"}
    /\ MayFail /\ failures' = failures + 1
    /\ Advances(p)
    /\ UNCHANGED row

\* The process ends, or its context is cancelled and every later call fails: the
\* rest of the batch keeps its lease.
Stop(p) ==
    /\ pc[p] # "idle"
    /\ MayFail /\ stops' = stops + 1
    /\ pc' = [pc EXCEPT ![p] = "idle"]
    /\ batch' = [batch EXCEPT ![p] = {}]
    /\ rec' = [rec EXCEPT ![p] = None]
    /\ UNCHANGED << row, queue, excuses, windows, failures, slow, forgets >>

--------------------------------------------------------------------------------
(* Time.                                                                     *)

HasInHand(p, e) == e \in batch[p] \/ rec[p] = e

\* locked_at passes the TTL, perhaps while its publisher is still at work.
LeaseExpires(e) ==
    /\ row[e].lease = "held"
    /\ row' = [row EXCEPT ![e].lease = "expired"]
    /\ IF \E p \in Publishers : HasInHand(p, e)
       THEN MayFail /\ slow' = slow + 1
       ELSE UNCHANGED slow
    /\ UNCHANGED << publisher, queue, excuses, windows, failures, stops, forgets >>

BackoffElapses(e) ==
    /\ row[e].status # "absent" /\ ~ row[e].due
    /\ row' = [row EXCEPT ![e].due = TRUE]
    /\ UNCHANGED << publisher, queue, excuses, windows, failures, stops, slow, forgets >>

\* A FIFO queue remembers a deduplication id for five minutes.
QueueForgets(e) ==
    /\ DedupId(e) \in remembered
    /\ MayFail /\ forgets' = forgets + 1
    /\ remembered' = remembered \ {DedupId(e)}
    /\ windows' = [windows EXCEPT ![e] = @ + 1]
    /\ UNCHANGED << row, publisher, copies, sends, excuses, failures, stops, slow >>

PublisherStep(p) ==
    \/ Claim(p) \/ MarkPublished(p) \/ MarkFailed(p) \/ MarkFails(p)
    \/ \E e \in Events : Send(p, e) \/ SendFails(p, e)

Next ==
    \/ \E p \in Publishers : PublisherStep(p) \/ Stop(p)
    \/ \E e \in Events : Create(e) \/ LeaseExpires(e) \/ BackoffElapses(e) \/ QueueForgets(e)

Spec == Init /\ [][Next]_vars

\* The ticker of every publisher goes on, and time passes.
Fairness ==
    /\ \A p \in Publishers : WF_vars(PublisherStep(p))
    /\ \A e \in Events : WF_vars(LeaseExpires(e)) /\ WF_vars(BackoffElapses(e))

FairSpec == Spec /\ Fairness

--------------------------------------------------------------------------------
(* Properties.                                                               *)

RowRecords == [status : {"absent", "pending", "published"},
               lease : {"free", "held", "expired"}, due : BOOLEAN]

\* Every variable keeps its type, and a publisher has a current record exactly
\* between a send and its mark (publisher.go:121-163).
TypeOK ==
    /\ row \in [Events -> RowRecords]
    /\ pc \in [Publishers -> {"idle", "send", "sent", "failed"}]
    /\ batch \in [Publishers -> SUBSET Events]
    /\ rec \in [Publishers -> Events \cup {None}]
    /\ \A p \in Publishers :
          /\ pc[p] \in {"sent", "failed"} <=> rec[p] # None
          /\ pc[p] = "idle" => batch[p] = {}
    /\ copies \in [Events -> Nat] /\ sends \in [Events -> Nat]
    /\ excuses \in [Events -> Nat] /\ windows \in [Events -> Nat]
    /\ {failures, stops, slow, forgets} \subseteq Nat /\ Faults <= MaxFaults

\* published_at is never set for an event that the queue has not got, although
\* any publisher may set it, and nothing is sent that no transaction committed
\* (publisher.go:144-157).
PublishedIsSent ==
    \A e \in Events :
        /\ row[e].status = "published" => sends[e] > 0
        /\ row[e].status = "absent" => sends[e] = 0

\* An event is sent again only for a reason: a lease that somebody took over
\* when it had run out, or an error that hid a success.  Unowned UPDATEs free a
\* lease under its new holder (outbox_repository.go:94-116), and yet add none.
Holders(e) == {p \in Publishers : e \in batch[p]}

ResendsExplained ==
    \A e \in Events : sends[e] + Cardinality(Holders(e)) <= 1 + excuses[e]

\* However often an event is sent, the queue keeps one copy per deduplication
\* window (publisher.go:141-150).
OneCopyPerWindow == \A e \in Events : copies[e] <= 1 + windows[e]

\* Once published a row is never claimed or made pending again, not even by a
\* publisher that lost its lease and reports a failure late.
PublishedIsFinal ==
    [][\A e \in Events :
          row[e].status = "published" =>
              /\ row'[e].status = "published" /\ row'[e].lease = "free"
              /\ \A p \in Publishers : e \in batch'[p] => e \in batch[p]]_vars

\* Publishers, however many and however late, make up one channel to the queue:
\* an event is sent once, again only after a lease ran out or a send went wrong, and
\* is settled once and for all after a send (publisher.go:91-163,
\* outbox_repository.go:94-116).
Channel == INSTANCE Delivery WITH
    Items   <- Events,
    state   <- [e \in Events |-> IF row[e].status = "published" THEN "settled"
                                                               ELSE row[e].status],
    handed  <- sends,
    reasons <- excuses

ImplementsDelivery == Channel!Spec

\* Every committed event is published at last: a stopped publisher's lease runs
\* out, a failed one's backoff ends, and LIMIT starves none (publisher.go:91-119).
EveryEventPublished ==
    \A e \in Events : row[e].status = "pending" ~> row[e].status = "published"
================================================================================
