------------------------------ MODULE OutboxProofs ------------------------------
(***************************************************************************)
(* Theorems about the outbox, for any number of events and publishers:     *)
(* what is marked was sent, every copy and every resend has a reason.      *)
(*                                                                         *)
(* That resends are explained is an argument about tickets.  An event has  *)
(* one when it is committed and gets another with each excuse.  A ticket   *)
(* is in one place: spent on a send, in the batch of a publisher, with a   *)
(* publisher that is about to report a failure, or on the row, which is    *)
(* pending and free.  An UPDATE that frees the row under its new holder    *)
(* puts a ticket back that the late publisher had taken away itself.       *)
(*                                                                         *)
(* From both follows that the publishers are a channel as Delivery has it. *)
(***************************************************************************)
EXTENDS Outbox, FiniteSetTheorems, TLAPS

\* The publishers that will report that sending e failed.
Failing(e) == {p \in Publishers : pc[p] = "failed" /\ rec[p] = e}

\* A row that anybody may claim without an excuse.
Spare(e) == IF row[e].status = "pending" /\ row[e].lease = "free" THEN 1 ELSE 0

\* The tickets of an event are no more than one and one for each excuse.
Tickets(e) ==
    sends[e] + Cardinality(Holders(e)) + Cardinality(Failing(e)) + Spare(e)
        <= 1 + excuses[e]

\* What a row and the publishers that have it say of what was sent.
RowHonest(e) ==
    /\ row[e].status = "absent" =>
          sends[e] = 0 /\ \A p \in Publishers : ~ HasInHand(p, e)
    /\ row[e].status = "published" => sends[e] > 0 /\ row[e].lease = "free"
    /\ \A p \in Publishers : pc[p] = "sent" /\ rec[p] = e => sends[e] > 0

\* A copy more than the windows that ended only while the id is remembered.
CopiesCounted(e) == copies[e] <= windows[e] + (IF e \in remembered THEN 1 ELSE 0)

\* The inductive invariant of the outbox, beside the types.
PubInv == \A e \in Events : Tickets(e) /\ RowHonest(e) /\ CopiesCounted(e)

--------------------------------------------------------------------------------
(* Types.                                                                     *)

\* A publisher that has one record less to send.
LEMMA WorksTyped ==
    ASSUME TypeOK, NEW p \in Publishers, NEW e \in Events, NEW label \in {"sent", "failed"},
           Works(p, e, label), sends' \in [Events -> Nat], copies' \in [Events -> Nat],
           excuses' \in [Events -> Nat], failures' \in Nat, Faults' <= MaxFaults
    PROVE  TypeOK'
  BY OutboxAssumption DEF TypeOK, Works

\* What the queue does with a message keeps its counters counters.
LEMMA AcceptedTyped ==
    ASSUME TypeOK, NEW e \in Events, Accepted(e)
    PROVE  sends' \in [Events -> Nat] /\ copies' \in [Events -> Nat]
  BY DEF TypeOK, Accepted, DedupId

\* A publisher that is done with its record.
LEMMA AdvancesTyped ==
    ASSUME TypeOK, NEW p \in Publishers, pc[p] \in {"sent", "failed"}, Advances(p),
           row' \in [Events -> RowRecords], failures' \in Nat, Faults' <= MaxFaults
    PROVE  TypeOK'
  BY OutboxAssumption DEF TypeOK, Advances, queue

\* Every step keeps the types and the bound on what goes wrong.
LEMMA NextTypeOK == TypeOK /\ [Next]_vars => TypeOK'
  <1> SUFFICES ASSUME TypeOK, [Next]_vars PROVE TypeOK'
    OBVIOUS
  <1>1. ASSUME NEW p \in Publishers, Claim(p) PROVE TypeOK'
    <2>1. PICK S \in Oldest :
             /\ row' = [e \in Events |-> IF e \in S THEN [row[e] EXCEPT !.lease = "held"]
                                                    ELSE row[e]]
             /\ batch' = [batch EXCEPT ![p] = S]
             /\ pc' = [pc EXCEPT ![p] = IF S = {} THEN "idle" ELSE "send"]
             /\ excuses' = [e \in Events |-> IF e \in S /\ row[e].lease = "expired"
                                             THEN excuses[e] + 1 ELSE excuses[e]]
      BY <1>1 DEF Claim
    <2>2. S \in SUBSET Events /\ pc[p] = "idle"
      BY <1>1 DEF Oldest, Claimable, Claim
    <2>3. row' \in [Events -> RowRecords]
      BY <2>1 DEF TypeOK, RowRecords
    <2> QED
      BY <1>1, <2>1, <2>2, <2>3 DEF TypeOK, Claim, queue, Faults
  <1>2. ASSUME NEW p \in Publishers, NEW e \in Events, Send(p, e) PROVE TypeOK'
    <2>1. failures' \in Nat /\ excuses' \in [Events -> Nat] /\ Faults' <= MaxFaults
      BY <1>2 DEF Send, Works, TypeOK, Faults
    <2> QED
      BY <1>2, <2>1, WorksTyped, AcceptedTyped DEF Send
  <1>3. ASSUME NEW p \in Publishers, NEW e \in Events, SendFails(p, e) PROVE TypeOK'
    <2>1. failures' \in Nat /\ Faults' <= MaxFaults
      BY <1>3, OutboxAssumption DEF SendFails, Works, TypeOK, Faults, MayFail
    <2>2. excuses' \in [Events -> Nat]
      BY <1>3 DEF SendFails, TypeOK
    <2>3. sends' \in [Events -> Nat] /\ copies' \in [Events -> Nat]
      BY <1>3, AcceptedTyped DEF SendFails, TypeOK, queue
    <2> QED
      BY <1>3, <2>1, <2>2, <2>3, WorksTyped DEF SendFails, AfterError
  <1>4. ASSUME NEW p \in Publishers, MarkPublished(p) \/ MarkFailed(p) \/ MarkFails(p)
        PROVE  TypeOK'
    <2>1. rec[p] \in Events /\ pc[p] \in {"sent", "failed"}
      BY <1>4 DEF MarkPublished, MarkFailed, MarkFails, TypeOK
    <2>2. row' \in [Events -> RowRecords]
      <3>1. PICK e \in Events : e = rec[p]
        BY <2>1
      <3>2. row[e] \in RowRecords
        BY DEF TypeOK
      <3>3. Published(row[e]) \in RowRecords /\ Failed(row[e]) \in RowRecords
        BY <3>2 DEF Published, Failed, RowRecords
      <3>4. \/ row' = [row EXCEPT ![e] = Published(row[e])]
            \/ row' = [row EXCEPT ![e] = Failed(row[e])]
            \/ row' = row
        BY <1>4, <3>1 DEF MarkPublished, MarkFailed, MarkFails
      <3>5. row \in [Events -> RowRecords]
        BY DEF TypeOK
      <3> QED
        BY <3>3, <3>4, <3>5
    <2>3. failures' \in Nat /\ Faults' <= MaxFaults /\ Advances(p)
      BY <1>4, OutboxAssumption
         DEF MarkPublished, MarkFailed, MarkFails, Advances, TypeOK, Faults, MayFail
    <2> QED
      BY <2>1, <2>2, <2>3, AdvancesTyped
  <1>5. ASSUME NEW p \in Publishers, Stop(p) PROVE TypeOK'
    BY <1>5, OutboxAssumption DEF Stop, TypeOK, queue, Faults, MayFail
  <1>6. ASSUME NEW e \in Events, Create(e) PROVE TypeOK'
    BY <1>6 DEF Create, TypeOK, RowRecords, publisher, queue, Faults
  <1>7. ASSUME NEW e \in Events, LeaseExpires(e) PROVE TypeOK'
    <2>1. row' \in [Events -> RowRecords]
      BY <1>7 DEF LeaseExpires, TypeOK, RowRecords
    <2>2. slow' \in Nat /\ Faults' <= MaxFaults
      BY <1>7, OutboxAssumption DEF LeaseExpires, TypeOK, Faults, MayFail
    <2> QED
      BY <1>7, <2>1, <2>2 DEF LeaseExpires, TypeOK, publisher, queue
  <1>8. ASSUME NEW e \in Events, BackoffElapses(e) PROVE TypeOK'
    BY <1>8 DEF BackoffElapses, TypeOK, RowRecords, publisher, queue, Faults
  <1>9. ASSUME NEW e \in Events, QueueForgets(e) PROVE TypeOK'
    BY <1>9, OutboxAssumption DEF QueueForgets, TypeOK, publisher, Faults, MayFail
  <1>10. CASE UNCHANGED vars
    BY <1>10 DEF vars, publisher, queue, TypeOK, Faults
  <1> QED
    BY <1>1, <1>2, <1>3, <1>4, <1>5, <1>6, <1>7, <1>8, <1>9, <1>10 DEF Next, PublisherStep

\* At the start nothing is anywhere.
LEMMA InitTypeOK == Init => TypeOK
  BY OutboxAssumption DEF Init, TypeOK, Absent, RowRecords, Faults

\* Every variable of the outbox keeps its type, and a publisher has a current
\* record exactly between a send and its mark (publisher.go:121-163).
THEOREM OutboxTypes == Spec => []TypeOK
  BY InitTypeOK, NextTypeOK, PTL DEF Spec

--------------------------------------------------------------------------------
(* Counting tickets.                                                          *)

\* The publishers that have an event in hand can be counted.
LEMMA HandsAreFinite ==
    ASSUME NEW f \in Events
    PROVE  /\ IsFiniteSet(Holders(f)) /\ Cardinality(Holders(f)) \in Nat
           /\ IsFiniteSet(Failing(f)) /\ Cardinality(Failing(f)) \in Nat
           /\ IsFiniteSet(Holders(f)') /\ Cardinality(Holders(f))' \in Nat
           /\ IsFiniteSet(Failing(f)') /\ Cardinality(Failing(f))' \in Nat
  <1>1. /\ Holders(f) \subseteq Publishers /\ Holders(f)' \subseteq Publishers
        /\ Failing(f) \subseteq Publishers /\ Failing(f)' \subseteq Publishers
    BY DEF Holders, Failing
  <1>2. IsFiniteSet(Publishers)
    BY OutboxAssumption
  <1>3. /\ IsFiniteSet(Holders(f)) /\ IsFiniteSet(Holders(f)')
        /\ IsFiniteSet(Failing(f)) /\ IsFiniteSet(Failing(f)')
    BY <1>1, <1>2, FS_Subset
  <1> QED
    BY <1>3, FS_CardinalityType

\* A publisher that comes or goes changes the count by one at most.
LEMMA OneMoreOneLess ==
    ASSUME NEW S, IsFiniteSet(S), NEW x
    PROVE  /\ Cardinality(S \cup {x}) <= Cardinality(S) + 1
           /\ x \in S => Cardinality(S \ {x}) = Cardinality(S) - 1
  <1>1. Cardinality(S) \in Nat
    BY FS_CardinalityType
  <1>2. Cardinality(S \cup {x}) <= Cardinality(S) + 1
    <2>1. Cardinality(S \cup {x}) = IF x \in S THEN Cardinality(S) ELSE Cardinality(S) + 1
      BY FS_AddElement
    <2> QED
      BY <1>1, <2>1
  <1>3. ASSUME x \in S PROVE Cardinality(S \ {x}) = Cardinality(S) - 1
    BY <1>3, FS_RemoveElement
  <1> QED
    BY <1>2, <1>3

\* Nobody takes the event up, the row is as spare as it was.
LEMMA NoTicketTaken ==
    ASSUME TypeOK, NEW f \in Events, Tickets(f),
           Holders(f)' \subseteq Holders(f), Failing(f)' \subseteq Failing(f),
           sends'[f] = sends[f], excuses'[f] = excuses[f], Spare(f)' <= Spare(f),
           Spare(f)' \in 0..1
    PROVE  Tickets(f)'
  <1>1. /\ Cardinality(Holders(f)') <= Cardinality(Holders(f))
        /\ Cardinality(Failing(f)') <= Cardinality(Failing(f))
    BY HandsAreFinite, FS_Subset
  <1>2. /\ sends[f] \in Nat /\ excuses[f] \in Nat /\ Spare(f) \in 0..1
    BY DEF TypeOK, Spare
  <1> QED
    BY <1>1, <1>2, HandsAreFinite DEF Tickets

--------------------------------------------------------------------------------
(* The invariant, action by action.                                           *)

\* A committed event has one ticket, on its row.
LEMMA CreateKeeps ==
    ASSUME TypeOK, PubInv, NEW e \in Events, Create(e)
    PROVE  PubInv'
  <1> SUFFICES ASSUME NEW f \in Events PROVE Tickets(f)' /\ RowHonest(f)' /\ CopiesCounted(f)'
    BY DEF PubInv
  <1>1. Tickets(f) /\ RowHonest(f) /\ CopiesCounted(f)
    BY DEF PubInv
  <1>2. /\ pc' = pc /\ batch' = batch /\ rec' = rec /\ sends' = sends /\ excuses' = excuses
        /\ remembered' = remembered /\ copies' = copies /\ windows' = windows
        /\ row' = [row EXCEPT ![e] = [status |-> "pending", lease |-> "free", due |-> TRUE]]
        /\ row[e].status = "absent"
    BY DEF Create, publisher, queue
  <1>3. Holders(f)' = Holders(f) /\ Failing(f)' = Failing(f)
    BY <1>2 DEF Holders, Failing
  <1>4. Tickets(f)'
    <2>1. CASE f # e
      <3>1. Spare(f)' = Spare(f) /\ Spare(f) \in 0..1
        BY <1>2, <2>1 DEF Spare, TypeOK
      <3> QED
        BY <1>1, <1>2, <1>3, <3>1, NoTicketTaken
    <2>2. CASE f = e
      <3>1. Holders(f) = {} /\ Failing(f) = {} /\ sends[f] = 0
        BY <1>1, <1>2, <2>2 DEF RowHonest, HasInHand, Holders, Failing
      <3>2. Cardinality(Holders(f)') = 0 /\ Cardinality(Failing(f)') = 0
        BY <1>3, <3>1, FS_EmptySet
      <3>3. Spare(f)' \in 0..1 /\ sends'[f] = 0 /\ excuses'[f] \in Nat
        BY <1>2, <3>1 DEF Spare, TypeOK
      <3> QED
        BY <3>2, <3>3 DEF Tickets
    <2> QED
      BY <2>1, <2>2
  <1>5. RowHonest(f)'
    BY <1>1, <1>2 DEF RowHonest, HasInHand, TypeOK
  <1>6. CopiesCounted(f)'
    BY <1>1, <1>2 DEF CopiesCounted
  <1> QED
    BY <1>4, <1>5, <1>6

\* A claim moves the ticket of a free row into the batch; a row whose lease ran
\* out has none, and the excuse is a new one.
LEMMA ClaimKeeps ==
    ASSUME TypeOK, PubInv, NEW p \in Publishers, Claim(p)
    PROVE  PubInv'
  <1> SUFFICES ASSUME NEW f \in Events PROVE Tickets(f)' /\ RowHonest(f)' /\ CopiesCounted(f)'
    BY DEF PubInv
  <1>1. Tickets(f) /\ RowHonest(f) /\ CopiesCounted(f)
    BY DEF PubInv
  <1>2. PICK S \in Oldest :
           /\ row' = [e \in Events |-> IF e \in S THEN [row[e] EXCEPT !.lease = "held"]
                                                  ELSE row[e]]
           /\ batch' = [batch EXCEPT ![p] = S]
           /\ pc' = [pc EXCEPT ![p] = IF S = {} THEN "idle" ELSE "send"]
           /\ excuses' = [e \in Events |-> IF e \in S /\ row[e].lease = "expired"
                                           THEN excuses[e] + 1 ELSE excuses[e]]
    BY DEF Claim
  <1>3. /\ rec' = rec /\ sends' = sends /\ remembered' = remembered /\ copies' = copies
        /\ windows' = windows /\ pc[p] = "idle" /\ batch[p] = {} /\ rec[p] = None
    BY DEF Claim, queue, TypeOK
  <1>4. \A e \in S : /\ e \in Events /\ row[e].status = "pending"
                     /\ row[e].lease \in {"free", "expired"}
    BY DEF Oldest, Claimable, Unleased
  <1>5. Failing(f)' = Failing(f)
    BY <1>2, <1>3 DEF Failing, TypeOK
  <1>6. CASE f \notin S
    <2>1. row'[f] = row[f] /\ excuses'[f] = excuses[f]
      BY <1>2, <1>6
    <2>2. Holders(f)' = Holders(f)
      BY <1>2, <1>3, <1>6 DEF Holders, TypeOK
    <2>3. Spare(f)' = Spare(f) /\ Spare(f) \in 0..1
      BY <2>1 DEF Spare
    <2>4. Tickets(f)'
      BY <1>1, <1>3, <1>5, <2>1, <2>2, <2>3, NoTicketTaken
    <2>5. RowHonest(f)'
      BY <1>1, <1>2, <1>3, <1>6, <2>1 DEF RowHonest, HasInHand, TypeOK
    <2> QED
      BY <1>1, <1>3, <2>4, <2>5 DEF CopiesCounted
  <1>7. CASE f \in S
    <2>1. /\ row'[f] = [row[f] EXCEPT !.lease = "held"] /\ row[f] \in RowRecords
          /\ row[f].status = "pending" /\ row[f].lease \in {"free", "expired"}
          /\ excuses'[f] = IF row[f].lease = "expired" THEN excuses[f] + 1 ELSE excuses[f]
      BY <1>2, <1>4, <1>7 DEF TypeOK
    <2>2. row'[f].lease = "held" /\ row'[f].status = "pending"
      BY <2>1 DEF RowRecords
    <2>3. Holders(f)' = Holders(f) \cup {p}
      BY <1>2, <1>3, <1>7 DEF Holders, TypeOK
    <2>4. Cardinality(Holders(f)') <= Cardinality(Holders(f)) + 1
      BY <2>3, HandsAreFinite, OneMoreOneLess
    <2>5. Spare(f)' = 0 /\ Spare(f) + excuses'[f] = 1 + excuses[f] /\ Spare(f) \in 0..1
      BY <2>1, <2>2 DEF Spare, TypeOK
    <2>6. sends[f] \in Nat /\ excuses[f] \in Nat /\ excuses'[f] \in Nat
      BY <1>7, <2>1 DEF TypeOK
    <2>7. Tickets(f)'
      BY <1>1, <1>3, <1>5, <2>4, <2>5, <2>6, HandsAreFinite DEF Tickets
    <2>8. RowHonest(f)'
      BY <1>1, <1>2, <1>3, <2>2 DEF RowHonest, HasInHand, TypeOK
    <2> QED
      BY <1>1, <1>3, <2>7, <2>8 DEF CopiesCounted
  <1> QED
    BY <1>6, <1>7

\* A publisher that has worked on a record has it no more to send.
LEMMA WorksMoves ==
    ASSUME TypeOK, NEW p \in Publishers, NEW e \in Events, NEW f \in Events,
           NEW label \in {"sent", "failed"}, Works(p, e, label)
    PROVE  /\ row' = row /\ windows' = windows /\ f # None
           /\ Holders(f)' = IF f = e THEN Holders(f) \ {p} ELSE Holders(f)
           /\ f = e => p \in Holders(f)
           /\ Failing(f)' = IF f = e /\ label = "failed" THEN Failing(f) \cup {p} ELSE Failing(f)
           /\ Spare(f)' = Spare(f) /\ Spare(f) \in 0..1
           /\ \A q \in Publishers : HasInHand(q, f)' => HasInHand(q, f)
           /\ \A q \in Publishers : (pc[q] = "sent" /\ rec[q] = f)' =>
                 \/ pc[q] = "sent" /\ rec[q] = f
                 \/ q = p /\ f = e /\ label = "sent"
  <1>1. /\ pc[p] = "send" /\ e \in batch[p] /\ row' = row /\ windows' = windows
        /\ batch' = [batch EXCEPT ![p] = @ \ {e}]
        /\ rec' = [rec EXCEPT ![p] = e]
        /\ pc' = [pc EXCEPT ![p] = label]
    BY DEF Works
  <1>2. /\ \A q \in Publishers : q # p => /\ batch'[q] = batch[q] /\ rec'[q] = rec[q]
                                          /\ pc'[q] = pc[q]
        /\ batch'[p] = batch[p] \ {e} /\ rec'[p] = e /\ pc'[p] = label
    BY <1>1 DEF TypeOK
  <1>3. Holders(f)' = IF f = e THEN Holders(f) \ {p} ELSE Holders(f)
    BY <1>2 DEF Holders
  <1>4. Failing(f)' = IF f = e /\ label = "failed" THEN Failing(f) \cup {p} ELSE Failing(f)
    BY <1>1, <1>2 DEF Failing
  <1>5. f = e => p \in Holders(f)
    BY <1>1 DEF Holders
  <1>6. Spare(f)' = Spare(f) /\ Spare(f) \in 0..1
    BY <1>1 DEF Spare
  <1>7. \A q \in Publishers : HasInHand(q, f)' => HasInHand(q, f)
    BY <1>1, <1>2 DEF HasInHand
  <1> QED
    BY <1>1, <1>2, <1>3, <1>4, <1>5, <1>6, <1>7, OutboxAssumption

\* What the queue accepted is one send more; a copy only of what it has forgotten.
LEMMA AcceptedCounts ==
    ASSUME TypeOK, NEW e \in Events, NEW f \in Events, Accepted(e), windows' = windows,
           CopiesCounted(f)
    PROVE  /\ sends'[f] = IF f = e THEN sends[f] + 1 ELSE sends[f]
           /\ CopiesCounted(f)'
  <1>1. sends'[f] = IF f = e THEN sends[f] + 1 ELSE sends[f]
    BY DEF Accepted, TypeOK
  <1>2. CASE f = e
    BY <1>2 DEF Accepted, TypeOK, CopiesCounted, DedupId
  <1>3. CASE f # e
    BY <1>3 DEF Accepted, TypeOK, CopiesCounted, DedupId
  <1> QED
    BY <1>1, <1>2, <1>3

\* A send spends the ticket of the batch.
LEMMA SendKeeps ==
    ASSUME TypeOK, PubInv, NEW p \in Publishers, NEW e \in Events, Send(p, e)
    PROVE  PubInv'
  <1> SUFFICES ASSUME NEW f \in Events PROVE Tickets(f)' /\ RowHonest(f)' /\ CopiesCounted(f)'
    BY DEF PubInv
  <1>1. Tickets(f) /\ RowHonest(f) /\ CopiesCounted(f)
    BY DEF PubInv
  <1>2. Works(p, e, "sent") /\ Accepted(e) /\ excuses' = excuses
    BY DEF Send
  <1>3. /\ row' = row /\ windows' = windows
        /\ Holders(f)' = IF f = e THEN Holders(f) \ {p} ELSE Holders(f)
        /\ f = e => p \in Holders(f)
        /\ Failing(f)' = Failing(f)
        /\ Spare(f)' = Spare(f) /\ Spare(f) \in 0..1
        /\ \A q \in Publishers : HasInHand(q, f)' => HasInHand(q, f)
        /\ \A q \in Publishers : (pc[q] = "sent" /\ rec[q] = f)' =>
              (pc[q] = "sent" /\ rec[q] = f) \/ f = e
    BY <1>2, WorksMoves
  <1>4. sends'[f] = (IF f = e THEN sends[f] + 1 ELSE sends[f]) /\ CopiesCounted(f)'
    BY <1>1, <1>2, <1>3, AcceptedCounts
  <1>5. sends[f] \in Nat /\ excuses[f] \in Nat
    BY DEF TypeOK
  <1>6. Tickets(f)'
    <2>1. CASE f # e
      BY <1>1, <1>2, <1>3, <1>4, <2>1, NoTicketTaken
    <2>2. CASE f = e
      <3>1. Cardinality(Holders(f)') = Cardinality(Holders(f)) - 1
        BY <1>3, <2>2, HandsAreFinite, OneMoreOneLess
      <3>2. Cardinality(Failing(f)') = Cardinality(Failing(f)) /\ excuses'[f] = excuses[f]
        BY <1>2, <1>3
      <3> QED
        BY <1>1, <1>3, <1>4, <1>5, <2>2, <3>1, <3>2, HandsAreFinite DEF Tickets
    <2> QED
      BY <2>1, <2>2
  <1>7. RowHonest(f)'
    <2>1. f = e => HasInHand(p, f)
      BY <1>3 DEF Holders, HasInHand
    <2>2. f = e => row[f].status # "absent" /\ sends'[f] > 0
      BY <1>1, <1>4, <1>5, <2>1 DEF RowHonest
    <2>3. sends[f] > 0 => sends'[f] > 0
      BY <1>4, <1>5
    <2> QED
      BY <1>1, <1>3, <1>4, <2>2, <2>3 DEF RowHonest
  <1> QED
    BY <1>4, <1>6, <1>7

\* A send that fails leaves its ticket with the report; a success that the error
\* hid is paid with an excuse.
LEMMA SendFailsKeeps ==
    ASSUME TypeOK, PubInv, NEW p \in Publishers, NEW e \in Events, SendFails(p, e)
    PROVE  PubInv'
  <1> SUFFICES ASSUME NEW f \in Events PROVE Tickets(f)' /\ RowHonest(f)' /\ CopiesCounted(f)'
    BY DEF PubInv
  <1>1. Tickets(f) /\ RowHonest(f) /\ CopiesCounted(f)
    BY DEF PubInv
  <1>2. /\ Works(p, e, "failed")
        /\ \/ UNCHANGED << queue, excuses >>
           \/ Accepted(e) /\ excuses' = [excuses EXCEPT ![e] = @ + 1]
    BY DEF SendFails, AfterError
  <1>3. /\ row' = row /\ windows' = windows
        /\ Holders(f)' = IF f = e THEN Holders(f) \ {p} ELSE Holders(f)
        /\ f = e => p \in Holders(f)
        /\ Failing(f)' = IF f = e THEN Failing(f) \cup {p} ELSE Failing(f)
        /\ Spare(f)' = Spare(f) /\ Spare(f) \in 0..1
        /\ \A q \in Publishers : HasInHand(q, f)' => HasInHand(q, f)
        /\ \A q \in Publishers : (pc[q] = "sent" /\ rec[q] = f)' =>
              (pc[q] = "sent" /\ rec[q] = f)
    BY <1>2, WorksMoves
  <1>4. sends[f] \in Nat /\ excuses[f] \in Nat
    BY DEF TypeOK
  <1>5. /\ CopiesCounted(f)'
        /\ sends'[f] \in Nat /\ excuses'[f] \in Nat
        /\ sends'[f] >= sends[f]
        /\ sends'[f] - sends[f] = excuses'[f] - excuses[f]
        /\ f # e => sends'[f] = sends[f] /\ excuses'[f] = excuses[f]
    <2>1. CASE UNCHANGED << queue, excuses >>
      BY <1>1, <1>3, <1>4, <2>1 DEF queue, CopiesCounted
    <2>2. CASE Accepted(e) /\ excuses' = [excuses EXCEPT ![e] = @ + 1]
      <3>1. sends'[f] = (IF f = e THEN sends[f] + 1 ELSE sends[f]) /\ CopiesCounted(f)'
        BY <1>1, <1>3, <2>2, AcceptedCounts
      <3>2. excuses'[f] = IF f = e THEN excuses[f] + 1 ELSE excuses[f]
        BY <2>2 DEF TypeOK
      <3> QED
        BY <1>4, <3>1, <3>2
    <2> QED
      BY <1>2, <2>1, <2>2
  <1>6. Tickets(f)'
    <2>1. CASE f # e
      BY <1>1, <1>3, <1>5, <2>1, NoTicketTaken
    <2>2. CASE f = e
      <3>1. Cardinality(Holders(f)') = Cardinality(Holders(f)) - 1
        BY <1>3, <2>2, HandsAreFinite, OneMoreOneLess
      <3>2. Cardinality(Failing(f)') <= Cardinality(Failing(f)) + 1
        BY <1>3, <2>2, HandsAreFinite, OneMoreOneLess
      <3>3. /\ Cardinality(Holders(f)) \in Nat /\ Cardinality(Failing(f)) \in Nat
            /\ Cardinality(Failing(f)') \in Nat
        BY HandsAreFinite
      <3>4. Spare(f)' = Spare(f) /\ Spare(f) \in Nat
        BY <1>3
      <3>5. sends[f] + Cardinality(Holders(f)) + Cardinality(Failing(f)) + Spare(f)
               <= 1 + excuses[f]
        BY <1>1 DEF Tickets
      <3>6. sends'[f] - sends[f] = excuses'[f] - excuses[f] /\ sends'[f] \in Nat
            /\ excuses'[f] \in Nat
        BY <1>5
      <3> QED
        BY <1>4, <3>1, <3>2, <3>3, <3>4, <3>5, <3>6 DEF Tickets
    <2> QED
      BY <2>1, <2>2
  <1>7. RowHonest(f)'
    <2>1. f = e => HasInHand(p, f)
      BY <1>3 DEF Holders, HasInHand
    <2>2. f = e => row[f].status # "absent"
      BY <1>1, <2>1 DEF RowHonest
    <2>3. sends[f] > 0 => sends'[f] > 0
      BY <1>4, <1>5
    <2> QED
      BY <1>1, <1>3, <1>5, <2>2, <2>3 DEF RowHonest
  <1> QED
    BY <1>5, <1>6, <1>7

\* A publisher that is done with its record: what it had to report is reported.
LEMMA AdvancesMoves ==
    ASSUME TypeOK, NEW p \in Publishers, NEW f \in Events,
           pc[p] \in {"sent", "failed"}, Advances(p)
    PROVE  /\ sends' = sends /\ excuses' = excuses /\ windows' = windows
           /\ copies' = copies /\ remembered' = remembered
           /\ Holders(f)' = Holders(f)
           /\ Failing(f)' = IF rec[p] = f /\ pc[p] = "failed" THEN Failing(f) \ {p} ELSE Failing(f)
           /\ \A q \in Publishers : HasInHand(q, f)' => HasInHand(q, f)
           /\ \A q \in Publishers : (pc[q] = "sent" /\ rec[q] = f)' =>
                 pc[q] = "sent" /\ rec[q] = f
  <1>1. /\ sends' = sends /\ excuses' = excuses /\ windows' = windows
        /\ copies' = copies /\ remembered' = remembered /\ batch' = batch
        /\ rec' = [rec EXCEPT ![p] = None]
        /\ pc' = [pc EXCEPT ![p] = IF batch[p] = {} THEN "idle" ELSE "send"]
    BY DEF Advances, queue
  <1>2. /\ \A q \in Publishers : q # p => rec'[q] = rec[q] /\ pc'[q] = pc[q]
        /\ rec'[p] = None /\ pc'[p] \in {"idle", "send"} /\ f # None
    BY <1>1, OutboxAssumption DEF TypeOK
  <1>3. Holders(f)' = Holders(f)
    BY <1>1 DEF Holders
  <1>4. Failing(f)' = IF rec[p] = f /\ pc[p] = "failed" THEN Failing(f) \ {p} ELSE Failing(f)
    BY <1>2 DEF Failing
  <1>5. \A q \in Publishers : HasInHand(q, f)' => HasInHand(q, f)
    BY <1>1, <1>2 DEF HasInHand
  <1> QED
    BY <1>1, <1>2, <1>3, <1>4, <1>5

\* A row marked published was sent; its ticket, if it had one, is gone.
LEMMA MarkPublishedKeeps ==
    ASSUME TypeOK, PubInv, NEW p \in Publishers, MarkPublished(p)
    PROVE  PubInv'
  <1> SUFFICES ASSUME NEW f \in Events PROVE Tickets(f)' /\ RowHonest(f)' /\ CopiesCounted(f)'
    BY DEF PubInv
  <1>1. Tickets(f) /\ RowHonest(f) /\ CopiesCounted(f)
    BY DEF PubInv
  <1>2. pc[p] = "sent" /\ Advances(p) /\ row' = [row EXCEPT ![rec[p]] = Published(row[rec[p]])]
    BY DEF MarkPublished
  <1>3. /\ sends' = sends /\ excuses' = excuses /\ windows' = windows
        /\ copies' = copies /\ remembered' = remembered
        /\ Holders(f)' = Holders(f) /\ Failing(f)' = Failing(f)
        /\ \A q \in Publishers : HasInHand(q, f)' => HasInHand(q, f)
        /\ \A q \in Publishers : (pc[q] = "sent" /\ rec[q] = f)' => pc[q] = "sent" /\ rec[q] = f
    BY <1>2, AdvancesMoves
  <1>4. row'[f] = IF rec[p] = f THEN Published(row[f]) ELSE row[f]
    BY <1>2 DEF TypeOK
  <1>5. row[f] \in RowRecords
    BY DEF TypeOK
  <1>6. /\ row'[f] = row[f] \/ (row'[f].status = "published" /\ row'[f].lease = "free")
        /\ row'[f] = row[f] \/ rec[p] = f
    BY <1>4, <1>5 DEF Published, RowRecords
  <1>7. Spare(f)' <= Spare(f) /\ Spare(f)' \in 0..1
    BY <1>6 DEF Spare
  <1>8. Tickets(f)'
    BY <1>1, <1>3, <1>7, NoTicketTaken
  <1>9. RowHonest(f)'
    BY <1>1, <1>2, <1>3, <1>6 DEF RowHonest
  <1> QED
    BY <1>1, <1>3, <1>8, <1>9 DEF CopiesCounted

\* A failure reported gives the ticket back to the row, whoever holds it by now.
LEMMA MarkFailedKeeps ==
    ASSUME TypeOK, PubInv, NEW p \in Publishers, MarkFailed(p)
    PROVE  PubInv'
  <1> SUFFICES ASSUME NEW f \in Events PROVE Tickets(f)' /\ RowHonest(f)' /\ CopiesCounted(f)'
    BY DEF PubInv
  <1>1. Tickets(f) /\ RowHonest(f) /\ CopiesCounted(f)
    BY DEF PubInv
  <1>2. pc[p] = "failed" /\ Advances(p) /\ row' = [row EXCEPT ![rec[p]] = Failed(row[rec[p]])]
    BY DEF MarkFailed
  <1>3. /\ sends' = sends /\ excuses' = excuses /\ windows' = windows
        /\ copies' = copies /\ remembered' = remembered
        /\ Holders(f)' = Holders(f)
        /\ Failing(f)' = IF rec[p] = f THEN Failing(f) \ {p} ELSE Failing(f)
        /\ \A q \in Publishers : HasInHand(q, f)' => HasInHand(q, f)
        /\ \A q \in Publishers : (pc[q] = "sent" /\ rec[q] = f)' => pc[q] = "sent" /\ rec[q] = f
    BY <1>2, AdvancesMoves
  <1>4. row'[f] = IF rec[p] = f THEN Failed(row[f]) ELSE row[f]
    BY <1>2 DEF TypeOK
  <1>5. row[f] \in RowRecords
    BY DEF TypeOK
  <1>6. /\ row'[f].status = row[f].status
        /\ row'[f] = row[f] \/ row'[f].lease = "free"
        /\ rec[p] # f => row'[f] = row[f]
    BY <1>4, <1>5 DEF Failed, RowRecords
  <1>7. Tickets(f)'
    <2>1. CASE rec[p] # f
      <3>1. Spare(f)' = Spare(f) /\ Spare(f) \in 0..1
        BY <1>6, <2>1 DEF Spare
      <3> QED
        BY <1>1, <1>3, <2>1, <3>1, NoTicketTaken
    <2>2. CASE rec[p] = f
      <3>1. p \in Failing(f)
        BY <1>2, <2>2 DEF Failing
      <3>2. Cardinality(Failing(f)') = Cardinality(Failing(f)) - 1
        BY <1>3, <2>2, <3>1, HandsAreFinite, OneMoreOneLess
      <3>3. Spare(f)' \in 0..1 /\ Spare(f) \in 0..1
        BY DEF Spare
      <3>4. sends[f] \in Nat /\ excuses[f] \in Nat
        BY DEF TypeOK
      <3> QED
        BY <1>1, <1>3, <3>2, <3>3, <3>4, HandsAreFinite DEF Tickets
    <2> QED
      BY <2>1, <2>2
  <1>8. RowHonest(f)'
    BY <1>1, <1>3, <1>6 DEF RowHonest
  <1> QED
    BY <1>1, <1>3, <1>7, <1>8 DEF CopiesCounted

\* A mark that fails loses a ticket: the lease has to run out.
LEMMA MarkFailsKeeps ==
    ASSUME TypeOK, PubInv, NEW p \in Publishers, MarkFails(p)
    PROVE  PubInv'
  <1> SUFFICES ASSUME NEW f \in Events PROVE Tickets(f)' /\ RowHonest(f)' /\ CopiesCounted(f)'
    BY DEF PubInv
  <1>1. Tickets(f) /\ RowHonest(f) /\ CopiesCounted(f)
    BY DEF PubInv
  <1>2. pc[p] \in {"sent", "failed"} /\ Advances(p) /\ row' = row
    BY DEF MarkFails
  <1>3. /\ sends' = sends /\ excuses' = excuses /\ windows' = windows
        /\ copies' = copies /\ remembered' = remembered
        /\ Holders(f)' = Holders(f) /\ Failing(f)' \subseteq Failing(f)
        /\ \A q \in Publishers : HasInHand(q, f)' => HasInHand(q, f)
        /\ \A q \in Publishers : (pc[q] = "sent" /\ rec[q] = f)' => pc[q] = "sent" /\ rec[q] = f
    BY <1>2, AdvancesMoves
  <1>4. Spare(f)' = Spare(f) /\ Spare(f) \in 0..1
    BY <1>2 DEF Spare
  <1>5. Tickets(f)'
    BY <1>1, <1>3, <1>4, NoTicketTaken
  <1>6. RowHonest(f)'
    BY <1>1, <1>2, <1>3 DEF RowHonest
  <1> QED
    BY <1>1, <1>3, <1>5, <1>6 DEF CopiesCounted

\* So does a publisher that stops.
LEMMA StopKeeps ==
    ASSUME TypeOK, PubInv, NEW p \in Publishers, Stop(p)
    PROVE  PubInv'
  <1> SUFFICES ASSUME NEW f \in Events PROVE Tickets(f)' /\ RowHonest(f)' /\ CopiesCounted(f)'
    BY DEF PubInv
  <1>1. Tickets(f) /\ RowHonest(f) /\ CopiesCounted(f)
    BY DEF PubInv
  <1>2. /\ row' = row /\ sends' = sends /\ excuses' = excuses /\ windows' = windows
        /\ copies' = copies /\ remembered' = remembered
        /\ pc' = [pc EXCEPT ![p] = "idle"] /\ batch' = [batch EXCEPT ![p] = {}]
        /\ rec' = [rec EXCEPT ![p] = None]
    BY DEF Stop, queue
  <1>3. /\ \A q \in Publishers : q # p => /\ rec'[q] = rec[q] /\ pc'[q] = pc[q]
                                          /\ batch'[q] = batch[q]
        /\ rec'[p] = None /\ pc'[p] = "idle" /\ batch'[p] = {} /\ f # None
    BY <1>2, OutboxAssumption DEF TypeOK
  <1>4. Holders(f)' \subseteq Holders(f) /\ Failing(f)' \subseteq Failing(f)
    BY <1>3 DEF Holders, Failing
  <1>5. /\ \A q \in Publishers : HasInHand(q, f)' => HasInHand(q, f)
        /\ \A q \in Publishers : (pc[q] = "sent" /\ rec[q] = f)' => pc[q] = "sent" /\ rec[q] = f
    BY <1>3 DEF HasInHand
  <1>6. Spare(f)' = Spare(f) /\ Spare(f) \in 0..1
    BY <1>2 DEF Spare
  <1>7. Tickets(f)'
    BY <1>1, <1>2, <1>4, <1>6, NoTicketTaken
  <1>8. RowHonest(f)'
    BY <1>1, <1>2, <1>5 DEF RowHonest
  <1> QED
    BY <1>1, <1>2, <1>7, <1>8 DEF CopiesCounted

\* Time passes over a row: its status stays and it gets no freer.
LEMMA TimeKeeps ==
    ASSUME TypeOK, PubInv, NEW e \in Events,
           LeaseExpires(e) \/ BackoffElapses(e)
    PROVE  PubInv'
  <1> SUFFICES ASSUME NEW f \in Events PROVE Tickets(f)' /\ RowHonest(f)' /\ CopiesCounted(f)'
    BY DEF PubInv
  <1>1. Tickets(f) /\ RowHonest(f) /\ CopiesCounted(f)
    BY DEF PubInv
  <1>2. /\ pc' = pc /\ batch' = batch /\ rec' = rec /\ sends' = sends /\ excuses' = excuses
        /\ copies' = copies /\ remembered' = remembered /\ windows' = windows
        /\ \/ row[e].lease = "held" /\ row' = [row EXCEPT ![e].lease = "expired"]
           \/ row' = [row EXCEPT ![e].due = TRUE]
    BY DEF LeaseExpires, BackoffElapses, publisher, queue
  <1>3. row \in [Events -> RowRecords] /\ row[f] \in RowRecords
    BY DEF TypeOK
  <1>4. /\ row'[f].status = row[f].status
        /\ row'[f].lease = row[f].lease \/ (row[f].lease = "held" /\ row'[f].lease = "expired")
    BY <1>2, <1>3 DEF RowRecords
  <1>5. Spare(f)' = Spare(f) /\ Spare(f) \in 0..1
    BY <1>4 DEF Spare
  <1>6. Holders(f)' = Holders(f) /\ Failing(f)' = Failing(f)
    BY <1>2 DEF Holders, Failing
  <1>7. Tickets(f)'
    BY <1>1, <1>2, <1>5, <1>6, NoTicketTaken
  <1>8. RowHonest(f)'
    BY <1>1, <1>2, <1>4 DEF RowHonest, HasInHand
  <1> QED
    BY <1>1, <1>2, <1>7, <1>8 DEF CopiesCounted

\* When the queue forgets an id, a window has ended.
LEMMA QueueForgetsKeeps ==
    ASSUME TypeOK, PubInv, NEW e \in Events, QueueForgets(e)
    PROVE  PubInv'
  <1> SUFFICES ASSUME NEW f \in Events PROVE Tickets(f)' /\ RowHonest(f)' /\ CopiesCounted(f)'
    BY DEF PubInv
  <1>1. Tickets(f) /\ RowHonest(f) /\ CopiesCounted(f)
    BY DEF PubInv
  <1>2. /\ row' = row /\ pc' = pc /\ batch' = batch /\ rec' = rec /\ sends' = sends
        /\ excuses' = excuses /\ copies' = copies
        /\ e \in remembered /\ remembered' = remembered \ {e}
        /\ windows' = [windows EXCEPT ![e] = @ + 1]
    BY DEF QueueForgets, publisher, DedupId
  <1>3. Spare(f)' = Spare(f) /\ Spare(f) \in 0..1
    BY <1>2 DEF Spare
  <1>4. Holders(f)' = Holders(f) /\ Failing(f)' = Failing(f)
    BY <1>2 DEF Holders, Failing
  <1>5. Tickets(f)'
    BY <1>1, <1>2, <1>3, <1>4, NoTicketTaken
  <1>6. RowHonest(f)'
    BY <1>1, <1>2 DEF RowHonest, HasInHand
  <1>7. CopiesCounted(f)'
    BY <1>1, <1>2 DEF CopiesCounted, TypeOK
  <1> QED
    BY <1>5, <1>6, <1>7

\* Before the first commit no event has a ticket, and none is needed.
LEMMA InitPubInv == Init => PubInv
  <1> SUFFICES ASSUME Init, NEW f \in Events
               PROVE  Tickets(f) /\ RowHonest(f) /\ CopiesCounted(f)
    BY DEF PubInv
  <1>1. Holders(f) = {} /\ Failing(f) = {} /\ Spare(f) = 0
    BY DEF Init, Holders, Failing, Spare, Absent
  <1>2. Tickets(f)
    BY <1>1, FS_EmptySet DEF Tickets, Init
  <1>3. RowHonest(f)
    BY OutboxAssumption DEF Init, RowHonest, HasInHand, Absent
  <1>4. CopiesCounted(f)
    BY DEF Init, CopiesCounted
  <1> QED
    BY <1>2, <1>3, <1>4

\* Every step keeps the invariant.
LEMMA NextPubInv == TypeOK /\ PubInv /\ [Next]_vars => PubInv'
  <1> SUFFICES ASSUME TypeOK, PubInv, [Next]_vars PROVE PubInv'
    OBVIOUS
  <1>1. ASSUME NEW p \in Publishers, PublisherStep(p) PROVE PubInv'
    BY <1>1, ClaimKeeps, SendKeeps, SendFailsKeeps, MarkPublishedKeeps, MarkFailedKeeps,
       MarkFailsKeeps DEF PublisherStep
  <1>2. ASSUME NEW p \in Publishers, Stop(p) PROVE PubInv'
    BY <1>2, StopKeeps
  <1>3. ASSUME NEW e \in Events,
               Create(e) \/ LeaseExpires(e) \/ BackoffElapses(e) \/ QueueForgets(e)
        PROVE  PubInv'
    BY <1>3, CreateKeeps, TimeKeeps, QueueForgetsKeeps
  <1>4. CASE UNCHANGED vars
    BY <1>4 DEF vars, publisher, queue, PubInv, Tickets, RowHonest, CopiesCounted, Holders,
                Failing, Spare, HasInHand
  <1> QED
    BY <1>1, <1>2, <1>3, <1>4 DEF Next

\* The types and the tickets together.
LEMMA PubInvariant == Spec => [](TypeOK /\ PubInv)
  <1>1. Init => TypeOK /\ PubInv
    BY InitTypeOK, InitPubInv
  <1>2. TypeOK /\ PubInv /\ [Next]_vars => (TypeOK /\ PubInv)'
    BY NextTypeOK, NextPubInv
  <1> QED
    BY <1>1, <1>2, PTL DEF Spec

--------------------------------------------------------------------------------
(* What follows.                                                              *)

\* published_at is never set for an event the queue has not got, although any
\* publisher may set it, and nothing uncommitted is sent (publisher.go:144-157).
THEOREM MarksAreTrue == Spec => []PublishedIsSent
  <1>1. PubInv => PublishedIsSent
    BY DEF PubInv, RowHonest, PublishedIsSent
  <1> QED
    BY <1>1, PubInvariant, PTL

\* An event is sent again only after a lease that somebody took over or an error
\* that hid a success, however many publishers there are
\* (outbox_repository.go:60-116).
THEOREM NoSendWithoutReason == Spec => []ResendsExplained
  <1>1. ASSUME TypeOK, PubInv PROVE ResendsExplained
    <2>1. SUFFICES ASSUME NEW f \in Events
                   PROVE  sends[f] + Cardinality(Holders(f)) <= 1 + excuses[f]
      BY DEF ResendsExplained
    <2>2. /\ sends[f] \in Nat /\ excuses[f] \in Nat /\ Spare(f) \in 0..1
          /\ Cardinality(Holders(f)) \in Nat /\ Cardinality(Failing(f)) \in Nat
      BY <1>1, HandsAreFinite DEF TypeOK, Spare
    <2> QED
      BY <1>1, <2>2 DEF PubInv, Tickets
  <1> QED
    BY <1>1, PubInvariant, PTL

\* However often an event is sent, by whomever, the queue keeps one copy of it per
\* deduplication window (publisher.go:141-150).
THEOREM CopiesAreCounted == Spec => []OneCopyPerWindow
  <1>1. ASSUME TypeOK, PubInv PROVE OneCopyPerWindow
    BY <1>1 DEF PubInv, CopiesCounted, OneCopyPerWindow, TypeOK
  <1> QED
    BY <1>1, PubInvariant, PTL

\* A step that leaves a published row published leaves it free, by the invariant,
\* if it puts it in no batch.
LEMMA FinalIfKept ==
    ASSUME PubInv',
           \A e \in Events : row[e].status = "published" =>
               /\ row'[e].status = "published"
               /\ \A p \in Publishers : e \in batch'[p] => e \in batch[p]
    PROVE  \A e \in Events :
               row[e].status = "published" =>
                   /\ row'[e].status = "published" /\ row'[e].lease = "free"
                   /\ \A p \in Publishers : e \in batch'[p] => e \in batch[p]
  BY DEF PubInv, RowHonest

\* Once published a row is never claimed or made pending again, not even by a
\* publisher that lost its lease and reports a failure late
\* (outbox_repository.go:94-116).
THEOREM PublishedStaysPublished == Spec => PublishedIsFinal
  <1> DEFINE Kept(e) == /\ row'[e].status = "published"
                        /\ \A p \in Publishers : e \in batch'[p] => e \in batch[p]
             Final == \A e \in Events : row[e].status = "published" =>
                          /\ row'[e].status = "published" /\ row'[e].lease = "free"
                          /\ \A p \in Publishers : e \in batch'[p] => e \in batch[p]
  <1>1. ASSUME TypeOK, PubInv, PubInv', [Next]_vars PROVE [Final]_vars
    <2> USE <1>1
    <2> SUFFICES ASSUME Next PROVE Final
      OBVIOUS
    <2> SUFFICES ASSUME NEW e \in Events, row[e].status = "published" PROVE Kept(e)
      BY FinalIfKept
    <2>0. row[e] \in RowRecords /\ row \in [Events -> RowRecords]
      BY DEF TypeOK
    <2>1. ASSUME NEW p \in Publishers, Claim(p) PROVE Kept(e)
      <3>1. PICK S \in Oldest :
               /\ row' = [f \in Events |-> IF f \in S THEN [row[f] EXCEPT !.lease = "held"]
                                                      ELSE row[f]]
               /\ batch' = [batch EXCEPT ![p] = S]
        BY <2>1 DEF Claim
      <3>2. e \notin S
        BY DEF Oldest, Claimable
      <3> QED
        BY <3>1, <3>2 DEF TypeOK
    <2>2. ASSUME NEW p \in Publishers, NEW f \in Events, Send(p, f) \/ SendFails(p, f)
          PROVE  Kept(e)
      BY <2>2 DEF Send, SendFails, Works, TypeOK
    <2>3. ASSUME NEW p \in Publishers, MarkPublished(p) \/ MarkFailed(p) \/ MarkFails(p)
          PROVE  Kept(e)
      <3>1. \/ row' = [row EXCEPT ![rec[p]] = Published(row[rec[p]])]
            \/ row' = [row EXCEPT ![rec[p]] = Failed(row[rec[p]])]
            \/ row' = row
        BY <2>3 DEF MarkPublished, MarkFailed, MarkFails
      <3>2. row'[e] \in {Published(row[e]), Failed(row[e]), row[e]}
        BY <2>0, <3>1
      <3>3. batch' = batch
        BY <2>3 DEF MarkPublished, MarkFailed, MarkFails, Advances
      <3> QED
        BY <2>0, <3>2, <3>3 DEF Published, Failed, RowRecords
    <2>4. ASSUME NEW p \in Publishers, Stop(p) PROVE Kept(e)
      BY <2>4 DEF Stop, TypeOK
    <2>5. ASSUME NEW f \in Events, Create(f) PROVE Kept(e)
      BY <2>0, <2>5 DEF Create, publisher
    <2>6. ASSUME NEW f \in Events, LeaseExpires(f) \/ BackoffElapses(f) PROVE Kept(e)
      BY <2>0, <2>6 DEF LeaseExpires, BackoffElapses, publisher, RowRecords
    <2>7. ASSUME NEW f \in Events, QueueForgets(f) PROVE Kept(e)
      BY <2>7 DEF QueueForgets, publisher
    <2> QED
      BY <2>1, <2>2, <2>3, <2>4, <2>5, <2>6, <2>7 DEF Next, PublisherStep
  <1> QED
    BY <1>1, PubInvariant, PTL DEF Spec, PublishedIsFinal

--------------------------------------------------------------------------------
(* The channel.                                                               *)

\* The state of every event in the channel that the publishers make up.
Status == [e \in Events |-> IF row[e].status = "published" THEN "settled" ELSE row[e].status]

\* Where no row changes its status, no event does.
LEMMA StatusStays ==
    ASSUME \A e \in Events : row'[e].status = row[e].status
    PROVE  Status' = Status
  BY DEF Status

\* A publisher that has an event in its batch has a ticket for it.
LEMMA HolderMaySend ==
    ASSUME TypeOK, PubInv, NEW p \in Publishers, NEW e \in Events, e \in batch[p]
    PROVE  Status[e] # "absent" /\ sends[e] <= excuses[e]
  <1>1. RowHonest(e) /\ Tickets(e)
    BY DEF PubInv
  <1>2. row[e].status # "absent"
    BY <1>1 DEF RowHonest, HasInHand
  <1>3. Cardinality(Holders(e)) \in Nat /\ Cardinality(Holders(e)) # 0
    <2>1. IsFiniteSet(Holders(e)) /\ p \in Holders(e)
      BY HandsAreFinite DEF Holders
    <2> QED
      BY <2>1, FS_CardinalityType, FS_EmptySet
  <1>4. Cardinality(Failing(e)) \in Nat /\ Spare(e) \in Nat
    BY HandsAreFinite, FS_CardinalityType DEF Spare
  <1>5. sends[e] \in Nat /\ excuses[e] \in Nat
    BY DEF TypeOK
  <1> QED
    BY <1>1, <1>2, <1>3, <1>4, <1>5 DEF Tickets, Status

\* A claim excuses the events whose leases it takes over.
LEMMA ClaimExcuses ==
    ASSUME TypeOK, NEW p \in Publishers, Claim(p)
    PROVE  Channel!Next
  <1>1. PICK S \in Oldest :
           /\ row' = [e \in Events |-> IF e \in S THEN [row[e] EXCEPT !.lease = "held"]
                                                  ELSE row[e]]
           /\ excuses' = [e \in Events |-> IF e \in S /\ row[e].lease = "expired"
                                           THEN excuses[e] + 1 ELSE excuses[e]]
           /\ sends' = sends
    BY DEF Claim, queue
  <1>2. PICK T : T = {e \in S : row[e].lease = "expired"}
    OBVIOUS
  <1>3. S \subseteq Events /\ \A e \in S : row[e].status = "pending"
    BY DEF Oldest, Claimable
  <1>4. Status' = Status
    <2>1. \A e \in Events : row'[e].status = row[e].status
      BY <1>1 DEF TypeOK, RowRecords
    <2> QED
      BY <2>1, StatusStays
  <1>5. T \in SUBSET Events /\ \A e \in T : Status[e] = "pending"
    BY <1>2, <1>3 DEF Status
  <1>6. excuses' = [e \in Events |-> IF e \in T THEN excuses[e] + 1 ELSE excuses[e]]
    BY <1>1, <1>2
  <1>7. Channel!Excuse(T)
    BY <1>1, <1>4, <1>5, <1>6 DEF Channel!Excuse, Status
  <1> QED
    BY <1>5, <1>7 DEF Channel!Next

\* What the queue accepts is handed over, with an excuse if the publisher is told
\* of an error.
LEMMA SendHands ==
    ASSUME TypeOK, PubInv, NEW p \in Publishers, NEW e \in Events,
           Send(p, e) \/ SendFails(p, e)
    PROVE  Channel!Next \/ UNCHANGED << Status, sends, excuses >>
  <1>1. row' = row /\ e \in batch[p]
    BY DEF Send, SendFails, Works
  <1>2. Status' = Status
    BY <1>1, StatusStays
  <1>3. CASE sends' = sends /\ excuses' = excuses
    BY <1>2, <1>3
  <1>4. CASE /\ sends' = [sends EXCEPT ![e] = @ + 1]
             /\ excuses' = excuses \/ excuses' = [excuses EXCEPT ![e] = @ + 1]
    <2>1. Channel!Hand(e)
      BY <1>1, <1>2, <1>4, HolderMaySend DEF Channel!Hand, Status
    <2> QED
      BY <2>1 DEF Channel!Next
  <1> QED
    BY <1>3, <1>4 DEF Send, SendFails, Accepted, queue

\* A mark settles an event that has been sent, or one that is settled already.
LEMMA MarkSettles ==
    ASSUME TypeOK, PubInv, NEW p \in Publishers, MarkPublished(p)
    PROVE  Channel!Next \/ UNCHANGED << Status, sends, excuses >>
  <1>1. pc[p] = "sent" /\ rec[p] # None /\ rec[p] \in Events
    BY DEF MarkPublished, TypeOK
  <1>2. PICK e \in Events : e = rec[p]
    BY <1>1
  <1>3. /\ row' = [row EXCEPT ![e] = Published(row[e])]
        /\ sends' = sends /\ excuses' = excuses
    BY <1>2 DEF MarkPublished, Advances, queue
  <1>4. sends[e] > 0 /\ row[e].status # "absent" /\ row[e].status \in {"absent", "pending", "published"}
    BY <1>1, <1>2 DEF PubInv, RowHonest, HasInHand, TypeOK, RowRecords
  <1>5. \A f \in Events : row'[f].status = IF f = e THEN "published" ELSE row[f].status
    BY <1>3 DEF TypeOK, RowRecords, Published
  <1>6. CASE row[e].status = "published"
    <2>1. \A f \in Events : row'[f].status = row[f].status
      BY <1>5, <1>6
    <2> QED
      BY <1>3, <2>1, StatusStays
  <1>7. CASE row[e].status = "pending"
    <2>1. Status' = [Status EXCEPT ![e] = "settled"] /\ Status[e] = "pending"
      BY <1>5, <1>7 DEF Status
    <2>2. Channel!Settle(e)
      BY <1>3, <1>4, <2>1 DEF Channel!Settle, Status
    <2> QED
      BY <2>2 DEF Channel!Next
  <1> QED
    BY <1>4, <1>6, <1>7

\* Every step is one of the channel or changes nothing in it.
LEMMA NextDelivers ==
    TypeOK /\ PubInv /\ [Next]_vars => [Channel!Next]_<< Status, sends, excuses >>
  <1> SUFFICES ASSUME TypeOK, PubInv, [Next]_vars
               PROVE  Channel!Next \/ UNCHANGED << Status, sends, excuses >>
    OBVIOUS
  <1>1. ASSUME NEW p \in Publishers, MarkFailed(p) \/ MarkFails(p) \/ Stop(p)
        PROVE  UNCHANGED << Status, sends, excuses >>
    <2>1. sends' = sends /\ excuses' = excuses
      BY <1>1 DEF MarkFailed, MarkFails, Stop, Advances, queue
    <2>2. \A e \in Events : row'[e].status = row[e].status
      <3>1. CASE row' = row
        BY <3>1
      <3>2. CASE MarkFailed(p)
        <4>1. PICK e \in Events : e = rec[p]
          BY <3>2 DEF MarkFailed, TypeOK
        <4>2. /\ row' = [row EXCEPT ![e] = Failed(row[e])]
              /\ Failed(row[e]).status = row[e].status
          BY <3>2, <4>1 DEF MarkFailed, Failed, TypeOK, RowRecords
        <4> QED
          BY <4>2 DEF TypeOK
      <3> QED
        BY <1>1, <3>1, <3>2 DEF MarkFails, Stop
    <2> QED
      BY <2>1, <2>2, StatusStays
  <1>2. ASSUME NEW e \in Events, LeaseExpires(e) \/ BackoffElapses(e) \/ QueueForgets(e)
        PROVE  UNCHANGED << Status, sends, excuses >>
    <2>1. sends' = sends /\ excuses' = excuses
      BY <1>2 DEF LeaseExpires, BackoffElapses, QueueForgets, queue
    <2>2. \A f \in Events : row'[f].status = row[f].status
      BY <1>2 DEF LeaseExpires, BackoffElapses, QueueForgets, TypeOK, RowRecords
    <2> QED
      BY <2>1, <2>2, StatusStays
  <1>3. ASSUME NEW e \in Events, Create(e) PROVE Channel!Next
    <2>1. /\ row[e].status = "absent" /\ sends' = sends /\ excuses' = excuses
          /\ \A f \in Events : row'[f].status = IF f = e THEN "pending" ELSE row[f].status
      BY <1>3 DEF Create, queue, TypeOK, RowRecords
    <2>2. Status' = [Status EXCEPT ![e] = "pending"] /\ Status[e] = "absent"
      BY <2>1 DEF Status
    <2>3. Channel!Offer(e)
      BY <2>1, <2>2 DEF Channel!Offer, Status
    <2> QED
      BY <2>3 DEF Channel!Next
  <1>4. CASE UNCHANGED vars
    <2>1. row' = row /\ sends' = sends /\ excuses' = excuses
      BY <1>4 DEF vars, queue
    <2> QED
      BY <2>1, StatusStays
  <1> QED
    BY <1>1, <1>2, <1>3, <1>4, ClaimExcuses, SendHands, MarkSettles DEF Next, PublisherStep

\* Publishers, however many and however late, make up one channel that sends an
\* event once, again only for a reason, and settles it for good after a send
\* (publisher.go:91-163, outbox_repository.go:94-116).
THEOREM OutboxDelivers == Spec => ImplementsDelivery
  <1>1. Init => Channel!Init
    <2> SUFFICES ASSUME Init PROVE Channel!Init
      OBVIOUS
    <2>1. \A e \in Events : row[e].status = "absent"
      BY DEF Init, Absent
    <2>2. Status \in [Events -> {"absent", "pending"}]
      BY <2>1 DEF Status
    <2> QED
      BY <2>2 DEF Channel!Init, Init, Status
  <1>2. TypeOK /\ PubInv /\ [Next]_vars => [Channel!Next]_<< Status, sends, excuses >>
    BY NextDelivers
  <1> QED
    BY <1>1, <1>2, PubInvariant, PTL DEF Spec, ImplementsDelivery, Channel!Spec, Status
================================================================================
