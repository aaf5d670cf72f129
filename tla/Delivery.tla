-------------------------------- MODULE Delivery --------------------------------
(***************************************************************************)
(* What a channel promises that delivers at least once and keeps account:  *)
(* an item that is there is handed over once, again only when something    *)
(* has gone wrong with it since, and it is settled, for good, only after   *)
(* it has been handed over.  The outbox is such a channel to the queue of  *)
(* events, the consumer one from the queue of commands to the ledger.      *)
(* Leases, retries, batches and receipts are how they do it.               *)
(***************************************************************************)
EXTENDS Integers

CONSTANT Items

VARIABLES
    state,      \* of an item: absent, pending or settled
    handed,     \* how often it was handed over
    reasons     \* how often something went wrong that allows once more

\* Some items may be there from the start.
Init ==
    /\ state \in [Items -> {"absent", "pending"}]
    /\ handed = [i \in Items |-> 0]
    /\ reasons = [i \in Items |-> 0]

Offer(i) ==
    /\ state[i] = "absent"
    /\ state' = [state EXCEPT ![i] = "pending"]
    /\ UNCHANGED << handed, reasons >>

\* Nobody may know that it was handed over: then it may be once more.
Hand(i) ==
    /\ state[i] # "absent"
    /\ handed[i] <= reasons[i]
    /\ handed' = [handed EXCEPT ![i] = @ + 1]
    /\ UNCHANGED reasons \/ reasons' = [reasons EXCEPT ![i] = @ + 1]
    /\ UNCHANGED state

Settle(i) ==
    /\ state[i] = "pending" /\ handed[i] > 0
    /\ state' = [state EXCEPT ![i] = "settled"]
    /\ UNCHANGED << handed, reasons >>

\* Several items at once: those of one claim whose leases have run out.
Excuse(S) ==
    /\ \A i \in S : state[i] = "pending"
    /\ reasons' = [i \in Items |-> IF i \in S THEN reasons[i] + 1 ELSE reasons[i]]
    /\ UNCHANGED << state, handed >>

Next ==
    \/ \E i \in Items : Offer(i) \/ Hand(i) \/ Settle(i)
    \/ \E S \in SUBSET Items : Excuse(S)

Spec == Init /\ [][Next]_<< state, handed, reasons >>
================================================================================
