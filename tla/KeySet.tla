--------------------------------- MODULE KeySet ---------------------------------
(***************************************************************************)
(* The cache of the identity provider's public keys (internal/infra/idp).  *)
(*                                                                         *)
(* The provider signs with one key, publishes it with those it used before *)
(* and drops old ones.  A server keeps the keys of the last answer it      *)
(* stored.  Callers look a kid up, and refresh the cache when it is        *)
(* unknown; the ticker refreshes it every ten minutes.  Nothing orders the *)
(* refreshes: each asks the provider, then stores what it was told, under  *)
(* a lock that covers the storing only.                                    *)
(*                                                                         *)
(* Time is one bit: whether the last refresh is less than five seconds ago.*)
(* Keys of another type than RSA are skipped and leave no trace here; an   *)
(* answer with a broken RSA key is one more way in which a refresh fails.  *)
(***************************************************************************)
EXTENDS Integers

CONSTANTS
    Callers, Ticker,    \* who may refresh: requests, and the loop in the background
    MaxKid,             \* BOUND: keys the provider signs with, one after the other
    MaxFailures,        \* BOUND: refreshes that fail
    None

ASSUME CallersAssumption == Ticker \notin Callers
ASSUME KeyBoundsAssumption == MaxKid \in Nat \ {0} /\ MaxFailures \in Nat

(* An operator whose name ends in Bug is a mistake the code could contain.  *)
(* No specification uses it: each shows that a property notices it.         *)

VARIABLES
    signer, published,  \* the provider's: the key it signs with, those it publishes
    keys, recent,       \* the cache, and whether it was refreshed just now
    step,               \* where a caller or the ticker is
    kid,                \* what a caller looks up
    body,               \* the answer a refresh holds and has not stored yet
    failures

provider == << signer, published >>
cache    == << keys, recent >>
keyVars  == << provider, cache, step, kid, body, failures >>

Procs == Callers \cup {Ticker}
Kids  == 1..MaxKid

\* NewKeySet refreshes before the server starts, or the server does not start.
KeyInit ==
    /\ signer = 1 /\ published = {1}
    /\ keys = {1} /\ recent = TRUE
    /\ step = [p \in Procs |-> "idle"]
    /\ kid = [p \in Callers |-> None]
    /\ body = [p \in Procs |-> {}]
    /\ failures = 0

GoesTo(p, s) == step' = [step EXCEPT ![p] = s]

--------------------------------------------------------------------------------
(* The provider, and time.                                                   *)

Rotate ==
    /\ signer < MaxKid
    /\ signer' = signer + 1
    /\ published' = published \cup {signer + 1}
    /\ UNCHANGED << cache, step, kid, body, failures >>

Retire(k) ==
    /\ k \in published \ {signer}
    /\ published' = published \ {k}
    /\ UNCHANGED << signer, cache, step, kid, body, failures >>

\* Five seconds pass.
Ages ==
    /\ recent
    /\ recent' = FALSE
    /\ UNCHANGED << provider, keys, step, kid, body, failures >>

--------------------------------------------------------------------------------
(* refresh.                                                                  *)

\* The provider answers with what it publishes at this moment.
Told(p) ==
    /\ step[p] = "fetch"
    /\ GoesTo(p, "store")
    /\ body' = [body EXCEPT ![p] = published]
    /\ UNCHANGED << provider, cache, kid, failures >>

\* The loop ignores the error of a refresh and waits for the next tick; a lookup
\* returns it.
AfterFailure_StopsBug(p) == IF p = Ticker THEN "stopped" ELSE "refused"
AfterFailure(p) == IF p = Ticker THEN "idle" ELSE "refused"

RefreshFails(p) ==
    /\ step[p] = "fetch"
    /\ failures < MaxFailures
    /\ failures' = failures + 1
    /\ GoesTo(p, AfterFailure(p))
    /\ UNCHANGED << provider, cache, kid, body >>

\* The map is replaced as a whole.
Replaced_MergedBug(p) == keys \cup body[p]
Replaced(p) == body[p]

Store(p) ==
    /\ step[p] = "store"
    /\ keys' = Replaced(p)
    /\ recent' = TRUE
    /\ body' = [body EXCEPT ![p] = {}]
    /\ GoesTo(p, IF p = Ticker THEN "idle" ELSE "again")
    /\ UNCHANGED << provider, kid, failures >>

Tick ==
    /\ step[Ticker] = "idle"
    /\ GoesTo(Ticker, "fetch")
    /\ UNCHANGED << provider, cache, kid, body, failures >>

--------------------------------------------------------------------------------
(* Key.                                                                      *)

Asks(p, k) ==
    /\ step[p] = "idle"
    /\ GoesTo(p, "look")
    /\ kid' = [kid EXCEPT ![p] = k]
    /\ UNCHANGED << provider, cache, body, failures >>

\* The cache and its age are read together; a miss refreshes unless the cache is
\* that fresh.
Look(p) ==
    /\ step[p] = "look"
    /\ GoesTo(p, IF kid[p] \in keys THEN "found" ELSE IF recent THEN "refused" ELSE "fetch")
    /\ UNCHANGED << provider, cache, kid, body, failures >>

\* The second look takes the lock anew: it may meet what another one stored.
LookAgain(p) ==
    /\ step[p] = "again"
    /\ GoesTo(p, IF kid[p] \in keys THEN "found" ELSE "refused")
    /\ UNCHANGED << provider, cache, kid, body, failures >>

RefreshStep(p) == Told(p) \/ RefreshFails(p) \/ Store(p)
KeyStep(p)     == RefreshStep(p) \/ Look(p) \/ LookAgain(p)
Elsewhere      == Rotate \/ (\E k \in Kids : Retire(k)) \/ Ages
================================================================================
