------------------------------- MODULE HttpProofs --------------------------------
(***************************************************************************)
(* Theorems about the HTTP API, for any callers, clients, roles and        *)
(* rotations of keys: what runs was entitled to, and a status tells the    *)
(* provider what became of its wager.                                      *)
(*                                                                         *)
(* A request is judged in several steps, by keys that change meanwhile.    *)
(* Every answer of the provider and every cache hold keys it has signed    *)
(* with, so a kid that is found is one of them; and while a request is on  *)
(* its way the kid looked up is the kid of its token, and nothing has run. *)
(***************************************************************************)
EXTENDS HttpApi, TLAPS

\* Where a caller or the ticker may be.
Steps == {"idle", "look", "fetch", "store", "again", "found", "refused"}

\* The keys anybody holds are keys that the provider signs or has signed with.
KeysAreSigners ==
    /\ signer \in Nat /\ signer >= 1
    /\ published \subseteq 1..signer /\ keys \subseteq 1..signer
    /\ body \in [Procs -> SUBSET (1..signer)]

\* The functions are functions of the callers.
Shapes ==
    /\ step \in [Procs -> Steps]
    /\ DOMAIN kid = Callers /\ DOMAIN call = Callers
    /\ DOMAIN result = Callers /\ DOMAIN status = Callers
    /\ stored \in [Callers -> BOOLEAN]

\* A request on its way: nothing has run for it, and the key it waits for is the
\* one of its token.
OnItsWay(p) ==
    step[p] # "idle" =>
        /\ kid[p] = call[p].token.kid
        /\ result[p] = "none" /\ ~ stored[p] /\ status[p] = 0

\* A kid that was found is one the provider signs or has signed with.
FoundIsSigner(p) == step[p] = "found" => kid[p] \in 1..signer

\* The inductive invariant of the HTTP API.
HInv ==
    /\ KeysAreSigners /\ Shapes
    /\ \A p \in Callers : OnItsWay(p) /\ FoundIsSigner(p)
    /\ OnlyTheEntitled /\ StatusTellsTruth

--------------------------------------------------------------------------------
(* One caller's part of the two properties.                                   *)

\* OnlyTheEntitled of one caller.
Entitled(p) ==
    LET t == call[p].token IN
    /\ Executed(p) \/ stored[p] =>
          /\ t.sound /\ t.kid \in 1..signer
          /\ call[p].route = "wager" =>
                "provider" \in RolesOf[t.client] /\ call[p].owner = t.client
          /\ call[p].route \notin {"wager", "transaction", "byExternal"} =>
                "internal" \in RolesOf[t.client]
    /\ status[p] = 200 /\ call[p].route \in {"transaction", "byExternal"} =>
          \/ "internal" \in RolesOf[t.client]
          \/ call[p].owner = t.client /\ call[p].owner # None

\* StatusTellsTruth of one caller.
Truthful(p) ==
    call[p].route = "wager" =>
        /\ status[p] \in 400..499 \cup {501} => ~ stored[p]
        /\ status[p] = 201 => stored[p]
        /\ status[p] = 200 => result[p] = "replay"

\* The two properties, caller by caller.
LEMMA ByCaller ==
    /\ OnlyTheEntitled <=> \A p \in Callers : Entitled(p)
    /\ StatusTellsTruth <=> \A p \in Callers : Truthful(p)
  BY DEF OnlyTheEntitled, Entitled, StatusTellsTruth, Truthful

\* The same, of the next state.
LEMMA ByCallerNext ==
    ASSUME \A p \in Callers : Entitled(p)' /\ Truthful(p)'
    PROVE  OnlyTheEntitled' /\ StatusTellsTruth'
  BY DEF OnlyTheEntitled, Entitled, StatusTellsTruth, Truthful, Executed

\* A caller whose request did not move keeps what it has, when the provider rotates
\* its key too.
LEMMA ResultsStay ==
    ASSUME HInv, NEW q \in Callers,
           call'[q] = call[q], result'[q] = result[q], stored'[q] = stored[q],
           status'[q] = status[q], signer' \in Nat, signer' >= signer
    PROVE  Entitled(q)' /\ Truthful(q)'
  <1>1. Entitled(q) /\ Truthful(q)
    BY ByCaller DEF HInv
  <1>2. signer \in Nat
    BY DEF HInv, KeysAreSigners
  <1>3. \A k : k \in 1..signer => k \in 1..signer'
    BY <1>2
  <1> QED
    BY <1>1, <1>3 DEF Entitled, Truthful, Executed

\* So does everybody when no request moves.
LEMMA HttpStays ==
    ASSUME HInv, UNCHANGED http, signer' \in Nat, signer' >= signer
    PROVE  OnlyTheEntitled' /\ StatusTellsTruth'
  <1>1. \A q \in Callers : Entitled(q)' /\ Truthful(q)'
    BY ResultsStay DEF http
  <1> QED
    BY <1>1, ByCallerNext

--------------------------------------------------------------------------------
(* The cache of keys.                                                         *)

\* A refresh and a lookup, of a caller or of the ticker.
LEMMA KeyStepKeeps ==
    ASSUME HInv, NEW p \in Procs, UNCHANGED http,
           RefreshStep(p) \/ Tick \/ (p \in Callers /\ KeyStep(p))
    PROVE  HInv'
  <1> USE DEF HInv
  <1>1. signer' = signer /\ published' = published /\ kid' = kid
    BY DEF KeyStep, RefreshStep, Told, RefreshFails, Store, Look, LookAgain, Tick, provider
  <1>2. KeysAreSigners'
    BY <1>1 DEF KeyStep, RefreshStep, Told, RefreshFails, Store, Look, LookAgain, Tick, cache,
                KeysAreSigners, Replaced
  <1> DEFINE Moves(q, s) ==
               /\ step' = [step EXCEPT ![q] = s]
               /\ q \in Callers => step[q] # "idle" /\ (s = "found" => kid[q] \in keys)
  <1>3. \E q \in Procs : \E s \in Steps : Moves(q, s)
    <2>1. CASE Told(p)
      <3>1. Moves(p, "store")
        BY <2>1 DEF Told, GoesTo
      <3> QED
        BY <3>1 DEF Steps
    <2>2. CASE RefreshFails(p)
      <3>1. Moves(p, AfterFailure(p)) /\ AfterFailure(p) \in Steps
        BY <2>2 DEF RefreshFails, GoesTo, AfterFailure, Steps
      <3> QED
        BY <3>1
    <2>3. CASE Store(p)
      <3> DEFINE s == IF p = Ticker THEN "idle" ELSE "again"
      <3>1. Moves(p, s) /\ s \in Steps
        BY <2>3 DEF Store, GoesTo, Steps
      <3> QED
        BY <3>1
    <2>4. CASE p \in Callers /\ Look(p)
      <3> DEFINE s == IF kid[p] \in keys THEN "found" ELSE IF recent THEN "refused" ELSE "fetch"
      <3>1. Moves(p, s) /\ s \in Steps
        BY <2>4 DEF Look, GoesTo, Steps
      <3> QED
        BY <3>1
    <2>5. CASE p \in Callers /\ LookAgain(p)
      <3> DEFINE s == IF kid[p] \in keys THEN "found" ELSE "refused"
      <3>1. Moves(p, s) /\ s \in Steps
        BY <2>5 DEF LookAgain, GoesTo, Steps
      <3> QED
        BY <3>1
    <2>6. CASE Tick
      <3>1. Moves(Ticker, "fetch")
        BY <2>6, CallersAssumption DEF Tick, GoesTo
      <3> QED
        BY <3>1 DEF Steps, Procs
    <2> QED
      BY <2>1, <2>2, <2>3, <2>4, <2>5, <2>6 DEF KeyStep, RefreshStep
  <1>4. PICK q \in Procs, s \in Steps : Moves(q, s)
    BY <1>3
  <1>5. Shapes'
    BY <1>1, <1>4 DEF Shapes, http
  <1>6. ASSUME NEW o \in Callers PROVE OnItsWay(o)' /\ FoundIsSigner(o)'
    <2>1. /\ step'[o] # "idle" => step[o] # "idle"
          /\ step'[o] = "found" => step[o] = "found" \/ kid[o] \in keys
      BY <1>4 DEF Shapes, Procs
    <2>2. OnItsWay(o) /\ FoundIsSigner(o) /\ keys \subseteq 1..signer
      BY DEF KeysAreSigners
    <2> QED
      BY <1>1, <2>1, <2>2 DEF OnItsWay, FoundIsSigner, http
  <1>7. OnlyTheEntitled' /\ StatusTellsTruth'
    BY <1>1, HttpStays DEF KeysAreSigners
  <1> QED
    BY <1>2, <1>5, <1>6, <1>7

\* The provider signs with a new key, drops one, or five seconds pass.
LEMMA ElsewhereKeeps ==
    ASSUME HInv, UNCHANGED http, Elsewhere
    PROVE  HInv'
  <1>1. /\ step' = step /\ kid' = kid /\ body' = body /\ keys' = keys
        /\ signer \in Nat /\ signer' \in Nat /\ signer' >= signer
        /\ published' \subseteq 1..signer'
    <2>1. signer \in Nat /\ published \subseteq 1..signer
      BY DEF HInv, KeysAreSigners
    <2>2. CASE Rotate
      <3>1. /\ step' = step /\ kid' = kid /\ body' = body /\ keys' = keys
            /\ signer' = signer + 1 /\ published' = published \cup {signer + 1}
        BY <2>2 DEF Rotate, cache
      <3>2. \A k \in 1..signer : k \in 1..(signer + 1)
        BY <2>1
      <3>3. signer + 1 \in 1..(signer + 1)
        BY <2>1
      <3> QED
        BY <2>1, <3>1, <3>2, <3>3
    <2>3. CASE \E k \in Kids : Retire(k)
      BY <2>1, <2>3 DEF Retire, cache
    <2>4. CASE Ages
      BY <2>1, <2>4 DEF Ages, provider
    <2> QED
      BY <2>2, <2>3, <2>4 DEF Elsewhere
  <1>2. 1..signer \subseteq 1..signer'
    BY <1>1
  <1>3. KeysAreSigners'
    BY <1>1, <1>2 DEF HInv, KeysAreSigners
  <1>4. Shapes'
    BY <1>1 DEF HInv, Shapes, http
  <1>5. ASSUME NEW p \in Callers PROVE OnItsWay(p)' /\ FoundIsSigner(p)'
    BY <1>1, <1>2 DEF HInv, OnItsWay, FoundIsSigner, http
  <1>6. OnlyTheEntitled' /\ StatusTellsTruth'
    BY <1>1, HttpStays DEF HInv
  <1> QED
    BY <1>3, <1>4, <1>5, <1>6 DEF HInv

--------------------------------------------------------------------------------
(* Requests.                                                                  *)

\* A new request: nothing has run for it.
LEMMA ArriveKeeps ==
    ASSUME HInv, NEW p \in Callers, NEW c \in Calls[p], Arrive(p, c)
    PROVE  HInv'
  <1>1. /\ call' = [call EXCEPT ![p] = c] /\ result' = [result EXCEPT ![p] = "none"]
        /\ stored' = [stored EXCEPT ![p] = FALSE] /\ step[p] = "idle"
        /\ signer' = signer /\ published' = published /\ keys' = keys /\ body' = body
    BY DEF Arrive, Asks, keyVars, provider, cache
  <1>2. \/ /\ c.token.kid = None
           /\ step' = step /\ kid' = kid /\ status' = [status EXCEPT ![p] = 401]
        \/ /\ c.token.kid # None
           /\ step' = [step EXCEPT ![p] = "look"] /\ kid' = [kid EXCEPT ![p] = c.token.kid]
           /\ status' = [status EXCEPT ![p] = 0]
    BY DEF Arrive, Asks, GoesTo, keyVars
  <1>3. KeysAreSigners'
    BY <1>1 DEF HInv, KeysAreSigners
  <1>4. Shapes'
    BY <1>1, <1>2 DEF HInv, Shapes, Steps
  <1>5. /\ call'[p] = c /\ result'[p] = "none" /\ ~ stored'[p] /\ status'[p] \in {0, 401}
        /\ step'[p] # "idle" => step'[p] = "look" /\ kid'[p] = c.token.kid /\ status'[p] = 0
    BY <1>1, <1>2 DEF HInv, Shapes, Procs
  <1>6. ASSUME NEW o \in Callers, o # p
        PROVE  /\ call'[o] = call[o] /\ result'[o] = result[o] /\ stored'[o] = stored[o]
               /\ status'[o] = status[o] /\ step'[o] = step[o] /\ kid'[o] = kid[o]
    BY <1>1, <1>2, <1>6 DEF HInv, Shapes, Procs
  <1>7. ASSUME NEW o \in Callers PROVE OnItsWay(o)' /\ FoundIsSigner(o)'
    <2>1. CASE o = p
      BY <1>5, <2>1 DEF OnItsWay, FoundIsSigner
    <2>2. CASE o # p
      BY <1>1, <1>6, <2>2 DEF HInv, OnItsWay, FoundIsSigner
    <2> QED
      BY <2>1, <2>2
  <1>8. ASSUME NEW o \in Callers PROVE Entitled(o)' /\ Truthful(o)'
    <2>1. CASE o = p
      BY <1>5, <2>1 DEF Entitled, Truthful, Executed
    <2>2. CASE o # p
      <3>1. signer' \in Nat /\ signer' >= signer
        BY <1>1 DEF HInv, KeysAreSigners
      <3> QED
        BY <1>6, <2>2, <3>1, ResultsStay
    <2> QED
      BY <2>1, <2>2
  <1>9. OnlyTheEntitled' /\ StatusTellsTruth'
    BY <1>8, ByCallerNext
  <1> QED
    BY <1>3, <1>4, <1>7, <1>9 DEF HInv

\* What an answer leaves alone, and what it has to prove.
LEMMA AnswersKeep ==
    ASSUME HInv, NEW p \in Callers, NEW code, Answers(p, code),
           \A o \in Callers : o # p => result'[o] = result[o] /\ stored'[o] = stored[o],
           DOMAIN result' = Callers, stored' \in [Callers -> BOOLEAN],
           status'[p] = code => Entitled(p)' /\ Truthful(p)'
    PROVE  HInv'
  <1>1. /\ step' = [step EXCEPT ![p] = "idle"] /\ kid' = [kid EXCEPT ![p] = None]
        /\ status' = [status EXCEPT ![p] = code]
        /\ signer' = signer /\ published' = published /\ keys' = keys /\ body' = body
        /\ call' = call
    BY DEF Answers, GoesTo, provider, cache
  <1>2. KeysAreSigners'
    BY <1>1 DEF HInv, KeysAreSigners
  <1>3. Shapes'
    BY <1>1 DEF HInv, Shapes, Steps
  <1>4. step'[p] = "idle" /\ status'[p] = code
    BY <1>1 DEF HInv, Shapes, Procs
  <1>5. ASSUME NEW o \in Callers, o # p
        PROVE  status'[o] = status[o] /\ step'[o] = step[o] /\ kid'[o] = kid[o]
    BY <1>1, <1>5 DEF HInv, Shapes, Procs
  <1>6. ASSUME NEW o \in Callers PROVE OnItsWay(o)' /\ FoundIsSigner(o)'
    BY <1>1, <1>4, <1>5 DEF HInv, OnItsWay, FoundIsSigner
  <1>7. ASSUME NEW o \in Callers PROVE Entitled(o)' /\ Truthful(o)'
    <2>1. CASE o = p
      BY <1>4, <2>1
    <2>2. CASE o # p
      <3>1. signer' \in Nat /\ signer' >= signer
        BY <1>1 DEF HInv, KeysAreSigners
      <3> QED
        BY <1>1, <1>5, <2>2, <3>1, ResultsStay
    <2> QED
      BY <2>1, <2>2
  <1>8. OnlyTheEntitled' /\ StatusTellsTruth'
    BY <1>7, ByCallerNext
  <1> QED
    BY <1>2, <1>3, <1>6, <1>8 DEF HInv

\* A refusal before anything has run promises nothing and shows nothing.
LEMMA SaysKeeps ==
    ASSUME HInv, NEW p \in Callers, NEW code \in {400, 401, 403}, step[p] # "idle",
           Says(p, code)
    PROVE  HInv'
  <1>1. result' = result /\ stored' = stored /\ Answers(p, code)
    BY DEF Says
  <1>2. result'[p] = "none" /\ ~ stored'[p]
    BY <1>1 DEF HInv, OnItsWay
  <1>3. status'[p] = code => Entitled(p)' /\ Truthful(p)'
    BY <1>2 DEF Entitled, Truthful, Executed
  <1>4. DOMAIN result' = Callers /\ stored' \in [Callers -> BOOLEAN]
    BY <1>1 DEF HInv, Shapes
  <1> QED
    BY <1>1, <1>3, <1>4, AnswersKeep

\* The statuses of a wager, by what became of it.
LEMMA WagerStatus ==
    ASSUME NEW r \in Results("wager"), NEW left \in Leaves("wager", r)
    PROVE  /\ StatusOf("wager", r) \in 400..499 \cup {501} => ~ left
           /\ StatusOf("wager", r) = 201 => left
           /\ StatusOf("wager", r) = 200 => r = "replay"
  <1>1. CASE r = "new"
    BY <1>1 DEF Leaves, StatusOf
  <1>2. CASE r = "replay"
    BY <1>2 DEF Leaves, StatusOf
  <1>3. CASE r \in {"canceled", "broken"}
    <2>1. StatusOf("wager", r) \in {500, 503}
      BY <1>3 DEF StatusOf, ErrorStatus, WagerError
    <2> QED
      BY <2>1
  <1>4. CASE r \in {"conflict", "unsupportedKind", "playerMismatch", "invalid", "notFound",
                    "tooManyRetries"}
    <2>1. StatusOf("wager", r) \in {400, 404, 409, 501, 503}
      BY <1>4 DEF StatusOf, ErrorStatus, WagerError
    <2>2. left = FALSE
      BY <1>4 DEF Leaves
    <2> QED
      BY <2>1, <2>2
  <1>5. r \in {"new", "replay", "conflict", "unsupportedKind", "playerMismatch", "invalid",
               "notFound", "tooManyRetries", "canceled", "broken"}
    BY DEF Results
  <1> QED
    BY <1>1, <1>2, <1>3, <1>4, <1>5

\* A transaction is shown when it was found.
LEMMA ReadStatus ==
    ASSUME NEW r \in Results("transaction"), StatusOf("transaction", r) = 200
    PROVE  r = "found"
  BY DEF Results, StatusOf, ErrorStatus, ReadError

\* What runs behind both middlewares.
LEMMA RunKeeps ==
    ASSUME HInv, NEW p \in Callers, step[p] = "found", call[p].token.sound,
           ~ RoleMissing(p), NEW r \in Results(call[p].route), Runs(p, r),
           call[p].route = "wager" => call[p].owner = call[p].token.client,
           call[p].route = "byExternal" => MayRead(p),
           Answers(p, IF call[p].route = "transaction" /\ r = "found" /\ ~ MayRead(p)
                      THEN 403 ELSE StatusOf(call[p].route, r))
    PROVE  HInv'
  <1> DEFINE code == IF call[p].route = "transaction" /\ r = "found" /\ ~ MayRead(p)
                     THEN 403 ELSE StatusOf(call[p].route, r)
  <1>1. PICK left \in Leaves(call[p].route, r) :
           stored' = [stored EXCEPT ![p] = left] /\ result' = [result EXCEPT ![p] = r]
    BY DEF Runs
  <1>2. left \in BOOLEAN
    BY DEF Leaves
  <1>3. /\ DOMAIN result' = Callers /\ stored' \in [Callers -> BOOLEAN]
        /\ \A o \in Callers : o # p => result'[o] = result[o] /\ stored'[o] = stored[o]
        /\ result'[p] = r /\ (stored'[p] <=> left)
    BY <1>1, <1>2 DEF HInv, Shapes
  <1>4. call' = call /\ signer' = signer
    BY DEF Answers, provider
  <1>5. call[p].token.kid \in 1..signer
    BY DEF HInv, OnItsWay, FoundIsSigner
  <1>6. /\ call[p].route = "wager" => "provider" \in RolesOf[call[p].token.client]
        /\ call[p].route \notin {"wager", "transaction", "byExternal"} =>
              "internal" \in RolesOf[call[p].token.client]
    BY DEF RoleMissing, HasRole
  <1>7. call[p].route \in {"transaction", "byExternal"} /\ code = 200 => MayRead(p)
    BY ReadStatus
  <1>8. MayRead(p) => \/ "internal" \in RolesOf[call[p].token.client]
                      \/ call[p].owner = call[p].token.client /\ call[p].owner # None
    BY DEF MayRead, Owns, HasRole
  <1>9. ASSUME status'[p] = code PROVE Entitled(p)'
    BY <1>4, <1>5, <1>6, <1>7, <1>8, <1>9 DEF Entitled
  <1>10. ASSUME status'[p] = code PROVE Truthful(p)'
    <2>1. SUFFICES ASSUME call[p].route = "wager"
                   PROVE  /\ code \in 400..499 \cup {501} => ~ left
                          /\ code = 201 => left
                          /\ code = 200 => r = "replay"
      BY <1>3, <1>4, <1>10 DEF Truthful
    <2>2. code = StatusOf("wager", r) /\ r \in Results("wager") /\ left \in Leaves("wager", r)
      BY <1>1, <2>1
    <2> QED
      BY <2>2, WagerStatus
  <1> QED
    BY <1>3, <1>9, <1>10, AnswersKeep

\* A request whose key was found.
LEMMA ServeKeeps ==
    ASSUME HInv, NEW p \in Callers, Serve(p)
    PROVE  HInv'
  <1>1. step[p] = "found"
    BY DEF Serve
  <1>2. CASE \E code \in {400, 401, 403} : Says(p, code)
    BY <1>1, <1>2, SaysKeeps
  <1>3. CASE /\ call[p].token.sound /\ ~ RoleMissing(p)
             /\ call[p].route = "wager" => call[p].owner = call[p].token.client
             /\ call[p].route = "byExternal" => MayRead(p)
             /\ \E r \in Results(call[p].route) :
                   /\ Runs(p, r)
                   /\ Answers(p, IF call[p].route = "transaction" /\ r = "found" /\ ~ MayRead(p)
                                 THEN 403 ELSE StatusOf(call[p].route, r))
    BY <1>1, <1>3, RunKeeps
  <1> QED
    BY <1>2, <1>3 DEF Serve, Handle

\* Every step keeps the invariant.
LEMMA NextHInv == HInv /\ [Next]_vars => HInv'
  <1> SUFFICES ASSUME HInv, [Next]_vars PROVE HInv'
    OBVIOUS
  <1>1. ASSUME NEW p \in Callers, KeyStep(p), UNCHANGED http PROVE HInv'
    BY <1>1, KeyStepKeeps DEF Procs
  <1>2. ASSUME NEW p \in Callers, Refuse(p) PROVE HInv'
    BY <1>2, SaysKeeps DEF Refuse
  <1>3. ASSUME NEW p \in Callers, Serve(p) PROVE HInv'
    BY <1>3, ServeKeeps
  <1>4. ASSUME NEW p \in Callers, NEW c \in Calls[p], Arrive(p, c) PROVE HInv'
    BY <1>4, ArriveKeeps
  <1>5. ASSUME TickerStep PROVE HInv'
    BY <1>5, KeyStepKeeps DEF TickerStep, Procs
  <1>6. ASSUME Elsewhere, UNCHANGED http PROVE HInv'
    BY <1>6, ElsewhereKeeps
  <1>7. CASE UNCHANGED vars
    BY <1>7 DEF vars, keyVars, http, provider, cache, HInv, KeysAreSigners, Shapes, OnItsWay,
                FoundIsSigner, OnlyTheEntitled, StatusTellsTruth, Executed
  <1> QED
    BY <1>1, <1>2, <1>3, <1>4, <1>5, <1>6, <1>7 DEF Next, CallerStep

\* The server starts with the keys of the provider, and nothing has run.
LEMMA InitHInv == Init => HInv
  <1> SUFFICES ASSUME Init PROVE HInv
    OBVIOUS
  <1>1. KeysAreSigners
    BY DEF Init, KeyInit, KeysAreSigners
  <1>2. Shapes
    BY DEF Init, KeyInit, Shapes, Steps
  <1>3. \A p \in Callers : OnItsWay(p) /\ FoundIsSigner(p)
    BY DEF Init, KeyInit, OnItsWay, FoundIsSigner, Procs
  <1>4. OnlyTheEntitled /\ StatusTellsTruth
    BY DEF Init, OnlyTheEntitled, StatusTellsTruth, Executed
  <1> QED
    BY <1>1, <1>2, <1>3, <1>4 DEF HInv

\* The invariant of the HTTP API.
LEMMA HttpInvariant == Spec => []HInv
  BY InitHInv, NextHInv, PTL DEF Spec

--------------------------------------------------------------------------------
(* What follows.                                                              *)

\* Nothing runs for a token that no key of the provider vouches for, for a client
\* without the role of the route or in the name of another provider, and a
\* transaction is shown to its provider and to internal clients only, however the
\* keys rotate meanwhile (middleware.go:50-104, wagering.go:102-105, 171-199).
THEOREM EntitlementHolds == Spec => []OnlyTheEntitled
  BY HttpInvariant, PTL DEF HInv

\* Refused for good means that a wager left nothing, accepted that it was stored, by
\* this call or by the one it repeats (wagering.go:119-157).
THEOREM StatusesHold == Spec => []StatusTellsTruth
  BY HttpInvariant, PTL DEF HInv
================================================================================
