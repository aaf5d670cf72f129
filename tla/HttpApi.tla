-------------------------------- MODULE HttpApi --------------------------------
(***************************************************************************)
(* A request to the HTTP API, from its Authorization header to its status: *)
(* Authenticate, on the cache of keys of KeySet, RequireRole, the checks   *)
(* of the handler, and what it makes of the result of the use case.  The   *)
(* use cases themselves are WagerLedger and LedgerReads; here each returns *)
(* any result it can.                                                      *)
(*                                                                         *)
(* A call is a record                                                      *)
(*   route   one of the routes below                                       *)
(*   token   the kid in its header (None without one), sound when that key *)
(*           signed it and issuer, audience, method and expiry are right,  *)
(*           and the client it names (azp; None when it names none);       *)
(*           NoToken when there is no bearer token                         *)
(*   well    the path, the body and the Idempotency-Key are what the       *)
(*           handler asks for                                              *)
(*   owner   the provider in the body or the path, or whom the transaction *)
(*           that is read belongs to (None: an OPENING)                    *)
(***************************************************************************)
EXTENDS KeySet

CONSTANTS
    Calls,              \* what each caller may send, a function of the caller
    RolesOf             \* the roles of each client, {} and None included

Routes == {"wager", "transaction", "byExternal",
           "openWallet", "wallet", "entries", "reconciliation"}

NoToken == [kid |-> None, sound |-> FALSE, client |-> None]

ASSUME CallsAssumption ==
    \A p \in Callers : \A c \in Calls[p] :
        /\ DOMAIN c = {"route", "token", "well", "owner"}
        /\ c.route \in Routes /\ c.well \in BOOLEAN
        /\ c.token.client \in DOMAIN RolesOf

VARIABLES
    call,               \* what a caller sent last
    result,             \* what the use case or the repository returned
    stored,             \* whether the call left anything in the database
    status              \* the answer, 0 while there is none

http == << call, result, stored, status >>
vars == << keyVars, http >>

NoCall == [route |-> "wager", token |-> NoToken, well |-> FALSE, owner |-> None]

Init ==
    /\ KeyInit
    /\ call = [p \in Callers |-> NoCall]
    /\ result = [p \in Callers |-> "none"]
    /\ stored = [p \in Callers |-> FALSE]
    /\ status = [p \in Callers |-> 0]

--------------------------------------------------------------------------------
(* Authorization.                                                            *)

HasRole(p, role) == role \in RolesOf[call[p].token.client]

\* RequireRole of the route; the two reads of a transaction have none.
RoleMissing(p) ==
    CASE call[p].route = "wager" -> ~ HasRole(p, "provider")
      [] call[p].route \in {"transaction", "byExternal"} -> FALSE
      [] OTHER -> ~ HasRole(p, "internal")

\* Who may read a transaction.
Owns_AnonymousBug(p) == HasRole(p, "provider") /\ call[p].owner = call[p].token.client
Owns(p) ==
    /\ HasRole(p, "provider")
    /\ call[p].owner # None
    /\ call[p].owner = call[p].token.client
MayRead(p) == HasRole(p, "internal") \/ Owns(p)

--------------------------------------------------------------------------------
(* Results and their status.                                                 *)

\* "broken" is every error without a name, a failed statement or COMMIT.
Results(route) ==
    CASE route = "wager" ->
            {"new", "replay", "conflict", "unsupportedKind", "playerMismatch", "invalid",
             "notFound", "tooManyRetries", "canceled", "broken"}
      [] route = "openWallet" -> {"new", "exists", "invalid", "broken"}
      [] route = "entries"    -> {"found", "badCursor", "broken"}
      [] OTHER -> {"found", "notFound", "broken"}

\* writeProcessWagerTransactionError.
WagerError_DefaultBug(r) ==
    CASE r = "conflict" -> 409
      [] r = "unsupportedKind" -> 501
      [] r \in {"tooManyRetries", "canceled"} -> 503
      [] r = "notFound" -> 404
      [] OTHER -> 400
WagerError(r) ==
    CASE r = "conflict" -> 409
      [] r = "unsupportedKind" -> 501
      [] r \in {"playerMismatch", "invalid"} -> 400
      [] r \in {"tooManyRetries", "canceled"} -> 503
      [] r = "notFound" -> 404
      [] OTHER -> 500

OpenWalletError(r) == IF r = "exists" THEN 409 ELSE 400
LedgerError(r)     == 400
ReadError(r)       == IF r = "notFound" THEN 404 ELSE 500

ErrorStatus(route, r) ==
    CASE route = "wager"      -> WagerError(r)
      [] route = "openWallet" -> OpenWalletError(r)
      [] route = "entries"    -> LedgerError(r)
      [] OTHER                -> ReadError(r)

StatusOf(route, r) ==
    CASE r = "new" -> 201
      [] r \in {"replay", "found"} -> 200
      [] OTHER -> ErrorStatus(route, r)

\* Whether a result leaves rows behind.  An error without a name, and a client
\* that went away, do not tell whether COMMIT took effect.
Leaves(route, r) ==
    IF route \notin {"wager", "openWallet"} THEN {FALSE}
    ELSE CASE r = "new" -> {TRUE}
           [] r \in {"canceled", "broken"} -> BOOLEAN
           [] OTHER -> {FALSE}

--------------------------------------------------------------------------------
(* A request.                                                                *)

\* extractBearerToken, and the kid in the token's header.
Arrive(p, c) ==
    /\ call' = [call EXCEPT ![p] = c]
    /\ result' = [result EXCEPT ![p] = "none"]
    /\ stored' = [stored EXCEPT ![p] = FALSE]
    /\ IF c.token.kid = None
       THEN /\ step[p] = "idle"
            /\ status' = [status EXCEPT ![p] = 401]
            /\ UNCHANGED keyVars
       ELSE /\ Asks(p, c.token.kid)
            /\ status' = [status EXCEPT ![p] = 0]

Answers(p, code) ==
    /\ GoesTo(p, "idle")
    /\ kid' = [kid EXCEPT ![p] = None]
    /\ status' = [status EXCEPT ![p] = code]
    /\ UNCHANGED << provider, cache, body, failures, call >>

Says(p, code) == Answers(p, code) /\ UNCHANGED << result, stored >>

\* Without the key the token is not valid.
Refuse(p) ==
    /\ step[p] = "refused"
    /\ Says(p, 401)

Runs(p, r) ==
    /\ result' = [result EXCEPT ![p] = r]
    /\ \E left \in Leaves(call[p].route, r) : stored' = [stored EXCEPT ![p] = left]

\* The handlers behind the two middlewares.  The row of a transaction is read
\* before anybody asks whose it is.
Handle(p) ==
    LET c == call[p] IN
    CASE c.route \in {"wager", "openWallet", "entries"} /\ ~ c.well -> Says(p, 400)
      [] c.route = "wager" /\ c.well /\ c.owner # c.token.client -> Says(p, 403)
      [] c.route = "byExternal" /\ ~ MayRead(p) -> Says(p, 403)
      [] OTHER ->
            \E r \in Results(c.route) :
                /\ Runs(p, r)
                /\ Answers(p, IF c.route = "transaction" /\ r = "found" /\ ~ MayRead(p)
                              THEN 403 ELSE StatusOf(c.route, r))

Serve(p) ==
    /\ step[p] = "found"
    /\ IF ~ call[p].token.sound THEN Says(p, 401)
       ELSE IF RoleMissing(p) THEN Says(p, 403)
       ELSE Handle(p)

CallerStep(p) == (KeyStep(p) /\ UNCHANGED http) \/ Refuse(p) \/ Serve(p)
TickerStep    == (Tick \/ RefreshStep(Ticker)) /\ UNCHANGED http

Next ==
    \/ \E p \in Callers : CallerStep(p) \/ \E c \in Calls[p] : Arrive(p, c)
    \/ TickerStep
    \/ Elsewhere /\ UNCHANGED http

Spec == Init /\ [][Next]_vars

\* Requests run to their end, the client of the provider gives up after ten
\* seconds, and the ticker never stops.  Nothing makes a request arrive.
Fairness ==
    /\ \A p \in Callers : WF_vars(CallerStep(p))
    /\ WF_vars(TickerStep)

FairSpec == Spec /\ Fairness

--------------------------------------------------------------------------------
(* Properties.                                                               *)

\* Once the provider rests, the cache holds what it publishes and keeps it: no
\* refresh that was overtaken, that failed or that an unknown kid caused leaves a
\* retired key in use or a new one unknown for good (jwks.go:53-68, 98-101).
RotationNoticed == <>[](keys = published)

Executed(p) == result[p] # "none"

\* Nothing runs for a token that no key of the provider vouches for, for a client
\* without the role of the route or in the name of another provider, and a
\* transaction is shown to its provider and to internal clients only: an OPENING
\* belongs to no provider, not even to a client that names none
\* (middleware.go:50-104, wagering.go:102-105, 171-175, 195-199).
OnlyTheEntitled ==
    \A p \in Callers :
        LET t == call[p].token IN
        /\ Executed(p) \/ stored[p] =>
              /\ t.sound /\ t.kid \in 1..signer
              /\ call[p].route = "wager" =>
                    "provider" \in RolesOf[t.client] /\ call[p].owner = t.client
              /\ call[p].route \notin {"wager", "transaction", "byExternal"} =>
                    "internal" \in RolesOf[t.client]
        /\ status[p] = 200 /\ call[p].route \in {"transaction", "byExternal"} =>
              \/ "internal" \in RolesOf[t.client]
              \/ call[p].owner = t.client /\ call[p].owner # None

\* To the provider of a wager a status is a promise: refused for good means that
\* nothing was stored, accepted means that something was, by this call or by the
\* one it repeats; whatever is unsure is 500 or 503 and may be sent again
\* (wagering.go:119-157).
StatusTellsTruth ==
    \A p \in Callers :
        call[p].route = "wager" =>
            /\ status[p] \in 400..499 \cup {501} => ~ stored[p]
            /\ status[p] = 201 => stored[p]
            /\ status[p] = 200 => result[p] = "replay"

--------------------------------------------------------------------------------
(* A statement of the documents that the code does not keep.                 *)

\* README.md:527: invalid input and transient unavailability are distinguishable
\* by their status.  OpenWallet and the ledger answer 400 to every error.
OutageIsNotInvalidInput ==
    \A p \in Callers : result[p] = "broken" => status[p] \notin 400..499
================================================================================
