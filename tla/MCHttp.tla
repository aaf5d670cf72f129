--------------------------------- MODULE MCHttp ---------------------------------
(* An instance of HttpApi for TLC: one caller sends everything, the other one    *)
(* keeps asking with the keys of the provider, in and out of use.                *)
EXTENDS HttpApi, TLC

CONSTANTS c1, c2, acme, bravo, ops

MCRoles == (acme :> {"provider"}) @@ (bravo :> {"provider"}) @@ (ops :> {"internal"})
               @@ (None :> {"provider"})

Token(k, client) == [kid |-> k, sound |-> TRUE, client |-> client]
Call(route, token, owner) == [route |-> route, token |-> token, well |-> TRUE, owner |-> owner]

\* A provider and an internal client on every route, another provider's data, a
\* client without a name, requests and tokens that are not well formed, an
\* unknown kid.
EveryCall ==
    {Call(route, Token(1, client), acme) : route \in Routes, client \in {acme, bravo, ops}}
    \cup {Call("transaction", Token(1, client), None) : client \in {acme, None, ops}}
    \cup {[Call(route, Token(1, client), acme) EXCEPT !.well = FALSE] :
             << route, client >> \in {<< "wager", acme >>, << "openWallet", ops >>}}
    \cup {Call("wager", NoToken, acme),
          Call("wager", [Token(1, acme) EXCEPT !.sound = FALSE], acme),
          Call("wager", Token(MaxKid + 1, acme), acme)}

MCCalls == [p \in Callers |->
    IF p = c1 THEN EveryCall ELSE {Call("reconciliation", Token(k, acme), acme) : k \in Kids}]
================================================================================
