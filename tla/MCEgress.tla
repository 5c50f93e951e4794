------------------------------ MODULE MCEgress ------------------------------
EXTENDS Egress

CONSTANT vendor

(* All callers share one provider, its breaker and its key pool; breakers of *)
(* different providers have no state in common.                              *)
OneProvider == [c \in Caller |-> vendor]

(* A synchronous adapter that refuses in its body, a poller behind an        *)
(* oauth2 token, and a match-then-fetch adapter without credentials.         *)
SomeShapes == {Vonage, Snov, Brreg}

-----------------------------------------------------------------------------
(* The breaker, the retries and the leased keys agree at every step of every *)
(* call (Client.Call, Breaker; egress client and adapter).                   *)
CallsAreSafe == BreakerConsistent /\ EgressConsistent

(* Every call returns, and an open breaker lets a call through again.        *)
CallsEnd == Recovers /\ CallsReturn
=============================================================================
