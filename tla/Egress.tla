------------------------------ MODULE Egress -------------------------------
(***************************************************************************)
(* What a provider call does inside Fetch (internal/provider): the round   *)
(* trips of a synchronous or a submit-then-poll adapter, and the egress    *)
(* AuthInjector on each of them, which leases a key, places its credential *)
(* (through a bearer token cached per pool for oauth2-cc) and tells the    *)
(* lease how the round trip ended.  Composes with ProviderCall, whose      *)
(* Fetch step it refines into these.                                       *)
(***************************************************************************)
EXTENDS ProviderCall, ProviderAdapters

CONSTANTS
    Key,        \* the keys of a provider's pool
    Shapes,     \* the adapters a provider may be wired to
    None

VARIABLES
    wired,      \* each provider's adapter
    trip,       \* each caller's round trip
    token,      \* tokens: the key each pool's bearer token was minted from
    mu          \* the caller that holds the token cache's lock

egress == <<wired, trip, token, mu>>

(* at: where the round trip is; leg: submit, or the trip whose body is       *)
(* decoded; key: leased; wire: the key whose credential is sent; got: the    *)
(* kind of response; told: the class Done reported; jobs: submissions of     *)
(* this call.                                                                *)
Resting == [at |-> "none", leg |-> "final", key |-> None, wire |-> None,
            got |-> "none", told |-> "none", jobs |-> 0]

EInit ==
    /\ Init
    /\ wired \in [Provider -> Shapes]
    /\ trip = [c \in Caller |-> Resting]
    /\ token = [p \in Provider |-> None]
    /\ mu = None

A(c) == wired[Of[c]]

-----------------------------------------------------------------------------
(* Responses, and the transport errors: the SSRF guard, the caller's         *)
(* deadline, anything else.                                                  *)

Status == {"2xx", "401", "402", "403", "404", "400", "502", "500"}
Response == Status \cup {"blocked", "deadline", "broken"}

classifyStatus(r) ==
    CASE r = "2xx" -> "ok"
      [] r = "401" -> "auth"
      [] r = "402" -> "quota"
      [] r = "403" -> "rate_limit"
      [] r = "404" -> "not_found"
      [] r = "400" -> "bad_request"
      [] r = "502" -> "provider_down"
      [] r = "500" -> "transient"

(* How Fetch classifies a response, and what outcomeOf makes of it.          *)
FetchClass(r) ==
    CASE r = "blocked"  -> "bad_request"
      [] r = "deadline" -> "transient"
      [] r = "broken"   -> "provider_down"
      [] OTHER          -> classifyStatus(r)

WrongOutcomeOf(r) == IF r \in Status THEN classifyStatus(r) ELSE "provider_down"

outcomeOf(r) ==
    IF r \in Status THEN classifyStatus(r)
    ELSE IF r = "blocked" THEN "bad_request"
    ELSE IF r = "deadline" THEN "transient" ELSE "provider_down"

-----------------------------------------------------------------------------
(* Fetch *)

At(c, place) == call[c].pc = "fetch" /\ trip[c].at = place

(* A round trip starts at the key pool, when the adapter has one.            *)
Entry(a) == IF a.auth = "none" THEN "wire" ELSE "lease"

Fresh(t, a, leg) ==
    [t EXCEPT !.at = Entry(a), !.leg = leg, !.key = None, !.wire = None,
              !.got = "none", !.told = "none"]


(* Fetch returns.                                                            *)
End(c, t, class) ==
    /\ Fetch(c, class)
    /\ trip' = [trip EXCEPT ![c] = [t EXCEPT !.at = "none", !.key = None, !.wire = None]]

(* Go on with round trip t.                                                  *)
Go(c, t) ==
    /\ trip' = [trip EXCEPT ![c] = t]
    /\ UNCHANGED vars

(* The request is built, or cannot be.                                       *)
Start(c) ==
    /\ At(c, "none")
    /\ \/ Go(c, Fresh(trip[c], A(c), IF A(c).poll THEN "submit" ELSE "final"))
       \/ End(c, Resting, "bad_request")
    /\ UNCHANGED <<wired, token, mu>>

(* roundTripLeased draws a lease; without one the transport fails.           *)
Lease(c) ==
    /\ At(c, "lease")
    /\ \/ \E k \in Key :
              Go(c, [trip[c] EXCEPT !.key = k, !.wire = k,
                                    !.at = IF A(c).auth = "oauth2_cc" THEN "lock" ELSE "wire"])
       \/ \E r \in {"broken", "deadline"} : End(c, trip[c], FetchClass(r))
    /\ UNCHANGED <<wired, token, mu>>

(* oauth2Token takes the lock and reads the pool's token, or keeps the lock  *)
(* for the exchange.                                                         *)
Lock(c) ==
    /\ At(c, "lock") /\ mu = None
    /\ \/ /\ token[Of[c]] # None
          /\ Go(c, [trip[c] EXCEPT !.at = "wire", !.wire = token[Of[c]]])
          /\ UNCHANGED mu
       \/ /\ token[Of[c]] = None
          /\ Go(c, [trip[c] EXCEPT !.at = "exchange"])
          /\ mu' = c
    /\ UNCHANGED <<wired, token>>

(* The exchange mints a token or fails, and the lock is released.  A failed  *)
(* one leaves the lease without its Done.                                    *)
Exchange(c) ==
    /\ At(c, "exchange")
    /\ mu' = None
    /\ \/ /\ token' = [token EXCEPT ![Of[c]] = trip[c].key]
          /\ Go(c, [trip[c] EXCEPT !.at = "wire"])
       \/ /\ \E r \in {"broken", "deadline", "blocked"} : End(c, trip[c], FetchClass(r))
          /\ UNCHANGED token
    /\ UNCHANGED wired

(* The request is sent; Done gets the outcome, Fetch the response.           *)
Wire(c, r) ==
    LET a == A(c)
        t == [trip[c] EXCEPT !.got = IF r = "2xx" THEN "2xx" ELSE "failure",
                             !.told = IF a.auth = "none" THEN "none" ELSE outcomeOf(r),
                             !.jobs = IF trip[c].leg = "submit" /\ @ < 2 THEN @ + 1 ELSE @] IN
    /\ At(c, "wire")
    /\ IF r = "2xx" THEN Go(c, [t EXCEPT !.at = "read"]) ELSE End(c, t, FetchClass(r))
    /\ UNCHANGED <<wired, token, mu>>

(* ParseSubmit: a job to poll, a body without one, or a malformed body.      *)
Submitted(c) ==
    /\ At(c, "read") /\ trip[c].leg = "submit"
    /\ \/ Go(c, Fresh(trip[c], A(c), "final"))
       \/ \E class \in {A(c).noJob, "bad_request"} : End(c, trip[c], class)
    /\ UNCHANGED <<wired, token, mu>>

(* Decode: a result, a refusal, or, of a poll, nothing yet.                  *)
Decoded(c, body) ==
    LET class == Decode(A(c), body).class IN
    /\ At(c, "read") /\ trip[c].leg = "final"
    /\ IF class = "pending" THEN Go(c, [Fresh(trip[c], A(c), "final") EXCEPT !.at = "sleep"])
       ELSE End(c, trip[c], class)
    /\ UNCHANGED <<wired, token, mu>>

(* The body cannot be read.                                                  *)
Unread(c) ==
    /\ At(c, "read")
    /\ End(c, trip[c], "transient")
    /\ UNCHANGED <<wired, token, mu>>

(* The poll interval passes, or the deadline does first.                     *)
Wake(c) ==
    /\ At(c, "sleep")
    /\ Go(c, Fresh(trip[c], A(c), "final"))
    /\ UNCHANGED <<wired, token, mu>>

WrongDeadline(c) ==
    /\ At(c, "sleep")
    /\ Go(c, Fresh(trip[c], A(c), "final"))
    /\ UNCHANGED <<wired, token, mu>>

Deadline(c) ==
    /\ At(c, "sleep")
    /\ End(c, trip[c], "transient")
    /\ UNCHANGED <<wired, token, mu>>

(* A token runs out.                                                         *)
Expire(p) ==
    /\ token[p] # None
    /\ token' = [token EXCEPT ![p] = None]
    /\ UNCHANGED <<vars, wired, trip, mu>>

-----------------------------------------------------------------------------
Answer(c) ==
    \/ \E r \in Response : Wire(c, r)
    \/ \E body \in Bodies(A(c), {}) : Decoded(c, body)
    \/ Submitted(c) \/ Exchange(c) \/ Lease(c)

EStep(c) ==
    \/ /\ Around(c)
       /\ trip' = [trip EXCEPT ![c] = [Resting EXCEPT !.jobs = trip[c].jobs]]
       /\ UNCHANGED <<wired, token, mu>>
    \/ /\ Begin(c, A(c).attempts)
       /\ trip' = [trip EXCEPT ![c] = Resting]
       /\ UNCHANGED <<wired, token, mu>>
    \/ Start(c) \/ Lock(c) \/ Unread(c) \/ Wake(c) \/ Deadline(c) \/ Answer(c)

ENext ==
    \/ \E c \in Caller : EStep(c)
    \/ \E p \in Provider : Expire(p)
    \/ \E p \in Provider : Cool(p) /\ UNCHANGED egress

ESpec == EInit /\ [][ENext]_<<vars, egress>>

(* Traffic goes on and time passes: every attempt has a timeout, so it does  *)
(* not poll for ever; a lock that is free now and then is taken in the end.  *)
EFair ==
    /\ ESpec
    /\ \A c \in Caller :
          /\ WF_<<vars, egress>>(EStep(c))
          /\ SF_<<vars, egress>>(Lock(c))
          /\ SF_<<vars, egress>>(Deadline(c))
    /\ \A p \in Provider : WF_<<vars, egress>>(Cool(p) /\ UNCHANGED egress)

-----------------------------------------------------------------------------
(* Properties *)

(* The class an adapter's call ends with.                                    *)
Ended(c) == call[c].pc = "record" /\ trip[c].got # "none"

(* Once its request was sent a lease has been told one outcome, the class    *)
(* the engine sees, except where the engine reads more into a 2xx body than  *)
(* the key ever learns; without a request it was told nothing.  The key      *)
(* billed is the key on the wire, except under a cached oauth2 token.  A     *)
(* call never submits two jobs.                                              *)
EgressConsistent ==
    \A c \in Caller :
        /\ A(c).auth # "none" => (trip[c].told = "none") = (trip[c].got = "none")
        /\ (Ended(c) /\ A(c).auth # "none" /\ trip[c].told # call[c].class) => trip[c].got = "2xx"
        /\ trip[c].wire # trip[c].key => A(c).auth = "oauth2_cc"
        /\ A(c).poll => trip[c].jobs <= 1

(* Every call returns: no failed token exchange keeps the lock, no poll loop *)
(* outlives its deadline.                                                    *)
CallsReturn == \A c \in Caller : []<>(call[c].pc = "idle")
=============================================================================
