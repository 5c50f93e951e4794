---------------------------- MODULE ProviderCall ----------------------------
(***************************************************************************)
(* One bounded provider call (internal/provider, Call and Breaker): the    *)
(* circuit breaker shared by all calls to a provider, per-attempt          *)
(* timeouts, bounded retries of retryable classes.  Time is abstracted to  *)
(* whether an open breaker's cooldown has elapsed.                         *)
(***************************************************************************)
EXTENDS Integers, FiniteSets

CONSTANTS
    Provider,
    Caller,             \* goroutines, each making one call after another
    Of,                 \* Of[c]: the provider c calls
    MaxAttempts,        \* the most attempts a call policy allows
    FailureThreshold

VARIABLES
    breaker,            \* each provider's breaker
    call,               \* each caller's progress
    streak              \* history: failures recorded since the last success

vars == <<breaker, call, streak>>

ASSUME CallAssumption ==
    /\ \A c \in Caller : Of[c] \in Provider
    /\ MaxAttempts \in Nat \ {0} /\ FailureThreshold \in Nat \ {0}

(* Retryable classes; the same ones count as failures of the provider.       *)
Retryable == {"transient", "rate_limit", "provider_down"}
Terminal == {"auth", "not_found", "bad_request", "quota"}
Class == Retryable \cup Terminal

Closed == [state |-> "closed", failures |-> 0, cooled |-> FALSE]
Ready == [pc |-> "idle", attempt |-> 1, max |-> 1, class |-> "ok"]

Init ==
    /\ breaker = [p \in Provider |-> Closed]
    /\ call = [c \in Caller |-> Ready]
    /\ streak = [p \in Provider |-> 0]

-----------------------------------------------------------------------------
(* Breaker *)

Tripped(b) == [b EXCEPT !.state = "open", !.failures = 0, !.cooled = FALSE]

WrongRecordSuccess(b) == [b EXCEPT !.state = "closed"]

RecordSuccess(b) == [b EXCEPT !.state = "closed", !.failures = 0]

RecordFailure(b) ==
    IF b.state = "half_open" THEN Tripped(b)
    ELSE IF b.failures + 1 >= FailureThreshold THEN Tripped(b)
    ELSE [b EXCEPT !.failures = @ + 1]

WrongAllows(b) == b.state # "open"

(* Allow: refused only while the breaker is open and cooling down.           *)
Allows(b) == b.state # "open" \/ b.cooled

Probing(b) == IF b.state = "open" THEN [b EXCEPT !.state = "half_open"] ELSE b

(* The cooldown of an open breaker elapses.                                  *)
Cool(p) ==
    /\ breaker[p].state = "open" /\ ~breaker[p].cooled
    /\ breaker' = [breaker EXCEPT ![p].cooled = TRUE]
    /\ UNCHANGED <<call, streak>>

-----------------------------------------------------------------------------
(* callWith *)

(* A call under the adapter's policy, or the engine's default (policyFor).   *)
Begin(c, attempts) ==
    /\ call[c].pc = "idle"
    /\ call' = [call EXCEPT ![c] = [Ready EXCEPT !.pc = "allow", !.max = attempts]]
    /\ UNCHANGED <<breaker, streak>>

(* A refused call returns ErrBreakerOpen, whose class is provider_down.      *)
Refused(c) ==
    /\ call[c].pc = "allow" /\ ~Allows(breaker[Of[c]])
    /\ call' = [call EXCEPT ![c].pc = "return", ![c].class = "provider_down"]
    /\ UNCHANGED <<breaker, streak>>

Allowed(c) ==
    LET b == breaker[Of[c]] IN
    /\ call[c].pc = "allow" /\ Allows(b)
    /\ breaker' = [breaker EXCEPT ![Of[c]] = Probing(b)]
    /\ call' = [call EXCEPT ![c].pc = "fetch"]
    /\ UNCHANGED streak

(* The adapter answers, or fails with a class (a timeout is transient).      *)
Fetch(c, class) ==
    /\ call[c].pc = "fetch"
    /\ call' = [call EXCEPT ![c].pc = "record", ![c].class = class]
    /\ UNCHANGED <<breaker, streak>>

Again(x) == x.class \in Retryable /\ x.attempt < x.max

(* The outcome feeds the breaker; retry after a backoff, or return.  The     *)
(* caller's own deadline ends the call early.                                *)
Record(c) ==
    LET x == call[c]
        p == Of[c] IN
    /\ x.pc = "record"
    /\ breaker' = [breaker EXCEPT ![p] =
                     IF x.class = "ok" THEN RecordSuccess(@)
                     ELSE IF x.class \in Retryable THEN RecordFailure(@) ELSE @]
    /\ streak' = [streak EXCEPT ![p] =
                    IF x.class = "ok" THEN 0
                    ELSE IF x.class \in Retryable /\ @ < FailureThreshold THEN @ + 1 ELSE @]
    /\ \/ Again(x) /\ call' = [call EXCEPT ![c].pc = "allow", ![c].attempt = @ + 1]
       \/ call' = [call EXCEPT ![c].pc = "return"]

Return(c) ==
    /\ call[c].pc = "return"
    /\ call' = [call EXCEPT ![c] = Ready]
    /\ UNCHANGED <<breaker, streak>>

(* The steps of a call outside the adapter.                                  *)
Around(c) == Refused(c) \/ Allowed(c) \/ Record(c) \/ Return(c)

Step(c) ==
    \/ Around(c)
    \/ \E n \in 1 .. MaxAttempts : Begin(c, n)
    \/ \E class \in Class \cup {"ok"} : Fetch(c, class)

Next ==
    \/ \E c \in Caller : Step(c)
    \/ \E p \in Provider : Cool(p)

Spec == Init /\ [][Next]_vars

(* Traffic goes on, every attempt has a timeout, time passes.                *)
FairSpec ==
    /\ Spec
    /\ \A c \in Caller : WF_vars(Step(c))
    /\ \A p \in Provider : WF_vars(Cool(p))

-----------------------------------------------------------------------------
(* Properties *)

(* Every variable keeps its type; no call exceeds its policy's attempts.     *)
TypeOK ==
    /\ breaker \in [Provider -> [state : {"closed", "open", "half_open"},
                                 failures : 0 .. FailureThreshold - 1, cooled : BOOLEAN]]
    /\ call \in [Caller -> [pc : {"idle", "allow", "fetch", "record", "return"},
                            attempt : 1 .. MaxAttempts, max : 1 .. MaxAttempts,
                            class : Class \cup {"ok"}]]
    /\ \A c \in Caller : call[c].attempt <= call[c].max
    /\ streak \in [Provider -> 0 .. FailureThreshold]

(* The breaker trips on consecutive failures, not before and not later: a    *)
(* closed breaker has seen exactly its failure count since the last success, *)
(* fewer than the threshold.                                                 *)
ClosedCountsStreak ==
    \A p \in Provider : breaker[p].state = "closed" =>
        breaker[p].failures = streak[p] /\ streak[p] < FailureThreshold

(* Attempts stay within MaxAttempts and the breaker's count is the streak.    *)
BreakerConsistent == TypeOK /\ ClosedCountsStreak

(* A breaker never locks a recovered provider out: while calls go on, it     *)
(* closes again and again unless attempts keep being made and keep ending    *)
(* without a useful answer.                                                  *)
Recovers ==
    \A p \in Provider :
        \/ []<>(breaker[p].state = "closed")
        \/ []<>(\E c \in Caller : Of[c] = p /\ call[c].pc = "record" /\ call[c].class # "ok")

=============================================================================
