----------------------------- MODULE RetryCall -----------------------------
(****************************************************************************)
(* retry_call_with_backoff (inference/retry.py): one call of a model        *)
(* provider, repeated after transient errors.  Delays are in ticks of the   *)
(* smallest jitter; what the provider answers is open.                      *)
(****************************************************************************)
EXTENDS Naturals

CONSTANTS
    Retries,        \* retries_limit
    BaseDelay,      \* base_delay, before it is capped
    Ceiling,        \* ceiling_delay
    Jitter,         \* the largest jitter on a Retry-After; the least is 1
    RetryAfters,    \* delays a provider may ask for
    Nothing         \* it asks for none

ASSUME RetryAssumption ==
    /\ Retries \in Nat /\ BaseDelay \in Nat /\ Ceiling \in Nat /\ Jitter \in Nat \ {0}
    /\ RetryAfters \subseteq Nat /\ Nothing \notin Nat

VARIABLES
    call,           \* where the call is
    attempt,        \* retries so far
    asked,          \* what the last error asked for, parsed
    pause,          \* sleep_duration
    waited          \* time slept so far

retryVars == <<call, attempt, asked, pause, waited>>

RetryTypeOK ==
    /\ call \in {"idle", "calling", "sleeping", "returned", "raised"}
    /\ attempt \in 0..Retries
    /\ asked \in Nat \cup {Nothing}
    /\ pause \in Nat /\ waited \in Nat

RetryInit ==
    call = "idle" /\ attempt = 0 /\ asked = Nothing /\ pause = 0 /\ waited = 0

Least(a, b) == IF a <= b THEN a ELSE b
Initial == Least(Ceiling, BaseDelay)

-----------------------------------------------------------------------------
BeginCall ==
    /\ call = "idle" /\ call' = "calling"
    /\ UNCHANGED <<attempt, asked, pause, waited>>

Succeed ==
    /\ call = "calling" /\ call' = "returned"
    /\ UNCHANGED <<attempt, asked, pause, waited>>

(* calculate_full_jitter_delay *)
Backoff == 0..Least(Ceiling, Initial * 2^attempt)

(* The jitter is added after the comparison with the ceiling; the sum is capped. *)
Capped(d) == Least(d, Ceiling)

(* Mutant: a Retry-After above the ceiling is waited for as long as allowed. *)
TooLongNever(a) == FALSE
TooLong(a) == a # Nothing /\ a > Ceiling

(* A header that cannot be parsed asks for the initial delay. *)
Fail ==
    /\ call = "calling"
    /\ \E transient \in BOOLEAN, a \in RetryAfters \cup {Nothing, Initial} :
          /\ asked' = a
          /\ \/ /\ attempt >= Retries \/ ~transient \/ TooLong(a)
                /\ call' = "raised" /\ UNCHANGED pause
             \/ /\ attempt < Retries /\ transient /\ ~TooLong(a)
                /\ call' = "sleeping"
                /\ \/ a = Nothing /\ \E d \in Backoff : pause' = Capped(d)
                   \/ a # Nothing /\ \E j \in 1..Jitter : pause' = Capped(a + j)
    /\ UNCHANGED <<attempt, waited>>

Wake ==
    /\ call = "sleeping" /\ call' = "calling"
    /\ attempt' = attempt + 1 /\ waited' = waited + pause
    /\ UNCHANGED <<asked, pause>>

RetryNext == BeginCall \/ Succeed \/ Fail \/ Wake

RetrySpec == RetryInit /\ [][RetryNext]_retryVars

-----------------------------------------------------------------------------
(* The provider is never called again before the time it asked for, although the
   delay is capped after the jitter was added. *)
RetryAfterHonoured == call = "sleeping" /\ asked # Nothing => pause >= asked

(* However a provider answers, one call waits at most Retries times Ceiling. *)
WaitBounded == waited <= Retries * Ceiling
=============================================================================
