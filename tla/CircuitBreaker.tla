--------------------------- MODULE CircuitBreaker ---------------------------
(***************************************************************************)
(* The per-device circuit breaker of circuit_breaker.py and its registry,  *)
(* driven by concurrent requests as helpers.py drives it: a request asks   *)
(* for admission, talks to the device with no breaker lock held, and       *)
(* records its outcome later.  Breakers are made on first use with the     *)
(* registry's current settings, which a configuration reload replaces.     *)
(*                                                                         *)
(* Time is discrete.  A breaker carries the time since its last failure    *)
(* (time.monotonic() - _last_failure_time), which the code reads only when *)
(* the circuit is open, so it advances only then; it stops at Horizon,     *)
(* which no cooldown exceeds.  The failure counter stops at FailureCap,    *)
(* which no threshold exceeds.  Neither cap can change a comparison.       *)
(***************************************************************************)
EXTENDS Serving, Naturals, FiniteSets

CONSTANTS
  Thresholds,   \* values NET_CB_THRESHOLD may be given
  Cooldowns,    \* values NET_CB_COOLDOWN may be given
  MaxCooldown,  \* _MAX_COOLDOWN, the cap of the exponential backoff
  Horizon,      \* bound: elapsed times are counted up to here
  FailureCap    \* bound: consecutive failures are counted up to here

ASSUME ThresholdsAssumption ==
  /\ Thresholds \subseteq Nat \ {0}
  /\ FailureCap \in Nat
  /\ \A n \in Thresholds : n <= FailureCap

ASSUME CooldownsAssumption ==
  /\ Cooldowns \subseteq Nat \ {0}
  /\ MaxCooldown \in Nat \ {0}
  /\ Horizon \in Nat
  /\ MaxCooldown <= Horizon
  /\ \A c \in Cooldowns : c <= Horizon

Health == {"healthy", "open", "half_open"}

Breaker == [state : Health, failures : 0..FailureCap, threshold : Thresholds,
            base : Cooldowns, cooldown : 1..Horizon, elapsed : 0..Horizon]

ASSUME NoneAssumption == None \notin Breaker /\ None \notin Hosts

VARIABLES
  breaker,  \* CircuitBreakerRegistry._breakers: host -> breaker, or None
  conf,     \* the registry's _threshold and _cooldown
  admitted, \* the host a request was admitted to, or None
  up,       \* environment: do calls to the device get through?
  quiet     \* history: time since the last failure recorded for a host

breakerVars == <<breaker, conf, admitted, up, quiet>>

BreakerTypeOK ==
  /\ breaker \in [Hosts -> Breaker \cup {None}]
  /\ conf \in [threshold : Thresholds, cooldown : Cooldowns]
  /\ admitted \in [Requests -> Hosts \cup {None}]
  /\ up \in [Hosts -> BOOLEAN]
  /\ quiet \in [Hosts -> 0..Horizon]

UpTo(n, bound) == IF n < bound THEN n ELSE bound

-----------------------------------------------------------------------------
(* Operations of one breaker *)

NewBreaker ==
  [state |-> "healthy", failures |-> 0, threshold |-> conf.threshold,
   base |-> conf.cooldown, cooldown |-> conf.cooldown, elapsed |-> 0]

\* CircuitBreakerRegistry.get: look up, or create with the current settings.
Get(h) == IF breaker[h] = None THEN NewBreaker ELSE breaker[h]

\* get_state: an open circuit whose cooldown has elapsed becomes half open.
Refreshed(b) ==
  IF b.state = "open" /\ b.elapsed >= b.cooldown
  THEN [b EXCEPT !.state = "half_open"]
  ELSE b

AfterSuccess(b) ==
  [b EXCEPT !.state = "healthy", !.failures = 0, !.cooldown = b.base]

\* Seeded fault: a failure recorded while the circuit is already open does not
\* renew the time of the last failure.
AfterFailure_OpenKeepsClock(b) ==
  LET f == UpTo(b.failures + 1, FailureCap) IN
  IF b.state = "half_open"
  THEN [b EXCEPT !.failures = f, !.elapsed = 0, !.state = "open",
                 !.cooldown = UpTo(b.cooldown * 2, MaxCooldown)]
  ELSE IF b.state = "open"
  THEN [b EXCEPT !.failures = f]
  ELSE IF f >= b.threshold
  THEN [b EXCEPT !.failures = f, !.elapsed = 0, !.state = "open"]
  ELSE [b EXCEPT !.failures = f, !.elapsed = 0]

\* Seeded fault: the threshold is compared before the failure is counted.
AfterFailure_CountsLate(b) ==
  LET f == UpTo(b.failures + 1, FailureCap) IN
  IF b.state = "half_open"
  THEN [b EXCEPT !.failures = f, !.elapsed = 0, !.state = "open",
                 !.cooldown = UpTo(b.cooldown * 2, MaxCooldown)]
  ELSE IF b.failures >= b.threshold
  THEN [b EXCEPT !.failures = f, !.elapsed = 0, !.state = "open"]
  ELSE [b EXCEPT !.failures = f, !.elapsed = 0]

\* Seeded fault: the backoff has no cap.
AfterFailure_Uncapped(b) ==
  LET f == UpTo(b.failures + 1, FailureCap) IN
  IF b.state = "half_open"
  THEN [b EXCEPT !.failures = f, !.elapsed = 0, !.state = "open",
                 !.cooldown = b.cooldown * 2]
  ELSE IF f >= b.threshold
  THEN [b EXCEPT !.failures = f, !.elapsed = 0, !.state = "open"]
  ELSE [b EXCEPT !.failures = f, !.elapsed = 0]

\* record_failure: a failed probe reopens with a doubled cooldown; otherwise
\* the circuit opens once the threshold is reached.
AfterFailure(b) ==
  LET f == UpTo(b.failures + 1, FailureCap) IN
  IF b.state = "half_open"
  THEN [b EXCEPT !.failures = f, !.elapsed = 0, !.state = "open",
                 !.cooldown = UpTo(b.cooldown * 2, MaxCooldown)]
  ELSE IF f >= b.threshold
  THEN [b EXCEPT !.failures = f, !.elapsed = 0, !.state = "open"]
  ELSE [b EXCEPT !.failures = f, !.elapsed = 0]

-----------------------------------------------------------------------------
(* Actions *)

BreakerInit ==
  /\ breaker = [h \in Hosts |-> None]
  /\ conf \in [threshold : Thresholds, cooldown : Cooldowns]
  /\ admitted = [r \in Requests |-> None]
  /\ up \in [Hosts -> BOOLEAN]
  /\ quiet = [h \in Hosts |-> Horizon]

\* Seeded fault: allow_request reads the state without the transition check.
Admit_NoRefresh(r, h) ==
  /\ admitted[r] = None
  /\ Get(h).state # "open"
  /\ breaker' = [breaker EXCEPT ![h] = Get(h)]
  /\ admitted' = [admitted EXCEPT ![r] = h]
  /\ UNCHANGED <<conf, up, quiet>>

\* allow_request returned True.  A refusal changes nothing: an open circuit
\* that get_state leaves open is left as it was.
Admit(r, h) ==
  /\ admitted[r] = None
  /\ Refreshed(Get(h)).state # "open"
  /\ breaker' = [breaker EXCEPT ![h] = Refreshed(Get(h))]
  /\ admitted' = [admitted EXCEPT ![r] = h]
  /\ UNCHANGED <<conf, up, quiet>>

\* The device answered (a CommandError counts as an answer).
Succeed(r) ==
  /\ admitted[r] # None
  /\ up[admitted[r]]
  /\ breaker' = [breaker EXCEPT ![admitted[r]] = AfterSuccess(Get(admitted[r]))]
  /\ admitted' = [admitted EXCEPT ![r] = None]
  /\ UNCHANGED <<conf, up, quiet>>

\* The device could not be reached, no connection was to be had, or the call
\* failed unexpectedly: all count alike.
Fail(r) ==
  /\ admitted[r] # None
  /\ ~up[admitted[r]]
  /\ breaker' = [breaker EXCEPT ![admitted[r]] = AfterFailure(Get(admitted[r]))]
  /\ quiet' = [quiet EXCEPT ![admitted[r]] = 0]
  /\ admitted' = [admitted EXCEPT ![r] = None]
  /\ UNCHANGED <<conf, up>>

\* Admitted, then turned away by the rate limiter or the bulkhead: the
\* request returns and no outcome is recorded.
Abandon(r) ==
  /\ admitted[r] # None
  /\ admitted' = [admitted EXCEPT ![r] = None]
  /\ UNCHANGED <<breaker, conf, up, quiet>>

\* get_open_circuits and stats call get_state on every breaker.
Observe ==
  /\ breaker' = [h \in Hosts |->
                   IF breaker[h] = None THEN None ELSE Refreshed(breaker[h])]
  /\ UNCHANGED <<conf, admitted, up, quiet>>

ResetHost(h) ==
  /\ breaker' = [breaker EXCEPT ![h] = None]
  /\ UNCHANGED <<conf, admitted, up, quiet>>

ResetAll ==
  /\ breaker' = [h \in Hosts |-> None]
  /\ UNCHANGED <<conf, admitted, up, quiet>>

\* _propagate_circuit_breaker: breakers that exist keep their settings.
Reload(n, c) ==
  /\ conf' = [threshold |-> n, cooldown |-> c]
  /\ UNCHANGED <<breaker, admitted, up, quiet>>

Flip(h) ==
  /\ up' = [up EXCEPT ![h] = ~up[h]]
  /\ UNCHANGED <<breaker, conf, admitted, quiet>>

Aged(b) ==
  IF b # None /\ b.state = "open"
  THEN [b EXCEPT !.elapsed = UpTo(b.elapsed + 1, Horizon)]
  ELSE b

TimePasses ==
  /\ breaker' = [h \in Hosts |-> Aged(breaker[h])]
  /\ quiet' = [h \in Hosts |-> UpTo(quiet[h] + 1, Horizon)]
  /\ UNCHANGED <<conf, admitted, up>>

BreakerNext ==
  \/ \E r \in Requests, h \in Hosts : Admit(r, h)
  \/ \E r \in Requests : Succeed(r) \/ Fail(r) \/ Abandon(r)
  \/ Observe
  \/ \E h \in Hosts : ResetHost(h)
  \/ ResetAll
  \/ \E n \in Thresholds, c \in Cooldowns : Reload(n, c)
  \/ \E h \in Hosts : Flip(h)
  \/ TimePasses

BreakerSpec == BreakerInit /\ [][BreakerNext]_breakerVars

(***************************************************************************)
(* Time passes, callers keep asking, a request that was sent to a failing  *)
(* device returns, and the rate limiter does not turn every request away.  *)
(***************************************************************************)
Fairness ==
  /\ WF_breakerVars(TimePasses)
  /\ \A r \in Requests : WF_breakerVars(Fail(r))
  /\ \A r \in Requests, h \in Hosts :
       SF_breakerVars(Admit(r, h)) /\ SF_breakerVars(admitted[r] = h /\ Succeed(r))

FairSpec == BreakerSpec /\ Fairness

-----------------------------------------------------------------------------
(* Properties *)

\* The state a breaker reports and the failures it has counted agree: circuits
\* are open or half open exactly when the threshold of consecutive failures has
\* been reached with no success since, whatever order the outcomes of the
\* concurrent requests arrive in and however often settings are reloaded.
StateMatchesFailures ==
  \A h \in Hosts :
    breaker[h] # None =>
      (breaker[h].state = "healthy" <=> breaker[h].failures < breaker[h].threshold)

\* Backoff belongs to one outage: a breaker that is healthy is back at its base
\* cooldown, so the next outage does not start with the last one's penalty.
HealthyHasBaseCooldown ==
  \A h \in Hosts :
    (breaker[h] # None /\ breaker[h].state = "healthy")
      => breaker[h].cooldown = breaker[h].base

\* Fail fast: once a breaker has seen its threshold of consecutive failures, no
\* request is admitted until its cooldown (doubled by each failed probe) has
\* passed since the last failure of that device, including the failures of
\* requests that were admitted before the circuit opened.
AdmissionWaitsOutCooldown ==
  [][\A r \in Requests, h \in Hosts :
       (/\ admitted[r] = None
        /\ admitted'[r] = h
        /\ breaker[h] # None
        /\ breaker[h].failures >= breaker[h].threshold)
         => quiet[h] >= breaker[h].cooldown]_breakerVars

\* A device that comes back for good is used again: the backoff never shuts it
\* out, and late failures of old requests cannot renew the cooldown forever.
RecoveredDeviceIsHealthy ==
  \A h \in Hosts :
    (<>[]up[h]) => []<>(breaker[h] = None \/ breaker[h].state = "healthy")
=============================================================================
