---------------------------- MODULE RedisBreaker ----------------------------
(***************************************************************************)
(* The circuit breaker that server instances share through Redis           *)
(* (distributed/redis_circuit_breaker.py): one device, several calls.      *)
(*                                                                         *)
(* Each method gets the device's hash from Redis, works on its copy, and   *)
(* sets the hash to it: two commands, with anything in between. A command  *)
(* that fails is only logged. A failed get leaves the call with a fresh    *)
(* breaker, a failed set leaves the hash as it was. What this makes of the *)
(* breaker is compared with CircuitBreaker, the one of a single instance,  *)
(* whose "state machine" this one is documented to match.                  *)
(*                                                                         *)
(* Time is counted as in CircuitBreaker. Instances have the same settings  *)
(* and agree on the time.                                                  *)
(***************************************************************************)
EXTENDS Naturals

CONSTANTS
  Calls,        \* threads of any instance, one tool call at a time each
  Threshold, BaseCooldown,
  MaxCooldown,  \* _MAX_COOLDOWN
  Horizon,      \* bound: elapsed times are counted up to here
  FailureCap,   \* bound: failures are counted up to here
  Mishaps,      \* may commands to Redis fail?
  Host, None

ASSUME RedisBreakerAssumption ==
  /\ Threshold \in 1..FailureCap
  /\ FailureCap \in Nat /\ Horizon \in Nat
  /\ BaseCooldown \in 1..Horizon /\ MaxCooldown \in 1..Horizon
  /\ Mishaps \in BOOLEAN

VARIABLES
  stored,   \* the hash in Redis, or None
  pc,       \* the place of each call
  copy,     \* what a call is about to set
  tainted,  \* history: a call whose copy is not what one atomic step would
            \* make of the hash now: its get failed, or it was overtaken
  up        \* environment: does the device answer?

vars == <<stored, pc, copy, tainted, up>>

State == [state : {"healthy", "open", "half_open"}, failures : 0..FailureCap,
          threshold : {Threshold}, cooldown : 1..Horizon, elapsed : 0..Horizon]

ASSUME NoneAssumption == None \notin State

TypeOK ==
  /\ stored \in State \cup {None}
  /\ pc \in [Calls -> {"idle", "asking", "admitted", "reporting"}]
  /\ copy \in [Calls -> State \cup {None}]
  /\ \A c \in Calls : copy[c] = None <=> pc[c] \in {"idle", "admitted"}
  /\ tainted \in [Calls -> BOOLEAN]
  /\ up \in BOOLEAN

UpTo(n, bound) == IF n < bound THEN n ELSE bound

Fresh ==
  [state |-> "healthy", failures |-> 0, threshold |-> Threshold,
   cooldown |-> BaseCooldown, elapsed |-> Horizon]

Init ==
  /\ stored = None
  /\ pc = [c \in Calls |-> "idle"]
  /\ copy = [c \in Calls |-> None]
  /\ tainted = [c \in Calls |-> FALSE]
  /\ up \in BOOLEAN

-----------------------------------------------------------------------------
(* What the methods make of a copy *)

\* _check_transition
Transitioned(s) ==
  IF s.state = "open" /\ s.elapsed >= s.cooldown
  THEN [s EXCEPT !.state = "half_open"]
  ELSE s

\* Seeded fault: a success clears the count and leaves the state.
Succeeded_KeepsState(s) == [s EXCEPT !.failures = 0, !.cooldown = BaseCooldown]

\* record_success
Succeeded(s) == [s EXCEPT !.state = "healthy", !.failures = 0, !.cooldown = BaseCooldown]

\* Seeded fault: a failed probe leaves the cooldown as it is.
Failed_NoBackoff(s) ==
  LET t == Transitioned(s)
      f == UpTo(s.failures + 1, FailureCap)
  IN [t EXCEPT !.failures = f, !.elapsed = 0,
               !.state = IF f >= t.threshold \/ t.state = "half_open" THEN "open" ELSE t.state]

\* record_failure
Failed(s) ==
  LET t == Transitioned(s)
      f == UpTo(s.failures + 1, FailureCap)
  IN [t EXCEPT !.failures = f, !.elapsed = 0,
               !.state = IF f >= t.threshold \/ t.state = "half_open" THEN "open" ELSE t.state,
               !.cooldown = IF t.state = "half_open" THEN UpTo(2 * t.cooldown, MaxCooldown)
                                                     ELSE t.cooldown]

\* A failure recorded is known from a success by its count.
IsFailure(s) == s.failures > 0

-----------------------------------------------------------------------------
(* A call *)

\* What _get_state returns, unless Redis fails it.
Current == IF stored = None THEN Fresh ELSE stored

\* _get_state, with what the method makes of the hash, or of a fresh breaker.
Get(c, ofHash, ofFresh) ==
  \/ /\ copy' = [copy EXCEPT ![c] = ofHash]
     /\ tainted' = [tainted EXCEPT ![c] = FALSE]
  \/ /\ Mishaps
     /\ copy' = [copy EXCEPT ![c] = ofFresh]
     /\ tainted' = [tainted EXCEPT ![c] = TRUE]

\* Whoever holds a copy while the hash becomes something else is overtaken.
Overtake(c, new) ==
  tainted' = [d \in Calls |->
    d # c /\ (tainted[d] \/ (new # stored /\ copy[d] # None))]

\* _set_state
Set(c) == stored' = copy[c] /\ Overtake(c, copy[c])

SetFails(c) == Mishaps /\ UNCHANGED stored /\ Overtake(c, stored)

\* allow_request
Ask(c) ==
  /\ pc[c] = "idle"
  /\ pc' = [pc EXCEPT ![c] = "asking"]
  /\ Get(c, Transitioned(Current), Transitioned(Fresh))
  /\ UNCHANGED <<stored, up>>

Admits(s) == s.state # "open"

Asked(c) ==
  /\ pc[c] = "asking"
  /\ Set(c) \/ SetFails(c)
  /\ pc' = [pc EXCEPT ![c] = IF Admits(copy[c]) THEN "admitted" ELSE "idle"]
  /\ copy' = [copy EXCEPT ![c] = None]
  /\ UNCHANGED up

\* The device has answered, or has not: record_success, record_failure.
Report(c) ==
  /\ pc[c] = "admitted"
  /\ pc' = [pc EXCEPT ![c] = "reporting"]
  /\ \/ up /\ Get(c, Succeeded(Current), Succeeded(Fresh))
     \/ ~up /\ Get(c, Failed(Current), Failed(Fresh))
  /\ UNCHANGED <<stored, up>>

Reported(c) ==
  /\ pc[c] = "reporting"
  /\ Set(c) \/ SetFails(c)
  /\ pc' = [pc EXCEPT ![c] = "idle"]
  /\ copy' = [copy EXCEPT ![c] = None]
  /\ UNCHANGED up

\* Turned away by the rate limiter or the bulkhead: nothing is recorded.
Abandon(c) ==
  /\ pc[c] = "admitted"
  /\ pc' = [pc EXCEPT ![c] = "idle"]
  /\ UNCHANGED <<stored, copy, tainted, up>>

\* reset: the hash is deleted; a failure of that is only logged and changes nothing.
Reset ==
  /\ stored # None
  /\ stored' = None
  /\ tainted' = [c \in Calls |-> tainted[c] \/ copy[c] # None]
  /\ UNCHANGED <<pc, copy, up>>

Flip == up' = ~up /\ UNCHANGED <<stored, pc, copy, tainted>>

\* time.time() - last_failure, which is read only while the circuit is open
Older(s) ==
  IF s # None /\ s.state = "open" THEN [s EXCEPT !.elapsed = UpTo(@ + 1, Horizon)] ELSE s

Tick ==
  /\ stored' = Older(stored)
  /\ copy' = [c \in Calls |-> Older(copy[c])]
  /\ tainted' = [c \in Calls |-> tainted[c] \/ copy[c] # None]
  /\ UNCHANGED <<pc, up>>

Next ==
  \/ \E c \in Calls : Ask(c) \/ Asked(c) \/ Report(c) \/ Reported(c) \/ Abandon(c)
  \/ Reset \/ Flip \/ Tick

Spec == Init /\ [][Next]_vars

-----------------------------------------------------------------------------
(* Properties *)

\* The breaker of a single instance that holds what the hash holds.
Local == INSTANCE CircuitBreaker WITH
  Hosts <- {Host}, Requests <- Calls,
  Thresholds <- {Threshold}, Cooldowns <- {BaseCooldown},
  breaker <- [h \in {Host} |->
    IF stored = None THEN None
    ELSE [state |-> stored.state, failures |-> stored.failures,
          threshold |-> stored.threshold, base |-> BaseCooldown,
          cooldown |-> stored.cooldown, elapsed |-> stored.elapsed]],
  conf <- [threshold |-> Threshold, cooldown |-> BaseCooldown],
  admitted <- pc, up <- [h \in {Host} |-> up], quiet <- [h \in {Host} |-> 0]

ASSUME LocalNoneAssumption == None \notin Local!Breaker

\* What the method a call is in makes of the breaker there.
LocalResult(c) ==
  LET b == Local!Get(Host) IN
  IF pc[c] = "asking" THEN Local!Refreshed(b)
  ELSE IF IsFailure(copy[c]) THEN Local!AfterFailure(b) ELSE Local!AfterSuccess(b)

Agree(s, b) ==
  /\ s.state = b.state /\ s.failures = b.failures
  /\ s.threshold = b.threshold /\ s.cooldown = b.cooldown
  /\ s.state = "open" => s.elapsed = b.elapsed

\* A result for a circuit that has been open for its cooldown and that nobody has
\* asked about since.
IsLate(c) ==
  /\ pc[c] = "reporting" /\ IsFailure(copy[c])
  /\ stored # None /\ stored.state = "open" /\ stored.elapsed >= stored.cooldown

SetsIn(c) == copy[c] # None /\ copy'[c] = None /\ ~tainted[c] /\ stored' = copy[c]

\* "State machine matches the local implementation" (line 6) of methods that nobody
\* overtakes and Redis does not fail, however calls of other instances and failures of
\* Redis have shaped the hash before. Late failures are the exception: what this
\* breaker takes for a failed probe, doubling the cooldown, leaves the cooldown of the
\* local one alone.
MatchesLocalUnlessLate ==
  [][\A c \in Calls : SetsIn(c) /\ ~IsLate(c) => Agree(stored', LocalResult(c))]_vars

\* A hash is consistent although copies overwrite each other and get lost: the
\* circuit is open or half open exactly when the failures that it counts reach the
\* threshold, so no mix-up leaves a device locked out with nothing to show for it.
HashIsConsistent ==
  stored # None => (stored.state = "healthy" <=> stored.failures < stored.threshold)
=============================================================================
