# TLA+ models of network-mcp

These modules model the parts of network-mcp that decide what reaches a network
device, when, and on whose behalf. TLC checks them on small instances and TLAPS
proves the most important facts for every instance. Paths such as
`helpers.py:1282` are relative to `src/network_mcp/` of the repository.

network-mcp is an MCP server. A tool call arrives over stdio or HTTP, runs in a
worker thread (`asyncio.to_thread` or the thread pool of `executor.py`) and talks
to one or more devices over pyeapi, SSH or gNMI. The threads share one process
and a set of singletons, most of them behind `threading.Lock`s that are let go
before any network I/O. What is hard is what happens in between: state that was
read under a lock and is used after it, error paths that must undo several things
in the right order, and time.

## 1. Inventory

| Component (source) | State | Operations | Talks to |
|---|---|---|---|
| Circuit breaker (`circuit_breaker.py`) | per device: state, failure count, cooldown, time of the last failure; the registry's settings | `allow_request`, `record_success`, `record_failure`, `get_state`, reset, reload of settings | asked and told by `helpers.py`; settings from `config.py` |
| Connection pool (`connection.py`) | drivers in order of use, reference counts, verified hosts, host locks | `acquire`, `get_driver`, eviction, verification, `remove_node`, `close_all` | drivers; every tool |
| Bulkhead (`connection.py`) | one bounded semaphore per vendor | take with a time-out, give back | around `acquire` in `helpers.py` |
| Idempotency store (`idempotency.py`) | results by key, events of keys in flight | `acquire`, `complete`, `cancel`, `set`, expiry, eviction | `run_config_command` |
| Graceful shutdown (`server.py`) | in-flight counter, shutdown flag, shutdown event | increment, decrement, signal, drain, close | `run_config_command`; the pool |
| Command execution (`helpers.py`) | none of its own | `run_show_command`, `run_config_command`, `run_session_command` | all of the above |
| Change management (`change_management.py`, `tools/common/changes.py`) | change requests, pending and completed | create, gate, approve, execute, validate, roll back | pool (with the host lock), `helpers.py` |
| Command cache (`cache.py`) | entries with age and size, a byte counter | `get`, `put`, eviction, invalidation | `helpers.py` |
| Leader election (`leader.py`) | a Redis lease, a replica's belief that it leads and since when | acquire, renew, release, ask | Redis; started and stopped by `server.py` |
| Rate limiters (`rate_limiter.py`) | token buckets and their tables | check, with and without waiting; reload | `helpers.py`, `config.py` |
| Redis breaker, limiter, cache (`distributed/`) | Redis keys shared by instances | the same operations; the breaker reads, changes and writes in separate commands | Redis |
| gNMI pool (`gnmi_connection.py`) | connections with age and reference counts | get, release, close, evict | gNMI clients; used by no tool so far |
| Device drivers (`drivers/`) | whether a driver is connected, by which transport, and since when it has been idle | connect, probe after a pause, reconnect, fall back to SSH, run | the pool keeps them; the device |
| Configuration pushes (`tools/common/config.py`, `drivers/juniper_junos.py`) | the candidate and the running configuration, on the device | compare versions, lock, edit, commit, clean up | `get_driver` |
| Multi-device executor (`executor.py`) | outcomes by device, a semaphore, the event loop's thread pool | fan out, collect, time out | the fabric health check and other tools on many devices |
| Snapshots (`tools/workflows.py`) | snapshots in memory, and as files | take, keep, evict, reload, compare | `helpers.py` |
| Automatic rollback (`tools/config_mgmt.py`) | checkpoints on the device | save, push, judge, restore | `helpers.py`, and the cache through it |
| Session managers (`session_mgr.py`, `http_session.py`) | sessions of users, with an index by user; sessions for resumption, with the history of calls | create, touch, record, expire, evict | the wrapper around `call_tool` in `server.py`; the HTTP transport |
| Config sessions, checkpoints (`tools/sessions.py`, `tools/checkpoints.py`, `tools/config_mgmt.py`) | on the device | stage, diff, commit, commit with timer, confirm, abort, dry run | `run_session_command`, `get_driver`, the cache |
| Everything else | see `PROJECT.json` | | |

`PROJECT.json` lists every component with its status, the ones that are left out
too (authentication, audit, alerts, read tools, integrations, plugins)
with the reason.

### What is hard, and what makes each component correct

* **Circuit breaker.** Several threads are admitted before the first of them
  reports, so outcomes arrive late and in any order, also when the circuit is
  already open, half open, or was reset and made anew. State, failure count,
  cooldown and clock must stay consistent; nobody may get through early; a device
  that recovers must come back into use.
* **Connection pool.** Two locks guard one thing (the pool's `_nodes_lock` and the
  lock per host), verification runs with neither pool lock, and `get_driver`,
  `remove_node` and `close_all` go around the host lock. A driver in use must not
  be evicted or shared, counts must return to zero, host locks must come back.
* **Idempotency and shutdown.** A second call with a key waits for the first, which
  may succeed, fail, raise, be refused, or outlast the waiter's patience; entries
  expire and are evicted meanwhile. Shutdown reads a counter that calls are leaving.
* **Change pipeline.** One call takes the host lock three to five times, a bulkhead
  slot once, and changes a request that an approver and a rollback tool change
  too, with no lock on the request.
* **Cache.** A show that was reading while a change waited must not put back what
  the change has made obsolete; `put` keeps a byte counter by hand.
* **Leader election.** A lease runs out while its holder still believes in it, and
  look and act are separate commands to Redis, each of which may fail, be late, or
  hit a key that has changed hands. How long can a replica be wrong?
* **Rate limiters.** Requests that found a bucket keep it while others take from it
  and a reload replaces it; yet what is let through must stay within the limit.
* **Executor.** A time-out ends the waiting and not the operation, so that results
  arrive for which nobody waits any more and threads go missing.
* **Snapshots.** What was captured must be found again after evictions and crashes,
  and what could not be captured must not look like good news.
* **Automatic rollback.** Four calls, each of which may be refused or lose its
  answer, with other tools on the same device between any two of them.
* **Redis circuit breaker.** Instances overwrite what others have written since they
  read; commands fail and are only logged. What is left of "the same state machine"?
* **Drivers.** API, SSH and credentials fail and come back on their own, between any
  two exchanges. A driver must not keep a connection that is no use, nor give up for
  good.
* **Pushes.** Several pushes share a session to a device that refuses some of their
  exchanges, and does others without saying so; each may lock, edit, commit and
  clean up what belongs to another.
* **gNMI pool.** Counts are kept by key and clients replaced under a key, so a
  release may meet another client than the one that was got.
* **User sessions.** One fact is kept twice, in a table and in an index, and every
  operation must keep the two in step.
* **HTTP sessions.** A call is recorded when it is over, in a store in which others
  have created, resumed and ended sessions meanwhile.
* **Configuration sessions.** A name is all it takes to use a session. Two users can
  hold one name, a timer can end between two requests, and requests fail half way.

`hazards` in `PROJECT.json` lists those of the modelled parts, with their lines and the
properties that cover each item, and the most important others.

## 2. Modules

| Module | Models | Atomic steps |
|---|---|---|
| `CircuitBreaker` | breaker, registry, the way requests use them | one call of a breaker method (each holds the breaker's lock throughout) |
| `ConnectionPool` | `ConnectionManager` | one critical section of `_nodes_lock` or `_host_locks_guard`; one device answer |
| `ConnectionPoolProofs` | theorems about it | |
| `IdempotentCalls` | `run_config_command` from the outside, the store, the in-flight counter, the drain | one critical section of the store's or the in-flight lock; one execution |
| `IdempotentCallsProofs` | theorems about it | |
| `ChangePipeline` | `run_config_command` from the inside with change management on, `ChangeManager`, the approve and rollback tools, the bulkhead | one status change, one lock operation, one device operation |
| `CommandCache` | the cache between shows, changes and staged commands | one critical section of the cache's lock; one device operation |
| `CommandCacheProofs` | theorems about it, and about the store it implements | |
| `CoherentStore` | what a store of answers promises (abstract) | a change, an answer taken in, answers dropped |
| `LeaderElection` | replicas with their two threads, the lease, time | one command to Redis; one critical section of the elector's lock |
| `LeaderElectionProofs` | theorems about it | |
| `Serving` | what `CircuitBreaker` and `RateLimits` have in common: requests, devices | |
| `RateLimits` | token buckets, the Redis counter, requests, reloads, time | one critical section of a bucket or of a limiter's lock; one transaction of Redis |
| `FanOut` | `execute_on_devices`, the thread pool, the fabric health check | what a coroutine does between two awaits; one step of a pool thread |
| `CallSteps` | what `ChangePipeline` and `AutoRollback` have in common: calls and their places | |
| `AutoRollback` | `eos_auto_rollback_on_failure`, the checkpoint tools, readers of the same command | sending a command to the device with the host lock; its answer |
| `RedisBreaker` | the breaker that instances share | one command to Redis |
| `RedisBreakerProofs` | theorems about it | |
| `DriverSession` | the connection of an NX-OS or SONiC driver, and the pool that keeps the driver | one exchange with the device |
| `AdmissionProofs` | theorems about `RateLimits`, and about `CircuitBreaker` | |
| `ChangeProofs` | theorems about `ChangePipeline`, and about `AutoRollback` | |
| `OperationProofs` | theorems about `FanOut`, and about `DriverSession` | |
| `MCChangePipeline`, `MCCommandCache`, `MCRateLimits`, `MCFanOut`, `MCAutoRollback`, `MCDriverSession` | instances: symmetry, changes, sequences, kinds of drivers | |

State variables carry the names of the attributes they stand for or say so where
they are declared; variables marked "history" exist for a property only and guard
no action. Definitions called `X_Something` that follow the comment "Seeded fault"
are not used by any specification. They are variants of `X` with a plausible bug,
kept because each one makes a property fail: they show that the property is about
the code.

### CircuitBreaker

`breaker[h]` is a record with the fields of `CircuitBreaker`, or `None` until
`CircuitBreakerRegistry.get` makes one. `Admit` is `allow_request` returning
`True`, `Succeed` and `Fail` are the two ways a request comes back, `Abandon` is a
request that was admitted and then refused by the rate limiter or the bulkhead
before it reached the device. `Observe` is `stats` and `get_open_circuits`, which
move open circuits to half open as a side effect. `Reload` is
`_propagate_circuit_breaker` of `config.py`: breakers that exist keep the settings
they were made with. `time.monotonic() - _last_failure_time` becomes `elapsed`,
which only advances while a circuit is open because the code reads it only then.

### ConnectionPool

A thread goes through `acquire` as *waiting*, *locked*, *verifying*, *probing*,
*using*, *leaving*. `drv`, `order`, `refcount` and `verified` are `_drivers` (an
`OrderedDict`), `_refcounts` and `_verified`; `lockOf` is `_host_locks`, and
`holder` says who holds a lock object, which may no longer be in the table.
`remove_node` and `close_all` are two steps each, as in the code: drivers first,
locks later. Drivers and locks are objects with identities. An identity nobody
refers to is used again, which keeps the state space finite and loses nothing.

### IdempotentCalls

A call goes *new*, *waiting* (if its key is in flight), *entering*, *executing*,
*releasing* (if it owns its key), *leaving*, *done*. `complete` takes two steps
(store, then event and registration) because the code uses two critical sections.
The server goes *up*, *stopping*, *draining*, *closing*, *closed*, reading the
counter in a step of its own between setting the flag and waiting.

### ChangePipeline

`pc` is the place in `run_config_command` or `ChangeManager.rollback`; `grip`,
`gen` and `outer` record which host lock a thread waits for, holds in the current
phase, and keeps from an outer `with`. Host locks have generations because
`remove_node` and `close_all` replace them. The configuration is a set of lines;
the rollback generated for a change is its reverse.

`StartRollback` is `net_rollback_change` of a request in any status, at any moment of the
call the request belongs to, for neither the tool nor `ChangeManager.rollback` looks at the
status (`tools/common/changes.py:137-145`). Two history variables say what came of it:
`given` is the last that the device took of a request, its commands or their reverse, and
`early` are the requests that a rollback had set to failed or rolled back when their call
came to the gate. `Raise` is `helpers.py:1425` with a Redis limiter, which has no
`check_config_with_backoff`: the exception passes all handlers that know of the request. It
needs `net_rate_limit_max_wait` to be set, and then every call that gets so far takes it,
hence the flag `raises` of `mode`.

### CommandCache

`cache` is the dict of entries and `older` the order that their `last_accessed` gives;
`memory` is `_current_memory_bytes`, and what entries take up is the number of their
`Bytes`, numbered within each entry. `Put` stands for the code's two loops of
evictions by where they stop: at the least set of oldest entries without which both
limits admit the new one. It includes what happens to the counter when the entry
replaced is evicted as well. The host
lock is kept as a plain lock per host; that it is one is shown in `ConnectionPool`.
`Stage` is `eos_add_to_config_session`, which changes what the device shows about
its sessions with neither the host lock nor an invalidation, and stands for the device's
part of `net_push_config` too, which pushes in the same way (`tools/common/config.py:320`).

`ImplementsCoherentStore` is the refinement: `CommandCache` implements
`CoherentStore` with `stored` read off the entries. `CoherentStore`
leaves open what is kept, for how long, and what makes room for what. What it does
not leave open is that an answer is taken in only if it is the present one, unless
the host is *adrift*: it has changed and its answers have not been dropped since.
An invalidation ends the drift except where a show, overtaken by a staged command,
still holds the host lock with an answer from before (`Overtaken`).

### LeaderElection

A replica is *down*, acquiring (*claim*, or *taken* and *probe*), *up*, or releasing; its
renewal thread sleeps, looks, extends and stamps. `raw` and `age` are `_is_leader` and the
time since `_lease_acquired_at`; `owner` and `left` are the key in Redis and its time to
live. A round of two commands, such as the GET and EXPIRE of a renewal, is two waits for
Redis with `Continue` between them: the answer to the first command comes, and only then is
the second sent. `Tick` waits for the answer to a command that is overdue by `MaxDelay`,
which stands for `socket_timeout` and scheduling, so that a round may take twice as long.
`Exit` is the end of the process at any point, by `release` or by a crash, and a replica may
come back under its old name. A `DEL` whose client gave up may take effect later (`stray`).
`lost` counts the time since the key ceased to name a replica that believes in it; `hollow`
marks beliefs that were stamped with no full lease behind them.

### RateLimits

Buckets are objects with identities and tables point to them, because a reload
empties the tables while requests hold buckets. Amounts are integers in units of
which a token costs `Cost`, so that fractions exist. A bucket has the time since
its last refill (`idle`) and is filled when asked, as in the code. A request takes
a token for each key in turn, user and tenant before the device; tokens are not
given back if a later key refuses. `Watch` begins a stretch of time anywhere, in
which `taken` and `passed` count.

### FanOut

A task per target goes *waiting*, *awaiting*, *reporting*, *done*; its operation in
the pool goes *queued*, *running*, *ended*, or *cancelled* before it began. The list
of targets may name a device twice, as a comma-separated list may. `Severity` and
`HealthStatus` are the verdict `eos_validate_fabric_health` draws; an answer is
reduced to what it would add to it. `"thin"` is an answer without the commands that
failed, which the health check does not count against a device.

### AutoRollback

The configuration of the device is the set of calls whose change is in force, so
that a checkpoint is such a set too and restoring it can undo, keep, or bring back
changes. An answer to the show command is the set of changes the device had taken
by then, whether or not they are still in force. `Send` and `Receive` are the two
ends of every device command; `Refused` and `Lost` are the two kinds of error,
before and after the device could see it. The cache holds one entry, which other
readers fill as well. `Create` saves a checkpoint under any name, those that automatic
rollbacks use included, as `eos_create_checkpoint` does (`tools/checkpoints.py:52-56`), and
`saver` says who was the last to save under a name.

### RedisBreaker

A call goes *asking*, *reporting*, and back; between the get and the set of each
method it holds a `copy` of the hash. `tainted` marks copies that are not what one
atomic step would make of the hash by now. `Local` instantiates `CircuitBreaker` with
a breaker that holds what the hash holds, so that each set can be compared with what
the local breaker's method would have done (`LocalResult`). The two are not one
refinement of the other, and `MatchesLocalUnlessLate` says where they part.

### DriverSession

`primary` and `ssh` are the two transports of a driver, as the driver sees them; `api`,
`shell` and `auth` say whether the device would answer. A command goes through the
probe after a pause, reconnection with its attempts, and the run itself.

The module is about two drivers, NX-OS and SONiC, and about commands that have a path in
the API. `kind` is how such a driver dials. Its transport is `"rest"` for SONiC, `"nxapi"`
for NX-OS, and `"ssh"` for NX-OS with any other transport in the inventory: the pool
passes on what stands there, by default `https`, and `connect` takes only `nxapi` for the
API (`connection.py:287`, `drivers/cisco_nxos.py:239`). Its port is the API's or that of
SSH, for the pool passes on one port, which both transports dial (`connection.py:290`,
`drivers/cisco_nxos.py:293`). An NX-OS driver that falls back to SSH therefore dials the
port where the API was, and is answered only if the device listens for SSH there. The
other drivers are not modelled: they differ in what matters here. That for IOS-XE sends
text and unmapped commands over an SSH transport that it does not have under RESTCONF
(`drivers/cisco_iosxe.py:531`); those for JunOS, PAN-OS and FortiOS reconnect in ways of
their own.

## 3. Runs

| Run | Instance | Shows |
|---|---|---|
| `breaker` | 3 requests, 1 device, thresholds {1, 3}, cooldowns {1, 2, 3}, cap 4 | `StateMatchesFailures`, `AdmissionWaitsOutCooldown`, and `RecoveredDeviceIsHealthy` under fairness |
| `pool` | 2 threads, 2 devices, room for 1 connection | `DriverInUseIsKept`, `NoLeakedReference`, and `LocksAreReturned` under fairness |
| `idempotency` | 3 calls, 2 keys, room for 1 result | `OwnersDoNotRepeat`, `NoOrphanedKey`, `DrainIsClean`, and `DrainNeedsNoTimeout` under fairness |
| `pipeline` | 2 changes, 1 rollback of either in any status, 1 line, 1 slot, lock replaced once | `ExecutingHasWorker`, `OnlyApprovedRuns`, `NothingIsLeaked`, `RolledBackIsUndone` |
| `cache` | 3 shows, 2 changes, 3 queries, room for 2 answers | `ImplementsCoherentStore` (refinement), `MemoryIsNotOverstated` |
| `leader` | 2 replicas, lease of 3 renewal intervals, each command takes up to half an interval | `BeliefOutlivesLeaseBriefly`, `HealthyLeaderKeepsLease` |
| `limits` | 2 requests, 1 user and 1 device, both backends | `AdmissionsAreBounded`, `OneCurrentBucketPerKey` |
| `fanout` | up to 3 targets, 2 slots, 2 threads | `EveryoneIsAccountedFor`, `HealthyMeansAllAnswered`, and `EveryCallReturns` under fairness |
| `autorollback` | 2 calls, 2 seconds, 1 thread with other tools | `HealthIsJudgedAfterChange`, `FailedChangesAreUndone` |
| `redis_breaker` | 2 calls, threshold 2, cooldowns up to 3, Redis may fail | `HashIsConsistent`, `MatchesLocalUnlessLate` |
| `driver` | NX-OS and SONiC, each transport with each port, 3 attempts | `PauseHeals`, `FallbackStaysConnected` |

Each also checks the module's `TypeOK` (`BreakerTypeOK`, `AutoTypeOK` and `DriverTypeOK`
for breaker, automatic rollback and driver), except `redis_breaker`, whose module has it
proved. One more run, `pipeline_returns`, checks what the repository says of the program
and finds that the code does otherwise; see section 6.

### Bounds, and why they are enough

* **CircuitBreaker.** Breakers share nothing but the settings, so one device
  suffices. Three requests are needed for one to probe while two older ones are
  still out. `Horizon` caps elapsed times and `FailureCap` the failure count; the
  assumptions say that no cooldown and no threshold exceeds them, so a capped
  value compares like the true one. Cooldowns below, at and next to `MaxCooldown`
  make the doubling reach its cap.
* **ConnectionPool.** Two threads are the smallest conflict for one host, two hosts
  with one slot the smallest conflict for the pool. Three identities cover one
  driver pooled and one in each thread's hand; the same holds for locks.
  `get_driver` is allowed on one of the hosts, so the other shows what `acquire`
  guarantees on its own.
* **IdempotentCalls.** Three calls give an owner, a waiter and a latecomer; two
  keys with room for one result give an eviction by another key.
* **ChangePipeline.** Two changes and a rollback on one device compete for its lock
  and one slot. `MaxGen = 1` replaces the lock once, which is enough for two
  holders at a time. A change sets the line or is blank, and a run begins with the line or
  without it; a removal would be the same with the line's absence for the line, and the
  rollbacks remove. The calls are symmetric. The run that shows the call that waits for
  itself needs one call, with nobody else about.
* **CommandCache.** Three queries for two places, sizes 1 and 2 against a limit of
  3: both limits bind, alone and together. Ages stop one past the last that matters.
  A third show lets one answer be read, one be served and one be evicted around two
  changes. Queries, shows and changes are symmetric.
* **LeaderElection.** Two replicas: one that has lost the lease and one that has
  taken it. With ticks of five seconds, `Ttl = 6` and `MaxDelay = 1` are the defaults of the
  code: a lease of 30 s, renewed every 10 s with two commands of up to 5 s each
  (`leader.py:74`). `LastLost` lies beyond every bound the properties state.
* **RateLimits.** A token costs two units and rates are one or two units per tick,
  so that buckets hold half tokens. One request is limited by user and device, the
  other by the device alone. Three identities cover a bucket in each table and one
  that a reload left in a request's hand. A stretch of `MaxWatch = 3` spans a full
  window of the Redis counter and is longer than any wait.
* **FanOut.** Three targets for two slots and two threads: one waits, one runs, one
  may be left behind. The lists are three devices, and two with one of them named
  twice. The other tools may take any number of the threads at any time.
* **AutoRollback.** Two calls can meet in one second or not. People save under the
  names of the two seconds too; a name whose second no call begins in is like any name that
  they make up, so the set of these (`Named`) is empty. The calls are symmetric.
* **RedisBreaker.** A call that overtakes another is all that a copy can meet; a third
  would do the same again, and the proofs hold for any number. The cap on cooldowns is
  met after two failed probes.
* **DriverSession.** A driver is used by one command at a time, and devices share nothing,
  so one driver of each kind suffices: three transports, each dialling the right port or
  the wrong one. The attempts are those of the code.

`CHECK_DEADLOCK FALSE` appears only where the system may stop: in
`IdempotentCalls` every call ends and the server closes; in `ChangePipeline` calls
end, and may also block on a lock they hold themselves (section 6).

### Fairness

* **CircuitBreaker.** Time passes and a call to a device that is down returns
  (drivers have time-outs): weak fairness. `RecoveredDeviceIsHealthy` also needs
  callers that keep asking and get through from time to time; since the breaker
  refuses them in between, and a rate limiter may, this is strong fairness of
  `Admit` and of the success of an admitted request.
* **ConnectionPool, IdempotentCalls, ChangePipeline.** A thread inside an
  operation is scheduled, and device calls answer or time out: weak fairness of
  `Proceed`. Nothing forces a thread to start an operation. No time-out is assumed
  to strike: a wait that ends only by its time-out counts as not ending.
* **FanOut.** The event loop runs what is ready and its timers fire: weak fairness
  of entering, of resuming or timing out, of reporting, and of returning. Nothing is
  assumed of threads: an operation may run for ever, and the other tools may never
  give the pool's threads back.

## 4. Proofs

Proved for any sets of devices, calls, replicas, keys and queries, and any settings that
meet the assumptions below:

| Theorem | Statement |
|---|---|
| **`AdmissionProofs`**, about `RateLimits` | |
| `TypeCorrect` | `Spec => []TypeOK` |
| `AdmissionsStayBounded` | `Spec => []AdmissionsAreBounded` |
| `OneBucketServes` | `Spec => []OneCurrentBucketPerKey` |
| **`AdmissionProofs`**, about `CircuitBreaker` | |
| `BreakersTypeCorrect` | `BreakerSpec => []BreakerTypeOK` |
| `StateAlwaysMatchesFailures` | `BreakerSpec => []StateMatchesFailures` |
| `NoLeftoverBackoff` | `BreakerSpec => []HealthyHasBaseCooldown` |
| `FailFast` | `BreakerSpec => AdmissionWaitsOutCooldown` |
| **`ConnectionPoolProofs`** | |
| `TypeCorrect` | `Spec => []TypeOK` |
| `UsersKeepTheirDriver` | `Spec => []DriverInUseIsKept` |
| `CountsAreBacked` | `Spec => []NoLeakedReference` |
| **`IdempotentCallsProofs`** | |
| `TypeCorrect` | `Spec => []TypeOK` |
| `StoreStaysBounded` | `Spec => []StoreIsDict` |
| `OwnersSucceedOnce` | `Spec => []OwnersDoNotRepeat` |
| `KeysAreGivenUp` | `Spec => []NoOrphanedKey` |
| `DrainWaitsForEveryone` | `Spec => []DrainIsClean` |
| **`ChangeProofs`**, about `ChangePipeline` | |
| `TypeCorrect` | `Spec => []TypeOK` |
| `NobodyExecutesForEver` | `Spec => []ExecutingHasWorker` |
| `NothingLeaks` | `Spec => []NothingIsLeaked` |
| `OnlyApprovedChangesRun` | `Spec => []OnlyApprovedRuns` |
| `RolledBackMeansUndone` | `Spec => []RolledBackIsUndone` |
| **`ChangeProofs`**, about `AutoRollback` | |
| `AutoTypeCorrect` | `AutoSpec => []AutoTypeOK` |
| `HealthIsJudgedInTime` | `AutoSpec => []HealthIsJudgedAfterChange` |
| `FailuresAreUndone` | `AutoSpec => []FailedChangesAreUndone` |
| **`LeaderElectionProofs`** | |
| `TypeCorrect` | `Spec => []TypeOK` |
| `BeliefEndsInTime` | `Spec => []BeliefOutlivesLeaseBriefly` |
| `HealthyLeadersStay` | `Interval + 3 * MaxDelay < Ttl` implies `Spec => []HealthyLeaderKeepsLease` |
| **`CommandCacheProofs`** | |
| `TypeCorrect` | `Spec => []TypeOK` |
| `MemoryIsBacked` | `Spec => []MemoryIsNotOverstated` |
| `CacheStaysBounded` | `Spec => [](IsFiniteSet(Cached) /\ Cardinality(Cached) <= MaxEntries)` |
| `CacheImplementsStore` | `Spec => ImplementsCoherentStore`, which is `Store!Spec` |
| `StoreIsCoherent` | `Store!Spec => []Store!Coherent` |
| `CacheIsCoherent` | `Spec => []Store!Coherent` |
| **`OperationProofs`**, about `FanOut` | |
| `TypeCorrect` | `Spec => []TypeOK` |
| `OutcomesAreComplete` | `Spec => []EveryoneIsAccountedFor` |
| `HealthyIsTrue` | `Spec => []HealthyMeansAllAnswered` |
| **`OperationProofs`**, about `DriverSession` | |
| `DriversTypeCorrect` | `DriverSpec => []DriverTypeOK` |
| `PausesHeal` | `DriverSpec => []PauseHeals` |
| `FallbackKeepsConnection` | `DriverSpec => FallbackStaysConnected` |
| **`RedisBreakerProofs`** | |
| `TypeCorrect` | `Spec => []TypeOK` |
| `HashIsAlwaysConsistent` | `Spec => []HashIsConsistent` |
| `MatchesOneInstance` | `Spec => MatchesLocalUnlessLate` |

Three modules hold the theorems about two components each, and extend the modules of both.
The definitions of the second therefore carry its name (`BreakerSpec`, `AutoSpec`,
`DriverSpec`, `DriverTypeOK`), and what both declare stands in a module below them
(`Serving`, `CallSteps`).

For each component there is one inductive invariant, `IInv` or `BreakersInv`, `AutoInv` and
`DriverInv`. It holds initially, every step keeps it, and the theorems follow from it. TLC
has checked each invariant on the instance of the component's run, and where noted on others,
before it was proved. It is more than the properties: it also says what makes them last, as
follows.

**Rate limiters.** A bucket's admissions are bounded by what it has let through together with
what it could let through now, `WithinRate`: `taken * Cost` and the tokens it would have if
it were filled up are at most the cap and what the rate yields in the time watched. A request
moves `Cost` units from the one to the other, a refill changes neither, a tick adds at most
the rate to both sides, and so no sum over the requests is needed. A Redis counter is bounded
by the number of windows it has been through, which `Counted` ties to the time: each has
lasted for the window's length. Both bounds would say little if a device had several buckets.
`Referred` says who refers to a bucket and that it is there: the table, and the requests that
have found it. What a request finds is therefore what the table has for its key, or what a
reload has taken out of it since.

**Circuit breaker**: types and `BreakersSound`. It
says, breaker by breaker, what a breaker guarantees on its own (`SoundBreaker`) and
how its clock relates to the device's history (`InTime`): while a circuit is open
its clock runs no faster than the time since the last failure, and once it is half
open that time is at least the cooldown. The second part is what makes `FailFast`
go through. A half-open breaker does not look at the clock again, so that the
cooldown has passed must be remembered by the invariant. Lemmas show that each
operation on a breaker (`Refreshed`, `AfterSuccess`, `AfterFailure`, `Aged`) keeps
both; the steps of the theorem then only say which breaker an action replaces.
`HealthyHasBaseCooldown` is proved only: no run repeats it.

**Connection pool.** That a driver in use is kept is not inductive, because the pool
could hand the driver or its lock to somebody else. `InPlace` says what each step of
`acquire` has in hand. `OwnDrivers` and `OwnLocks` say that a driver and a lock object serve
one host for as long as anybody knows them: a thread that holds the lock of one host can
then not be disturbed by another thread that holds its own. `LocksInForce` is the key: unless
a host is dropped, a thread's lock is the one in the table, so that two threads of one host
share it. `CountsHaveUsers` compares the count of a host with the number of its users, which
every way out of `acquire` lowers by one on both sides; after a drop the count may only be
the smaller of the two. `PoolSound` is about the dict: `order` lists each pooled host once,
which makes an eviction drop exactly the entry it names. The proof needs this invariant with
room for one connection as well as for more; TLC has checked both.

**Idempotent calls.** Two owners of a key do not both succeed because a call that
becomes the owner finds neither a result nor a registration (`OwnersAreRegistered`,
`OwnersExecuteFirst`), and because `complete` stores before it releases: between the two
steps the key is guarded twice. What a call had stored may have been evicted or replaced by
a straggler in the meantime, so `FreshAreStored` ties the history variable to the store, and
`StoreIsDict`, a theorem of its own, says that the store has one entry for a key and no more
than `Capacity`. `DrainInOrder` says that once the counter was zero under the flag it stays
so; the proof counts calls with the library's theorems about cardinalities.

**Change pipeline.** `LocksSound` accounts for every generation of a host lock from both
sides: what a thread holds is held by it, and what is held is somebody's grip or the outer
lock of a call in the middle of its post-processing. Together they make the lock's holder
unique although `remove_node` replaces lock objects. `SlotsSound` counts slots and busy
calls. No hypothesis is made about who rolls back what. `Gated` says what a request that
is past the gate, or whose commands the device was given, owes it to: an approval, or a
rollback that ended it before its call came to the gate. It also says that the reverse of
what nobody approved is given only if a user asked for that rollback.
`Undone` says where a request that was rolled back may be without being undone: with its
call between the device and the verdict, which the call has yet to write over the
rollback's.

**Leader election.** Time is what this is about. `Backed(i, t)` says that the lease behind
a belief was full at most `t` ticks ago and that nobody has deleted it since, whether the
key is still there or has run out. `LeaseIsBacked` says it of a thread that is about to
stamp a belief, with the time its command has taken so far for `t`, and of the stamped
belief, with its age and one command more: the stamp comes with the answer. `LossIsTimed`
bounds what a belief without such backing can lack: two commands at its stamp, GET and
EXPIRE. `Rhythm` says that the age of a healthy leader's belief is no more than the part
of the interval slept so far and the commands since. `BeliefEndsInTime` holds for every
`Ttl` and `MaxDelay`. `HealthyLeadersStay` needs that the lease outlasts the sleep and
three commands: the EXPIRE whose late answer stamps the belief, and the GET and EXPIRE
that renew it. This is as weak as it can be: with `(Ttl, MaxDelay)` = (4,1) or (6,2),
where the two are equal or the lease shorter, TLC finds a healthy leader without its
lease. For commands of up to 5 seconds (`socket_timeout`, `leader.py:74`) it asks for a
lease of at least 23 seconds. The default of 30 has it; the settings admit leases from 5
seconds (`config.py:653-656`), and of those below 23 the theorem says nothing unless Redis
is quicker than its time-out. What the client library does on its own, such as trying
again or making a connection, counts as part of a command. TLC has checked the invariant
for `(Ttl, MaxDelay)` = (6,1), and the bounds of `BeliefOutlivesLeaseBriefly` are reached.

**Automatic rollback.** That a judged answer is new depends on where all other answers are.
`AnswersAreFresh` says that from the moment the device has confirmed a change until its call
judges it, no answer from before the change is in the cache or on its way there: the push
holds the host lock and drops the entry before it lets go, and readers hold the lock from the
question to the cache. `OwnCheckpoint` says that the checkpoint a call restores lacks the
call's own change, unless another call saved under the same name, and `RestoresAreTrue`
carries that over the restore.

**Command cache.** The invariant has two halves that do not meet. `CacheIsSound` is
about the cache alone, whoever calls it; bytes of different entries are different, so that
dropping entries takes their bytes from the total and a put adds its own. That the counter
never claims more than the total (`MemoryIsNotOverstated`) survives the put that uncounts an
entry twice, because the counter then claims too little. The other half is what the refinement rests
on. `LocksHeld` says that a call that is past the lock of its host holds it. `AnswersInHand`
says of a show that is about to store an answer that the answer is the present one or its
host adrift: a push needs the lock, and whatever changes a device without it sets the host
adrift, from which an invalidation does not release it as long as that show holds the lock
(`Overtaken`). Each step then maps to one of the store: a put to `Store`, whatever drops
entries to `Invalidate`, whatever changes a device to `Change`, and the rest to no step.
`StoreIsCoherent` is about the store and uses nothing of the cache; `CacheIsCoherent` puts
the two together. No run repeats `Coherent`, for it follows from the refinement.

**Operations on many devices.** `Over` are the coroutines that have an outcome, and
`completed` counts them. `Endings` says that such a coroutine was resumed by the end of its
operation or ran out of time. `Records` goes both ways: a success on record is the answer of
an operation that somebody waited for to the end, and every coroutine in `Over` has its
device on record. The second direction is what `HealthyIsTrue` needs for a list that names a
device twice, where a later answer replaces an earlier one and a device can have an answer
and an error.

**Drivers.** `PauseNoticed` says of a command that came after a pause, and during which
what the driver dials has answered so far: when it comes to use a transport, that
transport carries it. This is where the probe matters, for only a probe can tell an open
transport from a broken one. `Connection` says that a driver about to connect has no
connection. `FallbackKeepsConnection` has an invariant of its own, which holds as long as
the credentials are accepted.

**Redis circuit breaker**: `TypeOK /\ CopiesSound /\ CopiesUpToDate`. That the
hash is consistent is not inductive, since any copy may become the hash, the outdated
ones too. `CopiesSound` therefore says of every copy in a call's hand what is wanted of
the hash; whichever is set last, the hash is sound. `CopiesUpToDate` says that a copy
that is not tainted is what its method makes of the hash as it is at this moment, which
holds because whoever changes the hash taints all others. When such a copy is set, what
is left is to compare the methods with those of `CircuitBreaker` (`MethodsAgree`). They
differ in one case only, and that is the exception which the property makes (`IsLate`).

### Assumptions

Those of the modules, which TLC evaluates in every run. Thresholds, cooldowns, leases,
delays, capacities and slots are positive natural numbers, and the caps of the two breakers
are no smaller than any setting and than `_MAX_COOLDOWN`. `config.py:427` and
`config.py:432` do not enforce that the settings are positive; with a threshold of zero a
breaker would start healthy with its threshold already reached. The calls of
`IdempotentCalls` and `ChangePipeline` and the threads of `ConnectionPool` are finite sets,
for only these can be counted; it does not matter how many they are. `None` is none of the
values beside which it stands. The hypothesis of `HealthyLeadersStay` is in its statement,
and the run's instance meets it.

`RateLimits` assumes that the last key a request passes is that of its device, as
`acquire_tiered` does it, and that `MaxRate` is the largest of the rates; `FanOut`, that the
lists of targets are not empty.

### What is only model-checked

Liveness: `RecoveredDeviceIsHealthy`, `LocksAreReturned`, `DrainNeedsNoTimeout` and the two
`EveryCallReturns`. Fairness and `ENABLED` are out of the prover's reach. Every other property
of the runs that pass is the subject of a theorem, one of which carries a hypothesis, about
the length of the lease.

No module holds a `RECURSIVE` operator.

## 5. What is not modelled

Retries with backoff inside one command, output limits and sanitising in
`helpers.py`; encryption of cache entries; risk assessment, which
is a free choice in `ChangePipeline`; the parsing of maintenance windows, where the
gate is a free choice too; pool statistics; the wording of every error. Devices are
an environment: they answer, reject, or fail, possibly after having done what
they were asked. Process crashes are part of `LeaderElection`, where the lease survives
them; the state of the other components lives and dies with the process.

In `LeaderElection` clocks run at the same rate and Redis does not lose the key. In
`RateLimits` the mapping of scopes to tiers is part of the key, and bursts do not
change. In `FanOut` the call itself is not cancelled from outside. In `AutoRollback`
arguments are valid; each call reads one cache entry, and staged sessions are left to
`CommandCache`. In `RedisBreaker` the instances share settings and the time. `DriverSession`
is about NX-OS and SONiC only, and about commands that have a path in the API. In
`CommandCache` the push of `net_push_config` is part of `Stage`, which is what the cache
sees of it: the device changes, and nothing else.

Parts that keep state and have no module:

* **Configuration pushes** (`tools/common/config.py`, `drivers/juniper_junos.py`) and
  **configuration sessions** (`tools/sessions.py`): what matters of them, the candidate,
  its lock, the sessions and their timers, is kept by the devices. The server only
  sends the commands one after another. They come first in the plan.
* **Snapshots** (`tools/workflows.py`): a table of 50, with files behind it.
* **HTTP sessions** (`http_session.py`): a history of calls that only two tools read.
* **User sessions** (`session_mgr.py`) and the **gNMI pool** (`gnmi_connection.py`): no
  code of the server calls the first, and no tool the second.

Not modelled at all: the parsing of maintenance windows (stateless, and settled by
`tests/test_change_management.py:261`), authentication, audit, alerts, inventory, parsing
of output, compliance rules, drift, templates and integrations, which keep no state
between calls that anything reads back. These, with the drivers' translation of
vendors' output and recorded answers of mock devices (`mock_data/`), are most of the
repository's lines, and the reason why the modules cover a small share of them:
text in, text out, better served by its tests. Modules about them would repeat the code
line by line and have nothing to say about it. Every component is in `PROJECT.json`
with its reason.

## 6. Where the code and its documentation disagree

| Run | Property | What the run shows |
|---|---|---|
| `pipeline_returns` | `EveryCallReturns` | With change management on, the post-snapshot asks for the host lock inside the `with` that holds it (`helpers.py:1518`, `change_management.py:289`). The lock is a `threading.Lock`, so the call never returns and keeps its bulkhead slot. |

Others were met while modelling or reading and have no run of their own. Most of those
in modelled parts mark the exceptions that the properties make:

* **Circuit breaker.** With a configured cooldown above 300 s, a failed probe lowers
  the cooldown to 300 s (`circuit_breaker.py:105`).
* **Connection pool.** The mark that a host was verified may be set for a driver that the
  pool no longer has, after the host was dropped (`connection.py:303`). `get_driver` hands
  out the pooled driver with neither lock nor count (`connection.py:439`), against the
  comment on host locks at lines 152-153.
* **Idempotency.** A waiter woken by a failed owner executes without registering its
  key, so the next call with the key executes as well (`idempotency.py:78`).
  `NoOrphanedKey` excludes calls that ended in an exception.
* **Change management.** Running a tool again after approval makes a new pending request;
  the approved one is never executed (`helpers.py:1361`, `tools/common/changes.py:82`). A
  request in any status can be rolled back (`tools/common/changes.py:145`), also one whose
  commands the device was never given; and one that is rolled back while its call is on
  the way to the gate passes it without an approval, because the gate stops only what is
  pending (`helpers.py:1377`). `OnlyApprovedRuns` says that this is the only way. With
  Redis limiters and a maximal wait a change stays in "executing" for ever
  (`helpers.py:1425`); `ExecutingHasWorker` excepts it.
* **Cache.** Replacing an entry that is then evicted subtracts its size twice, after
  which the cache may exceed its limit (`cache.py:277`). Rollbacks, failed changes and
  staged commands do not invalidate; these hosts stay adrift in `CoherentStore`.
* **Leader election.** `server.py:322` gives the elector no Redis URL, nothing asks
  `is_leader()`, and a replica that did not get the lease at its start never tries
  again. A replica that finds its own name in the key believes in a full lease
  (`leader.py:96`). `BeliefOutlivesLeaseBriefly` says how long such beliefs last. A lease
  shorter than 23 s, which the settings allow, may be lost by a leader whose renewals all
  succeed, if Redis takes as long as its time-out lets it (section 4).
* **Rate limits.** The Redis limiter has neither `check_show_with_backoff` nor
  `check_config_with_backoff`, which `helpers.py:962` and `helpers.py:1425` call whenever
  waiting is configured; and it renews its window with
  every request, refused ones included, so that steady traffic can be refused for ever.
* **Executor.** A device named twice can be both a success and an error of one call.
  The health check says "healthy" of a device whose BGP and MLAG commands failed, as
  long as another command succeeded (`tools/workflows.py:885-888`).
* **Automatic rollback.** A change that waits for an approval is not an "error" to
  `eos_auto_rollback_on_failure` (`tools/config_mgmt.py:487`), which judges the unchanged
  device and may report "Configuration applied and health check passed". "Rolled back" is
  reported without a look at the restore's answer (`tools/config_mgmt.py:489`, `502`,
  `518`). Calls of one second share a checkpoint name, so that the later save replaces
  the earlier one; and a change that was undone can return when another call restores a
  checkpoint saved in between.
* **Redis circuit breaker.** "State machine matches the local implementation" (line 6)
  does not hold of a failure that arrives after the cooldown of an open circuit: it
  doubles the cooldown in Redis, and not locally
  (`distributed/redis_circuit_breaker.py:130`). Of failures recorded at the same time one
  is lost (line 129). When a get fails, the call works on a fresh breaker, which it then
  writes over the one that counts (line 63).
* **Drivers.** With the inventory's default transport, `https`, an NX-OS driver does not
  try the API and opens SSH at port 443, and its fallback from the API dials the API's
  port (`connection.py:287-290`, `drivers/cisco_nxos.py:239`, `293`). A driver without a
  fallback whose reconnection failed refuses every later command, and the pool keeps it
  (`drivers/sonic.py:209`), although the keepalive is there to "detect and recycle stale
  connections" (`docs/DEPLOYMENT.md:1065`). `PauseHeals` excepts this driver by name (it
  raises, and is not connected), and `FallbackStaysConnected` is therefore about drivers
  with a fallback. Every command renews the time of the last one, failed ones too, so that
  under steady traffic a broken session is never probed (`drivers/cisco_nxos.py:549`).

And in the parts that have no module:

* **Pushes.** "Configuration applied successfully" is also said of a transaction that
  failed, whose result nobody looks at (`tools/common/config.py:320`). The version is
  compared before the candidate is locked, so that two pushes of one version can both
  go through (`tools/common/config.py:301`).
* **Configuration sessions.** A confirmation after the timer commits a new, empty
  session with success (`tools/sessions.py:327`). The differences that a commit returns
  may come from the cache, from before the last command was staged
  (`tools/sessions.py:231`). Creating a session under a name in use discards what
  another user has staged (`tools/sessions.py:81`).
* **Snapshots.** Reloading from disk makes no room, so the store can exceed its 50
  (`tools/workflows.py:1208`); eviction is by age, not "LRU".
* **Session managers.** `server.py:308` passes `max_idle=` to a constructor that takes
  `max_idle_seconds`: with sessions switched on, the server does not start. Creating a
  session drops expired ones from the user's index and leaves them in the table
  (`session_mgr.py:83`). A call over HTTP is recorded in whichever session of all clients
  was active last (`server.py:528`).
* **gNMI pool.** With every connection in use the loop for room never ends, and keeps the
  lock that a release needs (`gnmi_connection.py:440`).

`DriverInUseIsKept` excludes hosts whose connection somebody dropped while it was in
use: `remove_node` and `close_all` do not ask.

## 7. Plan

Done, in this order: `CircuitBreaker` with proofs, `ConnectionPool`,
`IdempotentCalls`, `ChangePipeline`, `CommandCache`, `LeaderElection`, `RateLimits`,
`CoherentStore` and its refinement, `FanOut`, `AutoRollback`,
`RedisBreaker` with proofs, `DriverSession`.

Proved: every invariant and every action property that a run checks, in all eleven modules
with a run, and that the cache implements the store.

Modules still worth writing, in this order: pushes over one NETCONF session (a push
takes effect as a whole or not at all, although others share its candidate);
configuration sessions with timers (an accepted change is in force whole or not at
all); snapshots (what was captured is found again after evictions and crashes); the
session stores and the gNMI pool, once something uses them.
