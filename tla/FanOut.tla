-------------------------------- MODULE FanOut --------------------------------
(***************************************************************************)
(* Operations on many devices at once (executor.py) and the verdict the    *)
(* fabric health check draws from them (tools/workflows.py).               *)
(*                                                                         *)
(* One coroutine per target waits for a slot, hands the operation to the   *)
(* event loop's thread pool and waits for it no longer than a time-out.    *)
(* A time-out cancels an operation the pool has not started; one that runs *)
(* goes on in its thread while the slot is free again.  The pool is shared *)
(* with the other tools.  Semaphore and pool serve in order of arrival,    *)
(* which is the order of the targets.  Devices may never answer.           *)
(*                                                                         *)
(* Targets are a list that may name a device twice.  An answer is the      *)
(* severity of what it shows; "thin" is one in which some commands failed  *)
(* and the others show no trouble.                                         *)
(***************************************************************************)
EXTENDS Integers, Sequences, FiniteSets, SequencesExt

CONSTANTS
  TargetLists,    \* the lists of devices that may be asked for
  MaxConcurrent,  \* max_concurrent
  Workers,        \* threads of the event loop's pool
  None

Answers == {"healthy", "thin", "warning", "critical"}

ASSUME FanOutAssumption ==
  /\ \A l \in TargetLists : l \in Seq(Range(l)) /\ l # <<>> /\ None \notin Range(l)
  /\ None \notin Answers
  /\ MaxConcurrent \in Nat \ {0} /\ Workers \in Nat \ {0}

Devices == UNION {Range(l) : l \in TargetLists}
Ends == Answers \cup {"error", "exception"}  \* how an operation ends
Longest == 1 .. (CHOOSE n \in {Len(l) : l \in TargetLists} : \A l \in TargetLists : Len(l) <= n)

VARIABLES
  targets,    \* the list of this call
  pc,         \* each target's coroutine
  thread,     \* each target's operation in the pool
  end,        \* how it ended
  others,     \* threads the other tools occupy
  successes,  \* device -> its answer, or None
  errors,     \* devices with an error
  completed,  \* operations reported as progress
  verdict,    \* what the call returned: [status, health, severity], or None
  timedOut    \* history: targets whose wait ran out

vars == <<targets, pc, thread, end, others, successes, errors, completed, verdict, timedOut>>

Tasks == DOMAIN targets

TypeOK ==
  /\ targets \in TargetLists
  /\ pc \in [Tasks -> {"waiting", "awaiting", "reporting", "done"}]
  /\ thread \in [Tasks -> {"none", "queued", "running", "ended", "cancelled"}]
  /\ end \in [Tasks -> Ends \cup {None}]
  /\ others \in 0..Workers
  /\ successes \in [Devices -> Answers \cup {None}]
  /\ errors \subseteq Devices
  /\ completed \in 0..Len(targets)
  /\ verdict = None \/ verdict \in [status : {"success", "partial", "error"},
                                    health : {"success", "partial", "error"},
                                    severity : {"healthy", "warning", "critical"}]
  /\ timedOut \subseteq Tasks

Init ==
  /\ targets \in TargetLists
  /\ pc = [t \in Tasks |-> "waiting"]
  /\ thread = [t \in Tasks |-> "none"] /\ end = [t \in Tasks |-> None]
  /\ others = 0
  /\ successes = [d \in Devices |-> None] /\ errors = {}
  /\ completed = 0 /\ verdict = None /\ timedOut = {}

Goto(t, from, to) == pc[t] = from /\ pc' = [pc EXCEPT ![t] = to]
SetThread(t, from, to) == thread[t] = from /\ thread' = [thread EXCEPT ![t] = to]

Running == {t \in Tasks : thread[t] = "running"}
Inside == {t \in Tasks : pc[t] \in {"awaiting", "reporting"}}

-----------------------------------------------------------------------------
(* The coroutine of one target: _run_one *)

\* The semaphore has a slot; the operation is handed to the pool.
Enter(t) ==
  /\ Cardinality(Inside) < MaxConcurrent
  /\ \A u \in 1..(t - 1) : pc[u] # "waiting"
  /\ Goto(t, "waiting", "awaiting")
  /\ SetThread(t, "none", "queued")
  /\ UNCHANGED <<targets, end, others, successes, errors, completed, verdict, timedOut>>

AddSuccess(d, answer) == successes' = [successes EXCEPT ![d] = answer] /\ UNCHANGED errors
AddError(d) == errors' = errors \cup {d} /\ UNCHANGED successes

\* Seeded fault: an operation that raises takes its coroutine with it unrecorded.
Resume_LosesExceptions(t) ==
  /\ thread[t] = "ended"
  /\ Goto(t, "awaiting", "reporting")
  /\ \/ end[t] \in Answers /\ AddSuccess(targets[t], end[t])
     \/ end[t] = "error" /\ AddError(targets[t])
     \/ end[t] = "exception" /\ UNCHANGED <<successes, errors>>
  /\ completed' = completed + 1
  /\ UNCHANGED <<targets, thread, end, others, verdict, timedOut>>

\* The operation's result reaches the coroutine in time.
Resume(t) ==
  /\ thread[t] = "ended"
  /\ Goto(t, "awaiting", "reporting")
  /\ \/ end[t] \in Answers /\ AddSuccess(targets[t], end[t])
     \/ end[t] \notin Answers /\ AddError(targets[t])
  /\ completed' = completed + 1
  /\ UNCHANGED <<targets, thread, end, others, verdict, timedOut>>

\* Seeded fault: a time-out waits for the operation it cannot cancel.
TimeOut_WaitsForThread(t) ==
  /\ thread[t] # "running"
  /\ Goto(t, "awaiting", "reporting")
  /\ thread' = [thread EXCEPT ![t] = IF @ = "queued" THEN "cancelled" ELSE @]
  /\ AddError(targets[t])
  /\ completed' = completed + 1
  /\ timedOut' = timedOut \cup {t}
  /\ UNCHANGED <<targets, end, others, verdict>>

\* The wait runs out; the result of an operation that has just ended is lost too.
TimeOut(t) ==
  /\ Goto(t, "awaiting", "reporting")
  /\ thread' = [thread EXCEPT ![t] = IF @ = "queued" THEN "cancelled" ELSE @]
  /\ AddError(targets[t])
  /\ completed' = completed + 1
  /\ timedOut' = timedOut \cup {t}
  /\ UNCHANGED <<targets, end, others, verdict>>

\* Seeded fault: a target is counted when it ends and again when it is reported.
Report_CountsAgain(t) ==
  /\ Goto(t, "reporting", "done")
  /\ completed' = completed + 1
  /\ UNCHANGED <<targets, thread, end, others, successes, errors, verdict, timedOut>>

\* Progress is reported while the slot is still taken.
Report(t) ==
  /\ Goto(t, "reporting", "done")
  /\ UNCHANGED <<targets, thread, end, others, successes, errors, completed, verdict, timedOut>>

-----------------------------------------------------------------------------
(* The thread pool *)

Start(t) ==
  /\ Cardinality(Running) + others < Workers
  /\ \A u \in 1..(t - 1) : thread[u] # "queued"
  /\ SetThread(t, "queued", "running")
  /\ UNCHANGED <<targets, pc, end, others, successes, errors, completed, verdict, timedOut>>

End(t, e) ==
  /\ SetThread(t, "running", "ended")
  /\ end' = [end EXCEPT ![t] = e]
  /\ UNCHANGED <<targets, pc, others, successes, errors, completed, verdict, timedOut>>

OtherTools(n) ==
  /\ n + Cardinality(Running) <= Workers /\ others' = n
  /\ UNCHANGED <<targets, pc, thread, end, successes, errors, completed, verdict, timedOut>>

-----------------------------------------------------------------------------
(* The result: MultiDeviceResult.to_response, eos_validate_fabric_health *)

Succeeded == {d \in Devices : successes[d] # None}

Status ==
  IF errors = {} THEN "success" ELSE IF Succeeded = {} THEN "error" ELSE "partial"

HealthStatus ==
  IF Cardinality(errors) = Len(targets) THEN "error"
  ELSE IF errors # {} THEN "partial" ELSE "success"

\* Seeded fault: devices that did not answer do not count.
Severity_SkipsErrors ==
  LET found == Range(successes) IN
  IF "critical" \in found THEN "critical"
  ELSE IF "warning" \in found THEN "warning" ELSE "healthy"

\* A device that has an answer is judged by it, any other is unreachable.
Severity ==
  LET found == {IF d \in Succeeded THEN successes[d] ELSE "critical" : d \in Range(targets)} IN
  IF "critical" \in found THEN "critical"
  ELSE IF "warning" \in found THEN "warning" ELSE "healthy"

Return ==
  /\ verdict = None
  /\ \A t \in Tasks : pc[t] = "done"
  /\ verdict' = [status |-> Status, health |-> HealthStatus, severity |-> Severity]
  /\ UNCHANGED <<targets, pc, thread, end, others, successes, errors, completed, timedOut>>

Next ==
  \/ \E t \in Tasks :
       \/ Enter(t) \/ Resume(t) \/ TimeOut(t) \/ Report(t) \/ Start(t)
       \/ \E e \in Ends : End(t, e)
  \/ \E n \in 0..Workers : OtherTools(n)
  \/ Return

\* The event loop runs what is ready and its timers fire; threads need never end.
Fairness ==
  /\ \A t \in Longest :
       /\ WF_vars(t \in Tasks /\ Enter(t))
       /\ WF_vars(t \in Tasks /\ (Resume(t) \/ TimeOut(t)))
       /\ WF_vars(t \in Tasks /\ Report(t))
  /\ WF_vars(Return)

Spec == Init /\ [][Next]_vars /\ Fairness

-----------------------------------------------------------------------------
(* Properties *)

\* A call that returns has an outcome for every device it was asked for and for no
\* other, and what it calls a success is an answer some operation on that device gave
\* before its time was up, whatever the threads it left behind came to since.
EveryoneIsAccountedFor ==
  verdict # None =>
    /\ Succeeded \cup errors = Range(targets)
    /\ completed = Len(targets)
    /\ \A d \in Succeeded : \E t \in Tasks \ timedOut :
         targets[t] = d /\ thread[t] = "ended" /\ end[t] = successes[d]

\* "Healthy" is said of a fabric only when every device answered in time, and the
\* status of a call says "success" only when no operation failed or ran out of time.
HealthyMeansAllAnswered ==
  verdict # None =>
    /\ verdict.severity = "healthy" =>
         \A d \in Range(targets) : \E t \in Tasks \ timedOut :
           targets[t] = d /\ end[t] \in {"healthy", "thin"}
    /\ verdict.status = "success" =>
         timedOut = {} /\ \A t \in Tasks : end[t] \in Answers

\* Every call returns, though devices hang and other tools keep the pool's threads.
EveryCallReturns == <>(verdict # None)
=============================================================================
