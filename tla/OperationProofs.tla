--------------------------- MODULE OperationProofs ---------------------------
(***************************************************************************)
(* Proofs about operations on devices: on many at once, for any targets,   *)
(* any concurrency and any pool, and in the second part the driver that    *)
(* carries a command to one of them.  Each is about a specification of its *)
(* own.                                                                    *)
(*                                                                         *)
(* Over are the coroutines that have an outcome.  Records ties each        *)
(* recorded outcome to the end of an operation that was waited for, and    *)
(* each coroutine in Over to a recorded outcome; the verdict is drawn from *)
(* these records when every coroutine is done.                             *)
(***************************************************************************)
EXTENDS FanOut, DriverSession, FiniteSetTheorems, TLAPS

Over == {t \in Tasks : pc[t] \in {"reporting", "done"}}

Shapes ==
  /\ targets \in TargetLists
  /\ pc \in [Tasks -> {"waiting", "awaiting", "reporting", "done"}]
  /\ thread \in [Tasks -> {"none", "queued", "running", "ended", "cancelled"}]
  /\ end \in [Tasks -> Ends \cup {None}]
  /\ others \in 0..Workers
  /\ timedOut \subseteq Over

\* A coroutine has no result before its operation has ended, and ends by one or by
\* the time-out.
Endings ==
  /\ \A t \in Tasks : thread[t] = "ended" => end[t] \in Ends
  /\ \A t \in Over \ timedOut : thread[t] = "ended"

\* What is recorded of the devices.
Records ==
  /\ successes \in [Devices -> Answers \cup {None}]
  /\ errors \subseteq Range(targets) /\ Succeeded \subseteq Range(targets)
  /\ \A d \in Succeeded : \E t \in Over \ timedOut :
       targets[t] = d /\ thread[t] = "ended" /\ end[t] = successes[d]
  /\ \A t \in timedOut : targets[t] \in errors
  /\ \A t \in Over \ timedOut :
       targets[t] \in IF end[t] \in Answers THEN Succeeded ELSE errors

Verdicts ==
  verdict # None =>
    /\ \A t \in Tasks : pc[t] = "done"
    /\ verdict = [status |-> Status, health |-> HealthStatus, severity |-> Severity]

IInv ==
  /\ Shapes /\ Endings /\ Records /\ Verdicts
  /\ completed = Cardinality(Over)

-----------------------------------------------------------------------------
(* The targets *)

\* A target is an entry of the list, and a device is one because it is in the list.
LEMMA Lists ==
  ASSUME Shapes
  PROVE  /\ Len(targets) \in Nat /\ Tasks = 1..Len(targets)
         /\ \A t \in Tasks : targets[t] \in Range(targets)
         /\ Range(targets) \subseteq Devices
         /\ \A d \in Range(targets) : \E t \in Tasks : targets[t] = d
<1>1. targets \in TargetLists /\ targets \in Seq(Range(targets))
  BY FanOutAssumption DEF Shapes
<1>2. Len(targets) \in Nat /\ Tasks = 1..Len(targets)
  BY <1>1 DEF Tasks
<1> QED
  BY <1>1, <1>2 DEF Tasks, Range, Devices

\* There are as many coroutines as entries, and no more of them are over.
LEMMA Counting ==
  ASSUME Shapes
  PROVE  /\ IsFiniteSet(Tasks) /\ Cardinality(Tasks) = Len(targets)
         /\ IsFiniteSet(Over) /\ Cardinality(Over) \in 0..Len(targets)
<1>1. Len(targets) \in Nat /\ Tasks = 1..Len(targets)
  BY Lists
<1>2. IsFiniteSet(Tasks) /\ Cardinality(Tasks) = Len(targets)
  <2>1. \A n \in Nat : IsFiniteSet(1..n) /\ Cardinality(1..n) = IF 1 > n THEN 0 ELSE n - 1 + 1
    BY FS_Interval
  <2> QED BY <1>1, <2>1
<1>3. IsFiniteSet(Over) /\ Cardinality(Over) <= Cardinality(Tasks)
  BY <1>2, FS_Subset DEF Over
<1>4. Cardinality(Over) \in Nat
  BY <1>3, FS_CardinalityType
<1> QED
  BY <1>1, <1>2, <1>3, <1>4

\* What the verdict is drawn from does not change by itself.
LEMMA SameVerdict ==
  ASSUME UNCHANGED <<targets, successes, errors>>
  PROVE  /\ Tasks' = Tasks /\ Succeeded' = Succeeded /\ Range(targets)' = Range(targets)
         /\ Status' = Status /\ HealthStatus' = HealthStatus /\ Severity' = Severity
BY DEF Tasks, Succeeded, Status, HealthStatus, Severity, Range

-----------------------------------------------------------------------------
(* The steps *)

\* A coroutine that goes on without an end, and the pool.
LEMMA PoolKeepsIInv ==
  ASSUME IInv,
         pc' \in [Tasks -> {"waiting", "awaiting", "reporting", "done"}],
         thread' \in [Tasks -> {"none", "queued", "running", "ended", "cancelled"}],
         end' \in [Tasks -> Ends \cup {None}], others' \in 0..Workers,
         \A t \in Tasks :
           /\ pc'[t] \in {"reporting", "done"} <=> pc[t] \in {"reporting", "done"}
           /\ pc[t] = "done" => pc'[t] = "done"
           /\ thread[t] = "ended" => thread'[t] = "ended" /\ end'[t] = end[t]
           /\ thread'[t] = "ended" => end'[t] \in Ends,
         UNCHANGED <<targets, successes, errors, completed, verdict, timedOut>>
  PROVE  IInv'
<1>1. /\ Tasks' = Tasks /\ Succeeded' = Succeeded /\ Range(targets)' = Range(targets)
      /\ Status' = Status /\ HealthStatus' = HealthStatus /\ Severity' = Severity
  BY SameVerdict
<1>2. Over' = Over
  BY <1>1 DEF Over
<1>3. Shapes'
  BY <1>1, <1>2 DEF IInv, Shapes
<1>4. Endings'
  BY <1>1, <1>2 DEF IInv, Endings, Over
<1>5. Records'
  <2>1. \A t \in Over \ timedOut : t \in Tasks /\ thread[t] = "ended" /\ end'[t] = end[t]
    BY DEF IInv, Endings, Over
  <2>2. ASSUME NEW d \in Succeeded
        PROVE  \E t \in Over \ timedOut :
                 targets[t] = d /\ thread'[t] = "ended" /\ end'[t] = successes[d]
    <3>1. PICK t \in Over \ timedOut :
            targets[t] = d /\ thread[t] = "ended" /\ end[t] = successes[d]
      BY DEF IInv, Records
    <3> QED BY <3>1 DEF Over
  <2>3. /\ successes' \in [Devices -> Answers \cup {None}]
        /\ errors' \subseteq Range(targets)' /\ Succeeded' \subseteq Range(targets)'
    BY <1>1 DEF IInv, Records
  <2>4. /\ \A t \in timedOut : targets[t] \in errors
        /\ \A t \in Over \ timedOut :
             targets[t] \in IF end'[t] \in Answers THEN Succeeded ELSE errors
    BY <2>1 DEF IInv, Records
  <2> QED BY <1>1, <1>2, <2>2, <2>3, <2>4 DEF Records
<1>6. Verdicts'
  BY <1>1 DEF IInv, Verdicts
<1>7. (completed = Cardinality(Over))'
  BY <1>2 DEF IInv
<1> QED BY <1>3, <1>4, <1>5, <1>6, <1>7 DEF IInv

\* A coroutine whose operation has ended or whose time is up.
LEMMA EndKeepsIInv ==
  ASSUME IInv, NEW t \in Tasks, Goto(t, "awaiting", "reporting"),
         thread' \in [Tasks -> {"none", "queued", "running", "ended", "cancelled"}],
         \A u \in Tasks : thread[u] = "ended" <=> thread'[u] = "ended",
         \/ /\ thread[t] = "ended" /\ timedOut' = timedOut
            /\ \/ end[t] \in Answers /\ AddSuccess(targets[t], end[t])
               \/ end[t] \notin Answers /\ AddError(targets[t])
         \/ AddError(targets[t]) /\ timedOut' = timedOut \cup {t},
         completed' = completed + 1,
         UNCHANGED <<targets, end, others, verdict>>
  PROVE  IInv'
<1>1. /\ pc[t] = "awaiting" /\ pc'[t] = "reporting" /\ \A u \in Tasks \ {t} : pc'[u] = pc[u]
      /\ pc' \in [Tasks -> {"waiting", "awaiting", "reporting", "done"}]
      /\ Tasks' = Tasks
  BY DEF Goto, IInv, Shapes, Tasks
<1>2. Over' = Over \cup {t} /\ t \notin Over
  BY <1>1 DEF Over
<1>3. t \notin timedOut /\ timedOut' \subseteq timedOut \cup {t} /\ timedOut \subseteq timedOut'
  BY <1>2 DEF IInv, Shapes
<1>4. Shapes'
  BY <1>1, <1>2, <1>3 DEF IInv, Shapes
<1>5. Endings'
  <2>1. \A u \in Tasks : thread'[u] = "ended" => end'[u] \in Ends
    BY DEF IInv, Endings
  <2>2. ASSUME NEW u \in Over' \ timedOut'
        PROVE  thread'[u] = "ended"
    <3>1. CASE u = t
      BY <1>3, <3>1
    <3>2. CASE u # t
      <4>1. u \in Over \ timedOut /\ u \in Tasks
        BY <1>2, <1>3, <3>2 DEF Over
      <4> QED BY <4>1 DEF IInv, Endings
    <3> QED BY <3>1, <3>2
  <2> QED BY <1>1, <2>1, <2>2 DEF Endings
<1>6. targets[t] \in Range(targets) /\ targets[t] \in Devices /\ Range(targets)' = Range(targets)
  BY Lists DEF IInv, Range
<1>7. Records'
  <2>1. /\ successes \in [Devices -> Answers \cup {None}]
        /\ errors \subseteq Range(targets) /\ Succeeded \subseteq Range(targets)
        /\ \A d \in Succeeded : \E u \in Over \ timedOut :
             targets[u] = d /\ thread[u] = "ended" /\ end[u] = successes[d]
        /\ \A u \in timedOut : targets[u] \in errors
        /\ \A u \in Over \ timedOut :
             targets[u] \in IF end[u] \in Answers THEN Succeeded ELSE errors
    BY DEF IInv, Records
  <2>2. \A u \in Over \ timedOut :
          u \in Over' \ timedOut' /\ (thread[u] = "ended" <=> thread'[u] = "ended")
    BY <1>2, <1>3 DEF Over
  <2>3. CASE /\ timedOut' = timedOut /\ thread[t] = "ended" /\ end[t] \in Answers
             /\ AddSuccess(targets[t], end[t])
    <3>1. /\ successes' \in [Devices -> Answers \cup {None}] /\ errors' = errors
          /\ successes'[targets[t]] = end[t]
          /\ \A d \in Devices \ {targets[t]} : successes'[d] = successes[d]
      BY <1>6, <2>1, <2>3 DEF AddSuccess
    <3>2. Succeeded' = Succeeded \cup {targets[t]}
      BY <1>6, <2>3, <3>1, FanOutAssumption DEF Succeeded
    <3>3. ASSUME NEW d \in Succeeded'
          PROVE  \E u \in Over' \ timedOut' :
                   targets[u] = d /\ thread'[u] = "ended" /\ end[u] = successes'[d]
      <4>1. CASE d = targets[t]
        BY <1>2, <1>3, <2>3, <3>1, <4>1
      <4>2. CASE d # targets[t]
        <5>1. d \in Succeeded /\ d \in Devices /\ successes'[d] = successes[d]
          BY <3>1, <3>2, <4>2 DEF Succeeded
        <5>2. PICK u \in Over \ timedOut :
                targets[u] = d /\ thread[u] = "ended" /\ end[u] = successes[d]
          BY <2>1, <5>1
        <5> QED BY <2>2, <5>1, <5>2
      <4> QED BY <4>1, <4>2
    <3>4. \A u \in Over' \ timedOut' :
            targets[u] \in IF end[u] \in Answers THEN Succeeded' ELSE errors'
      BY <1>2, <1>3, <2>1, <2>3, <3>1, <3>2
    <3> QED BY <1>6, <2>1, <2>3, <3>1, <3>2, <3>3, <3>4 DEF Records
  <2>4. CASE AddError(targets[t]) /\ (timedOut' = timedOut \cup {t} \/ end[t] \notin Answers)
    <3>1. errors' = errors \cup {targets[t]} /\ successes' = successes /\ Succeeded' = Succeeded
      BY <2>4 DEF AddError, Succeeded
    <3>2. ASSUME NEW d \in Succeeded'
          PROVE  \E u \in Over' \ timedOut' :
                   targets[u] = d /\ thread'[u] = "ended" /\ end[u] = successes'[d]
      <4>1. PICK u \in Over \ timedOut :
              targets[u] = d /\ thread[u] = "ended" /\ end[u] = successes[d]
        BY <2>1, <3>1
      <4> QED BY <2>2, <3>1, <4>1
    <3>3. \A u \in timedOut' : targets[u] \in errors'
      BY <1>3, <2>1, <3>1
    <3>4. \A u \in Over' \ timedOut' :
            targets[u] \in IF end[u] \in Answers THEN Succeeded' ELSE errors'
      BY <1>2, <1>3, <2>1, <2>4, <3>1
    <3> QED BY <1>6, <2>1, <3>1, <3>2, <3>3, <3>4 DEF Records
  <2> QED BY <2>3, <2>4
<1>8. Verdicts'
  BY <1>1 DEF IInv, Verdicts
<1>9. (completed = Cardinality(Over))'
  BY <1>2, Counting, FS_AddElement DEF IInv
<1> QED BY <1>4, <1>5, <1>7, <1>8, <1>9 DEF IInv

-----------------------------------------------------------------------------
(* The inductive invariant *)

\* Before the call nothing is over and nothing is recorded.
LEMMA InitIInv == Init => IInv
<1> SUFFICES ASSUME Init
             PROVE  IInv
  OBVIOUS
<1>1. Over = {} /\ Succeeded = {}
  BY DEF Init, Over, Succeeded
<1>2. Shapes
  BY <1>1, FanOutAssumption DEF Init, Shapes
<1>3. Endings /\ Records /\ Verdicts
  BY <1>1 DEF Init, Endings, Records, Verdicts
<1>4. completed = Cardinality(Over)
  BY <1>1, FS_EmptySet DEF Init
<1> QED BY <1>2, <1>3, <1>4 DEF IInv

\* Every step keeps the invariant; most of them give no coroutine an outcome.
LEMMA NextIInv == IInv /\ [Next]_vars => IInv'
<1> SUFFICES ASSUME IInv, [Next]_vars
             PROVE  IInv'
  OBVIOUS
<1>1. /\ pc \in [Tasks -> {"waiting", "awaiting", "reporting", "done"}]
      /\ thread \in [Tasks -> {"none", "queued", "running", "ended", "cancelled"}]
      /\ end \in [Tasks -> Ends \cup {None}] /\ others \in 0..Workers
      /\ \A t \in Tasks : thread[t] = "ended" => end[t] \in Ends
  BY DEF IInv, Shapes, Endings
<1>2. ASSUME NEW t \in Tasks, Enter(t)
      PROVE  IInv'
  BY <1>1, <1>2, PoolKeepsIInv DEF Enter, Goto, SetThread
<1>3. ASSUME NEW t \in Tasks, Resume(t)
      PROVE  IInv'
  BY <1>1, <1>3, EndKeepsIInv DEF Resume
<1>4. ASSUME NEW t \in Tasks, TimeOut(t)
      PROVE  IInv'
  <2>1. /\ thread' \in [Tasks -> {"none", "queued", "running", "ended", "cancelled"}]
        /\ \A u \in Tasks : thread[u] = "ended" <=> thread'[u] = "ended"
    BY <1>1, <1>4 DEF TimeOut
  <2> QED BY <1>4, <2>1, EndKeepsIInv DEF TimeOut
<1>5. ASSUME NEW t \in Tasks, Report(t)
      PROVE  IInv'
  BY <1>1, <1>5, PoolKeepsIInv DEF Report, Goto
<1>6. ASSUME NEW t \in Tasks, Start(t)
      PROVE  IInv'
  BY <1>1, <1>6, PoolKeepsIInv DEF Start, SetThread
<1>7. ASSUME NEW t \in Tasks, NEW e \in Ends, End(t, e)
      PROVE  IInv'
  BY <1>1, <1>7, PoolKeepsIInv DEF End, SetThread
<1>8. ASSUME NEW n \in 0..Workers, OtherTools(n)
      PROVE  IInv'
  BY <1>1, <1>8, PoolKeepsIInv DEF OtherTools
<1>9. CASE Return
  <2>1. /\ Tasks' = Tasks /\ Succeeded' = Succeeded /\ Range(targets)' = Range(targets)
        /\ Status' = Status /\ HealthStatus' = HealthStatus /\ Severity' = Severity
    BY <1>9, SameVerdict DEF Return
  <2>2. Over' = Over
    BY <1>9, <2>1 DEF Return, Over
  <2>3. Shapes' /\ Endings' /\ Records' /\ (completed = Cardinality(Over))'
    BY <1>9, <2>1, <2>2 DEF Return, IInv, Shapes, Endings, Records
  <2>4. Verdicts'
    BY <1>9, <2>1 DEF Return, Verdicts
  <2> QED BY <2>3, <2>4 DEF IInv
<1>10. CASE UNCHANGED vars
  BY <1>1, <1>10, PoolKeepsIInv DEF vars
<1> QED
  BY <1>2, <1>3, <1>4, <1>5, <1>6, <1>7, <1>8, <1>9, <1>10 DEF Next

\* It holds for ever.
LEMMA Invariance == Spec => []IInv
BY InitIInv, NextIInv, PTL DEF Spec

-----------------------------------------------------------------------------
(* Theorems about operations on many devices *)

\* Every variable keeps its type.
THEOREM TypeCorrect == Spec => []TypeOK
<1>1. IInv => TypeOK
  <2> SUFFICES ASSUME IInv
               PROVE  TypeOK
    OBVIOUS
  <2>1. completed \in 0..Len(targets)
    BY Counting DEF IInv
  <2>2. errors \subseteq Devices
    BY Lists DEF IInv, Records
  <2>3. verdict = None \/ verdict \in [status : {"success", "partial", "error"},
                                       health : {"success", "partial", "error"},
                                       severity : {"healthy", "warning", "critical"}]
    BY DEF IInv, Verdicts, Status, HealthStatus, Severity
  <2> QED BY <2>1, <2>2, <2>3 DEF IInv, TypeOK, Shapes, Records, Over
<1> QED BY <1>1, Invariance, PTL

\* A call of the executor that returns has an answer or an error for every device it was
\* given, has counted every operation, and has no answer from an operation it gave up on.
THEOREM OutcomesAreComplete == Spec => []EveryoneIsAccountedFor
<1>1. IInv => EveryoneIsAccountedFor
  <2> SUFFICES ASSUME IInv, verdict # None
               PROVE  /\ Succeeded \cup errors = Range(targets)
                      /\ completed = Len(targets)
                      /\ \A d \in Succeeded : \E t \in Tasks \ timedOut :
                           targets[t] = d /\ thread[t] = "ended" /\ end[t] = successes[d]
    BY DEF EveryoneIsAccountedFor
  <2>1. Over = Tasks
    BY DEF IInv, Verdicts, Over
  <2>2. \A t \in Tasks : targets[t] \in Succeeded \cup errors
    BY <2>1 DEF IInv, Records
  <2>3. Succeeded \cup errors = Range(targets)
    BY <2>2, Lists DEF IInv, Records
  <2>4. completed = Len(targets)
    BY <2>1, Counting DEF IInv
  <2> QED BY <2>1, <2>3, <2>4 DEF IInv, Records
<1> QED BY <1>1, Invariance, PTL

\* The fabric health check calls a fabric healthy only if every device answered in time
\* and no answer, complete or thin, shows trouble; a call reports success only if no
\* wait ran out and no operation failed.
THEOREM HealthyIsTrue == Spec => []HealthyMeansAllAnswered
<1>1. IInv => HealthyMeansAllAnswered
  <2> SUFFICES ASSUME IInv, verdict # None
               PROVE  /\ verdict.severity = "healthy" =>
                           \A d \in Range(targets) : \E t \in Tasks \ timedOut :
                             targets[t] = d /\ end[t] \in {"healthy", "thin"}
                      /\ verdict.status = "success" =>
                           timedOut = {} /\ \A t \in Tasks : end[t] \in Answers
    BY DEF HealthyMeansAllAnswered
  <2>1. Over = Tasks /\ verdict.severity = Severity /\ verdict.status = Status
    BY DEF IInv, Verdicts, Over
  <2>2. ASSUME Severity = "healthy", NEW d \in Range(targets)
        PROVE  \E t \in Tasks \ timedOut : targets[t] = d /\ end[t] \in {"healthy", "thin"}
    <3> DEFINE found ==
          {IF e \in Succeeded THEN successes[e] ELSE "critical" : e \in Range(targets)}
    <3>1. "critical" \notin found /\ "warning" \notin found
      BY <2>2 DEF Severity
    <3>2. d \in Succeeded /\ successes[d] \notin {"critical", "warning"}
      BY <3>1
    <3>3. successes[d] \in Answers
      BY <3>2 DEF IInv, Records, Succeeded
    <3>4. PICK t \in Over \ timedOut : targets[t] = d /\ end[t] = successes[d]
      BY <3>2 DEF IInv, Records
    <3> QED BY <2>1, <3>2, <3>3, <3>4 DEF Answers
  <2>3. ASSUME Status = "success"
        PROVE  timedOut = {} /\ \A t \in Tasks : end[t] \in Answers
    <3>1. errors = {}
      BY <2>3 DEF Status
    <3>2. timedOut = {}
      BY <3>1 DEF IInv, Records
    <3> QED BY <2>1, <3>1, <3>2 DEF IInv, Records
  <2> QED BY <2>1, <2>2, <2>3
<1> QED BY <1>1, Invariance, PTL

-----------------------------------------------------------------------------
(* The driver of one device *)

Flags ==
  /\ kept \in BOOLEAN /\ connected \in BOOLEAN
  /\ api \in BOOLEAN /\ shell \in BOOLEAN /\ auth \in BOOLEAN
  /\ paused \in BOOLEAN /\ steady \in BOOLEAN

Places ==
  /\ kind \in Kinds
  /\ primary \in {"none", "open"}
  /\ ssh \in {"none", "unopened", "open", "broken"}
  /\ place \in {"idle", "connecting", "probing", "reconnecting", "using"}
  /\ outcome \in {"none", "answered", "errors", "raised"}

Counts == idle \in 0..Interval /\ tries \in 0..(Attempts - 1)

\* A driver that runs a command has a connection, or is about to get one.
Connection ==
  /\ ~kept => ~connected /\ primary = "none"
  /\ place \in {"connecting", "reconnecting"} => ~connected /\ primary = "none"

\* A command that came after a pause and has been answered all along has a transport
\* that carries it.
PauseNoticed ==
  /\ steady => InOrder
  /\ paused /\ steady /\ place = "using" => ApiCarries \/ (primary = "none" /\ SshCarries)
  /\ PauseHeals

DriverInv == Flags /\ Places /\ Counts /\ Connection /\ PauseNoticed

\* The settings, as numbers.
LEMMA DriverSettings ==
  /\ Interval \in Nat /\ Interval > 0 /\ Attempts \in Nat /\ Attempts > 0
  /\ \A k \in Kinds : k.transport \in {"rest", "nxapi", "ssh"} /\ k.port \in {"api", "shell"}
BY DriverSessionAssumption

\* A driver that does not exist yet has nothing to be wrong.
LEMMA DriverInitInv ==
  ASSUME DriverInit
  PROVE  DriverInv
<1>1. Counts
  BY DriverSettings DEF DriverInit, Counts
<1>2. Flags /\ Places
  BY DEF DriverInit, Flags, Places
<1>3. Connection /\ PauseNoticed
  BY DEF DriverInit, Connection, PauseNoticed, PauseHeals
<1> QED BY <1>1, <1>2, <1>3 DEF DriverInv

\* A pause leads to a probe, or to the error of a driver without a connection.
LEMMA BeginKeepsInv ==
  ASSUME DriverInv, Begin
  PROVE  DriverInv'
<1> USE DEF device, transports, history
<1>1. Flags'
  BY DEF DriverInv, Flags, Begin, InOrder
<1>2. Places'
  BY DEF DriverInv, Places, Begin, Settle
<1>3. Counts'
  BY DriverSettings DEF DriverInv, Counts, Begin
<1>4. Connection'
  BY DEF DriverInv, Connection, Begin, Settle
<1>5. PauseNoticed'
  <2>1. /\ steady' = InOrder /\ UNCHANGED <<kind, connected, api, shell, auth>>
        /\ place' # "using" \/ idle < Interval
        /\ place' = "idle" => outcome' = "raised" /\ ~connected
        /\ paused' = (idle = Interval)
    BY DEF Begin, Settle
  <2>2. paused' => idle = Interval
    BY <2>1
  <2>3. ~(paused' /\ place' = "using")
    BY <2>1, <2>2, DriverSettings DEF DriverInv, Counts
  <2> QED BY <2>1, <2>3 DEF PauseNoticed, PauseHeals, InOrder, ApiAnswers, ShellAnswers
<1> QED BY <1>1, <1>2, <1>3, <1>4, <1>5 DEF DriverInv

\* A probe that the device answers in order finds the transport sound; one that fails
\* closes it.
LEMMA ProbeKeepsInv ==
  ASSUME DriverInv, Probe
  PROVE  DriverInv'
<1> USE DEF device, transports, history
<1>1. Flags'
  BY DEF DriverInv, Flags, Probe, Close
<1>2. Places'
  BY DEF DriverInv, Places, Probe, Close
<1>3. Counts'
  BY DriverSettings DEF DriverInv, Counts, Probe
<1>4. Connection'
  BY DEF DriverInv, Connection, Probe, Close
<1>5. PauseNoticed'
  BY DEF DriverInv, PauseNoticed, PauseHeals, Probe, InOrder, ProbeAnswers, ApiCarries,
     SshCarries, ApiAnswers, ShellAnswers
<1> QED BY <1>1, <1>2, <1>3, <1>4, <1>5 DEF DriverInv

\* An attempt ends with a new transport, or leaves everything as it was.
LEMMA AttemptKeepsInv ==
  ASSUME DriverInv, Attempt
  PROVE  DriverInv'
<1> USE DEF device, transports, history
<1> USE DEF InOrder, ApiCarries, SshCarries, ApiAnswers, ShellAnswers
<1>1. /\ place \in {"connecting", "reconnecting"} /\ ~connected /\ primary = "none"
      /\ UNCHANGED <<kind, api, shell, auth, paused, steady>>
  BY DEF DriverInv, Connection, Attempt
<1>2. CASE AttemptFails
  <2>1. /\ UNCHANGED <<kept, connected, primary, ssh, idle>>
        /\ tries' \in 0..(Attempts - 1)
        /\ \/ place' = place /\ outcome' = outcome
           \/ place' = "idle" /\ outcome' = "raised"
    BY <1>2, DriverSettings DEF DriverInv, Counts, AttemptFails, Settle
  <2> QED
    BY <1>1, <2>1 DEF DriverInv, Flags, Places, Counts, Connection, PauseNoticed, PauseHeals
<1>3. CASE ~AttemptFails
  <2>1. /\ Connected
        /\ \/ ApiAnswers /\ auth /\ primary' = "open" /\ ssh' = ssh
           \/ /\ kind.transport = "ssh" \/ ~ApiAnswers
              /\ primary' = primary /\ ssh' = "unopened"
    BY <1>3 DEF Attempt, Attach, Reject, FallBack, Miss, DialsApi
  <2>2. /\ connected' = TRUE /\ kept' = TRUE /\ place' = "using" /\ outcome' = outcome
        /\ idle' = 0 /\ tries' = 0
    BY <2>1 DEF Connected
  <2>3. Flags' /\ Places'
    BY <1>1, <2>1, <2>2 DEF DriverInv, Flags, Places
  <2>4. Counts'
    BY <2>2, DriverSettings DEF Counts
  <2>5. Connection' /\ PauseNoticed'
    BY <1>1, <2>1, <2>2 DEF DriverInv, Connection, PauseNoticed, PauseHeals
  <2> QED BY <2>3, <2>4, <2>5 DEF DriverInv
<1> QED BY <1>2, <1>3

\* The command uses what there is.
LEMMA UseKeepsInv ==
  ASSUME DriverInv, Use
  PROVE  DriverInv'
<1> USE DEF device, transports, history
<1>1. /\ place = "using" /\ place' = "idle" /\ outcome' \in {"answered", "errors"}
      /\ ssh' \in {ssh, "open"}
      /\ UNCHANGED <<kind, kept, connected, primary, idle, tries, api, shell, auth,
                     paused, steady>>
  BY DEF Use, Settle
<1>2. Flags' /\ Places' /\ Counts' /\ Connection'
  BY <1>1 DEF DriverInv, Flags, Places, Counts, Connection
<1>3. PauseNoticed'
  BY <1>1 DEF DriverInv, PauseNoticed, PauseHeals, Use, Settle, InOrder, ApiCarries, SshCarries,
     ApiAnswers, ShellAnswers
<1> QED BY <1>2, <1>3 DEF DriverInv

\* Whatever happens to the device ends the watch.
LEMMA DeviceKeepsInv ==
  ASSUME DriverInv,
         \/ ApiChanges \/ ShellChanges \/ AuthChanges \/ SessionEnds
  PROVE  DriverInv'
<1> USE DEF device, transports, history
<1>1. /\ steady' = FALSE
      /\ UNCHANGED <<kind, kept, connected, idle, place, tries, paused, outcome>>
  BY DEF ApiChanges, ShellChanges, AuthChanges, SessionEnds,
     Disturb
<1>2. primary' = primary /\ ssh' \in {ssh, Broken(ssh)}
  BY DEF ApiChanges, ShellChanges, AuthChanges, SessionEnds
<1>3. api' \in BOOLEAN /\ shell' \in BOOLEAN /\ auth' \in BOOLEAN
  BY DEF DriverInv, Flags, ApiChanges, ShellChanges, AuthChanges,
     SessionEnds
<1>4. Flags' /\ Counts'
  BY <1>1, <1>3 DEF DriverInv, Flags, Counts
<1>5. Places' /\ Connection'
  BY <1>1, <1>2 DEF DriverInv, Places, Connection, Broken
<1>6. PauseNoticed'
  BY <1>1 DEF PauseNoticed, PauseHeals
<1> QED BY <1>4, <1>5, <1>6 DEF DriverInv

\* Every step keeps the invariant.
LEMMA DriverNextInv ==
  ASSUME DriverInv, [DriverNext]_driverVars
  PROVE  DriverInv'
<1> USE DEF device, transports, history
<1>1. CASE Evict
  <2>1. /\ kept' = FALSE /\ connected' = FALSE /\ primary' = "none" /\ ssh' = "none"
        /\ UNCHANGED <<kind, idle, place, tries, api, shell, auth, paused, steady, outcome>>
    BY <1>1 DEF Evict, Close
  <2>2. Flags' /\ Places' /\ Counts' /\ Connection'
    BY <2>1 DEF DriverInv, Flags, Places, Counts, Connection
  <2>3. PauseNoticed'
    BY <1>1, <2>1 DEF DriverInv, PauseNoticed, PauseHeals, InOrder, ApiAnswers, ShellAnswers, Evict
  <2> QED BY <2>2, <2>3 DEF DriverInv
<1>2. CASE Tick
  <2>1. /\ idle' \in 0..Interval
        /\ UNCHANGED <<kind, kept, connected, primary, ssh, place, tries, api, shell, auth,
                       paused, steady, outcome>>
    BY <1>2, DriverSettings DEF DriverInv, Counts, Tick
  <2> QED
    BY <2>1 DEF DriverInv, Flags, Places, Counts, Connection, PauseNoticed, PauseHeals, InOrder,
       ApiCarries, SshCarries, ApiAnswers, ShellAnswers
<1>3. CASE UNCHANGED driverVars
  BY <1>3 DEF driverVars, DriverInv, Flags, Places, Counts, Connection, PauseNoticed,
     PauseHeals, InOrder, ApiCarries, SshCarries, ApiAnswers, ShellAnswers
<1> QED
  BY <1>1, <1>2, <1>3, BeginKeepsInv, ProbeKeepsInv, AttemptKeepsInv, UseKeepsInv,
     DeviceKeepsInv DEF DriverNext

\* It holds for ever.
LEMMA DriverInvariance == DriverSpec => []DriverInv
BY DriverInitInv, DriverNextInv, PTL DEF DriverSpec

-----------------------------------------------------------------------------
(* Theorems about drivers *)

\* Every variable keeps its type.
THEOREM DriversTypeCorrect == DriverSpec => []DriverTypeOK
<1>1. DriverInv => DriverTypeOK
  BY DEF DriverInv, DriverTypeOK, Flags, Places, Counts
<1> QED BY <1>1, DriverInvariance, PTL

\* A command that comes after a pause is answered, if what the driver of NX-OS or SONiC
\* dials answers throughout: the probe of run_show replaces a connection that died
\* during the pause. Only a driver that a failed reconnection left without a
\* connection raises instead.
THEOREM PausesHeal == DriverSpec => []PauseHeals
<1>1. DriverInv => PauseHeals
  BY DEF DriverInv, PauseNoticed
<1> QED BY <1>1, DriverInvariance, PTL

\* The driver for NX-OS does not lose its connection for good while its credentials are
\* accepted, whatever happens to the device's API and its SSH server.
THEOREM FallbackKeepsConnection == DriverSpec => FallbackStaysConnected
<1> DEFINE Linked == kind.transport # "rest" /\ kept /\ place # "reconnecting" => connected
<1>1. DriverInit => Linked
  BY DEF DriverInit
<1>2. Linked /\ auth /\ [DriverNext]_driverVars => Linked'
  <2> SUFFICES ASSUME Linked, auth, [DriverNext]_driverVars
               PROVE  Linked'
    OBVIOUS
  <2> USE DEF device, transports, history
  <2>1. CASE Begin
    BY <2>1 DEF Begin, Settle
  <2>2. CASE Probe
    BY <2>2 DEF Probe, Close
  <2>3. CASE Attempt
    BY <2>3 DEF Attempt, Attach, Reject, FallBack, Miss,
       DialsApi, Connected, AttemptFails, Settle
  <2>4. CASE Use
    BY <2>4 DEF Use, Settle
  <2>5. CASE Evict
    BY <2>5 DEF Evict
  <2>6. CASE \/ ApiChanges \/ ShellChanges \/ AuthChanges
             \/ SessionEnds \/ Tick \/ UNCHANGED driverVars
    BY <2>6 DEF ApiChanges, ShellChanges, AuthChanges,
       SessionEnds, Tick, driverVars
  <2> QED BY <2>1, <2>2, <2>3, <2>4, <2>5, <2>6 DEF DriverNext
<1>3. Linked => (kind.transport # "rest" /\ kept /\ place = "idle" => connected)
  OBVIOUS
<1> QED
  BY <1>1, <1>2, <1>3, PTL DEF DriverSpec, FallbackStaysConnected
=============================================================================
