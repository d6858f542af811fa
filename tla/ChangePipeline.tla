--------------------------- MODULE ChangePipeline ---------------------------
(***************************************************************************)
(* A managed configuration change on one device: the body of               *)
(* run_config_command (helpers.py) with change management switched on,     *)
(* ChangeManager (change_management.py), and the tools that approve and    *)
(* roll back a change while it is under way (tools/common/changes.py).     *)
(*                                                                         *)
(* A call makes one change request, named by the call.  The threads are    *)
(* the calls and the runs of net_rollback_change; they meet at the host    *)
(* lock of ConnectionManager.acquire, a lock that is not reentrant, at the *)
(* bulkhead of the device's vendor, and in the change requests, which have *)
(* no lock at all.  remove_node and close_all replace the host lock by a   *)
(* new one, so a lock is named by its generation.                          *)
(*                                                                         *)
(* The device's configuration is a set of lines.  A change sets a line,    *)
(* removes one, or is blank; its rollback is the change in reverse.        *)
(***************************************************************************)
EXTENDS CallSteps, Naturals, FiniteSets

CONSTANTS
  Rollbacks,         \* threads beside the calls
  Lines,             \* configuration lines
  Changes,           \* the changes users ask for
  Slots,             \* bulkhead slots of the vendor
  MaxGen             \* bound: how often the host lock is replaced

Threads == Calls \cup Rollbacks
Statuses == {"pending", "approved", "executing", "completed", "failed", "rolled_back"}
Commands == [op : {"set", "remove"}, line : Lines] \cup {[op |-> "blank"]}

ASSUME PipelineAssumption ==
  /\ IsFiniteSet(Calls) /\ Calls \cap Rollbacks = {}
  /\ None \notin Threads \cup Statuses
  /\ Changes \subseteq Commands
  /\ Slots \in Nat \ {0} /\ MaxGen \in Nat

VARIABLES
  mode,       \* net_change_require_approval, net_auto_rollback_timeout > 0, and Redis
              \* limiters with net_rate_limit_max_wait > 0, which raise an exception
  cmd,        \* the change a call asks for
  status,     \* its change request's status, None before there is one
  approver,   \* approved_by
  pre,        \* pre_snapshot: the configuration read, or nothing
  completed,  \* requests in _completed; the others are in _pending
  target,     \* the request a thread works on
  grip,       \* a thread and the host lock its phase needs: none, waiting, held
  gen,        \* the lock it waits for or holds, 0 when there is none
  outer,      \* the lock a call keeps while a later phase asks for one again
  holder,     \* who holds each lock
  lockGen,    \* the lock in the table
  slots,      \* free bulkhead slots
  config,     \* the device
  approving,  \* requests an approver has found to be pending
  given,      \* history: the last lines of a request that the device took
  early       \* history: requests a rollback ended before their call reached its gate

reqVars == <<cmd, status, approver, pre, completed>>
lockVars == <<grip, gen, outer, holder>>
history == <<given, early>>
vars == <<mode, reqVars, pc, target, lockVars, lockGen, slots, config, approving, history>>

LockPhases == {"pre", "apply", "post", "undo", "check"}
SlotPhases == {"apply", "post", "undo", "check", "closing", "failing"}
Phases == {"new", "created", "ready", "admitted", "done"} \cup LockPhases \cup SlotPhases

TypeOK ==
  /\ mode \in [approval : BOOLEAN, autoRollback : BOOLEAN, raises : BOOLEAN]
  /\ cmd \in [Calls -> Changes \cup {None}]
  /\ status \in [Calls -> Statuses \cup {None}]
  /\ approver \in [Calls -> {"", "auto", "admin"}]
  /\ pre \in [Calls -> SUBSET SUBSET Lines]
  /\ completed \cup approving \cup early \subseteq Calls
  /\ given \in [Calls -> {"nothing", "commands", "reverse"}]
  /\ pc \in [Threads -> Phases]
  /\ target \in [Threads -> Calls \cup {None}]
  /\ grip \in [Threads -> {"none", "waiting", "held"}]
  /\ gen \in [Threads -> 0..MaxGen]
  /\ outer \in [Threads -> 0..MaxGen \cup {None}]
  /\ holder \in [0..MaxGen -> Threads \cup {None}]
  /\ lockGen \in 0..MaxGen
  /\ slots \in 0..Slots
  /\ config \subseteq Lines

Init ==
  /\ mode \in [approval : BOOLEAN, autoRollback : BOOLEAN, raises : BOOLEAN]
  /\ cmd = [c \in Calls |-> None] /\ status = [c \in Calls |-> None]
  /\ approver = [c \in Calls |-> ""] /\ pre = [c \in Calls |-> {}]
  /\ completed = {} /\ approving = {}
  /\ given = [c \in Calls |-> "nothing"] /\ early = {}
  /\ pc = [t \in Threads |-> "new"]
  /\ target = [t \in Threads |-> IF t \in Calls THEN t ELSE None]
  /\ grip = [t \in Threads |-> "none"] /\ gen = [t \in Threads |-> 0]
  /\ outer = [t \in Threads |-> None]
  /\ holder = [g \in 0..MaxGen |-> None] /\ lockGen = 0
  /\ slots = Slots
  /\ config \in SUBSET Lines

-----------------------------------------------------------------------------
(* Building blocks *)

\* run_config of a change, and of its generated rollback.
Run(x, lines) ==
  CASE x.op = "set" -> lines \cup {x.line}
    [] x.op = "remove" -> lines \ {x.line}
    [] OTHER -> lines

RollbackOf(x) ==
  CASE x.op = "set" -> [op |-> "remove", line |-> x.line]
    [] x.op = "remove" -> [op |-> "set", line |-> x.line]
    [] OTHER -> x

HasRollback(c) == cmd[c].op # "blank"

SetStatus(c, s) == status' = [status EXCEPT ![c] = s]

\* mark_failed and mark_completed file the request among the completed ones.
Conclude(c, s) == SetStatus(c, s) /\ completed' = completed \cup {c}

\* The device takes the commands of a request, or their reverse.
Give(c, what, x) ==
  /\ config' = Run(x, config)
  /\ given' = [given EXCEPT ![c] = what]

\* A rollback sets the request's status: is its call still before the gate?
NoteEarly(c) == early' = IF pc[c] = "created" THEN early \cup {c} ELSE early

\* Leave the `with acquire` of the current phase.
ReleaseLock(t) ==
  /\ grip[t] = "held"
  /\ grip' = [grip EXCEPT ![t] = "none"]
  /\ gen' = [gen EXCEPT ![t] = 0]
  /\ holder' = [holder EXCEPT ![gen[t]] = None]
  /\ UNCHANGED outer

\* validate_change, from the two snapshots.
Valid(before, after) == before # {} /\ after # {} /\ before # after

\* After a rollback the tool returns; a call still has its lock and slot to give back.
AfterUndo(t) == IF t \in Calls THEN "closing" ELSE "done"

-----------------------------------------------------------------------------
(* The gate *)

\* create_change_request; low-risk changes may be approved on the spot.
Submit(c, x, low) ==
  LET auto == low /\ ~mode.approval IN
  /\ Goto(c, "new", "created")
  /\ cmd' = [cmd EXCEPT ![c] = x]
  /\ SetStatus(c, IF auto THEN "approved" ELSE "pending")
  /\ approver' = [approver EXCEPT ![c] = IF auto THEN "auto" ELSE ""]
  /\ UNCHANGED <<mode, pre, completed, target, lockVars, lockGen, slots, config,
                 approving, history>>

\* Seeded fault: the maintenance window is the only gate.
Gate_WindowOnly(c, open) ==
  /\ Goto(c, "created", IF open THEN "pre" ELSE "done")
  /\ IF open THEN UNCHANGED <<status, completed>> ELSE Conclude(c, "failed")
  /\ UNCHANGED <<mode, cmd, approver, pre, target, lockVars, lockGen, slots, config,
                 approving, history>>

\* The maintenance window, then the approval: a pending change is returned to the
\* client as pending_approval.
Gate(c, open) ==
  /\ Goto(c, "created", IF open /\ status[c] # "pending" THEN "pre" ELSE "done")
  /\ IF open THEN UNCHANGED <<status, completed>> ELSE Conclude(c, "failed")
  /\ UNCHANGED <<mode, cmd, approver, pre, target, lockVars, lockGen, slots, config,
                 approving, history>>

\* approve_change, with no lock between its test and its assignment.
ApproveChecks(c) ==
  /\ status[c] = "pending" /\ c \notin completed
  /\ approving' = approving \cup {c}
  /\ UNCHANGED <<mode, reqVars, pc, target, lockVars, lockGen, slots, config, history>>

ApproveSets(c) ==
  /\ c \in approving
  /\ SetStatus(c, "approved")
  /\ approver' = [approver EXCEPT ![c] = "admin"]
  /\ approving' = approving \ {c}
  /\ UNCHANGED <<mode, cmd, pre, completed, pc, target, lockVars, lockGen, slots,
                 config, history>>

-----------------------------------------------------------------------------
(* The host lock *)

\* acquire: look the lock up, then block on it with no time-out.
WantLock(t) ==
  /\ pc[t] \in LockPhases /\ grip[t] = "none"
  /\ grip' = [grip EXCEPT ![t] = "waiting"]
  /\ gen' = [gen EXCEPT ![t] = lockGen]
  /\ UNCHANGED <<mode, reqVars, pc, target, outer, holder, lockGen, slots, config,
                 approving, history>>

TakeLock(t) ==
  /\ grip[t] = "waiting" /\ holder[gen[t]] = None
  /\ grip' = [grip EXCEPT ![t] = "held"]
  /\ holder' = [holder EXCEPT ![gen[t]] = t]
  /\ UNCHANGED <<mode, reqVars, pc, target, gen, outer, lockGen, slots, config,
                 approving, history>>

\* remove_node and close_all drop the lock from the table.
ReplaceLock ==
  /\ lockGen < MaxGen
  /\ lockGen' = lockGen + 1
  /\ UNCHANGED <<mode, reqVars, pc, target, lockVars, slots, config, approving, history>>

-----------------------------------------------------------------------------
(* Execution *)

\* capture_pre_snapshot; an error is recorded, and the change goes on.
PreSnapshot(c) ==
  /\ Goto(c, "pre", "ready")
  /\ ReleaseLock(c)
  /\ \E snapshot \in {{}, {config}} : pre' = [pre EXCEPT ![c] = snapshot]
  /\ UNCHANGED <<mode, cmd, status, approver, completed, target, lockGen, slots,
                 config, approving, history>>

MarkExecuting(c) ==
  /\ Goto(c, "ready", "admitted")
  /\ SetStatus(c, "executing")
  /\ UNCHANGED <<mode, cmd, approver, pre, completed, target, lockVars, lockGen,
                 slots, config, approving, history>>

\* Seeded fault: the refusal is returned and the request left as it is.
Deny_Forgets(c) ==
  /\ Goto(c, "admitted", "done")
  /\ UNCHANGED <<mode, reqVars, target, lockVars, lockGen, slots, config, approving, history>>

\* Seeded fault: the handler of a bulkhead time-out gives back a slot it never had.
Deny_ReturnsSlot(c) ==
  /\ Goto(c, "admitted", "done")
  /\ Conclude(c, "failed")
  /\ slots' = slots + 1
  /\ UNCHANGED <<mode, cmd, approver, pre, target, lockVars, lockGen, config,
                 approving, history>>

\* Refused by a user's or tenant's rate limit, the circuit breaker or the device's
\* rate limit, or no slot in time.
Deny(c) ==
  /\ Goto(c, "admitted", "done")
  /\ Conclude(c, "failed")
  /\ UNCHANGED <<mode, cmd, approver, pre, target, lockVars, lockGen, slots, config,
                 approving, history>>

\* check_config_with_backoff is not a method of the Redis limiter: the exception
\* leaves run_config_command with no handler that marks the request.
Raise(c) ==
  /\ mode.raises
  /\ Goto(c, "admitted", "done")
  /\ UNCHANGED <<mode, reqVars, target, lockVars, lockGen, slots, config, approving, history>>

TakeSlot(c) ==
  /\ ~mode.raises
  /\ Goto(c, "admitted", "apply")
  /\ slots > 0
  /\ slots' = slots - 1
  /\ UNCHANGED <<mode, reqVars, target, lockVars, lockGen, config, approving, history>>

\* The device takes the commands; the call keeps its host lock from here on.
Apply(c) ==
  /\ Goto(c, "apply", "post")
  /\ grip[c] = "held"
  /\ Give(c, "commands", cmd[c])
  /\ outer' = [outer EXCEPT ![c] = gen[c]]
  /\ grip' = [grip EXCEPT ![c] = "none"]
  /\ gen' = [gen EXCEPT ![c] = 0]
  /\ UNCHANGED <<mode, reqVars, target, holder, lockGen, slots, approving, early>>

\* No connection, a rejected command, or an answer that got lost: the exception
\* leaves the `with` block, and only then is the request marked.
ApplyFails(c) ==
  /\ Goto(c, "apply", "failing")
  /\ ReleaseLock(c)
  /\ Give(c, "commands", cmd[c]) \/ UNCHANGED <<config, given>>
  /\ UNCHANGED <<mode, reqVars, target, lockGen, slots, approving, early>>

\* Seeded fault: the error path keeps the bulkhead slot.
MarkFailed_KeepsSlot(c) ==
  /\ Goto(c, "failing", "done")
  /\ Conclude(c, "failed")
  /\ UNCHANGED <<mode, cmd, approver, pre, target, lockVars, lockGen, slots, config,
                 approving, history>>

\* mark_failed, then out of the bulkhead.
MarkFailed(c) ==
  /\ Goto(c, "failing", "done")
  /\ Conclude(c, "failed")
  /\ slots' = slots + 1
  /\ UNCHANGED <<mode, cmd, approver, pre, target, lockVars, lockGen, config,
                 approving, history>>

\* Seeded fault: mark_completed leaves a request alone that was rolled back meanwhile.
PostSnapshot_KeepsVerdict(c) ==
  \E after \in {{}, {config}} :
    LET undo == mode.autoRollback /\ ~Valid(pre[c], after) IN
    /\ Goto(c, "post", IF undo /\ HasRollback(c) THEN "undo" ELSE "closing")
    /\ ReleaseLock(c)
    /\ IF ~undo /\ status[c] = "executing" THEN Conclude(c, "completed")
       ELSE IF ~undo \/ HasRollback(c) THEN UNCHANGED <<status, completed>>
       ELSE SetStatus(c, "failed") /\ UNCHANGED completed
    /\ UNCHANGED <<mode, cmd, approver, pre, target, lockGen, slots, config,
                   approving, history>>

\* capture_post_snapshot and what follows it: completed, or a rollback.
PostSnapshot(c) ==
  \E after \in {{}, {config}} :
    LET undo == mode.autoRollback /\ ~Valid(pre[c], after) IN
    /\ Goto(c, "post", IF undo /\ HasRollback(c) THEN "undo" ELSE "closing")
    /\ ReleaseLock(c)
    /\ IF ~undo THEN Conclude(c, "completed")
       ELSE IF HasRollback(c) THEN UNCHANGED <<status, completed>>
       ELSE SetStatus(c, "failed") /\ UNCHANGED completed
    /\ UNCHANGED <<mode, cmd, approver, pre, target, lockGen, slots, config,
                   approving, history>>

\* Seeded fault: the slot is given back, the host lock is not.
Close_KeepsLock(c) ==
  /\ Goto(c, "closing", "done")
  /\ outer' = [outer EXCEPT ![c] = None]
  /\ slots' = slots + 1
  /\ UNCHANGED <<mode, reqVars, target, grip, gen, holder, lockGen, config, approving, history>>

\* Back out of acquire and of the bulkhead.
Close(c) ==
  /\ Goto(c, "closing", "done")
  /\ holder' = [holder EXCEPT ![outer[c]] = None]
  /\ outer' = [outer EXCEPT ![c] = None]
  /\ slots' = slots + 1
  /\ UNCHANGED <<mode, reqVars, target, grip, gen, lockGen, config, approving, history>>

-----------------------------------------------------------------------------
(* rollback, called by net_rollback_change and by a call that failed validation *)

\* net_rollback_change takes any request it finds, whatever its status and whatever
\* its call is doing.
StartRollback(t, c) ==
  /\ status[c] # None
  /\ Goto(t, "new", IF HasRollback(c) THEN "undo" ELSE "done")
  /\ target' = [target EXCEPT ![t] = c]
  /\ IF HasRollback(c) THEN UNCHANGED <<status, early>>
     ELSE SetStatus(c, "failed") /\ NoteEarly(c)
  /\ UNCHANGED <<mode, cmd, approver, pre, completed, lockVars, lockGen, slots,
                 config, approving, given>>

Undo(t) ==
  LET c == target[t] IN
  /\ Goto(t, "undo", IF pre[c] # {} THEN "check" ELSE AfterUndo(t))
  /\ ReleaseLock(t)
  /\ Give(c, "reverse", RollbackOf(cmd[c]))
  /\ Conclude(c, "rolled_back") /\ NoteEarly(c)
  /\ UNCHANGED <<mode, cmd, approver, pre, target, lockGen, slots, approving>>

\* The request stays where it was filed.
UndoFails(t) ==
  LET c == target[t] IN
  /\ Goto(t, "undo", AfterUndo(t))
  /\ ReleaseLock(t)
  /\ Give(c, "reverse", RollbackOf(cmd[c])) \/ UNCHANGED <<config, given>>
  /\ SetStatus(c, "failed") /\ NoteEarly(c)
  /\ UNCHANGED <<mode, cmd, approver, pre, completed, target, lockGen, slots, approving>>

\* _validate_rollback reads the configuration again; its verdict is only reported.
CheckRollback(t) ==
  /\ Goto(t, "check", AfterUndo(t))
  /\ ReleaseLock(t)
  /\ UNCHANGED <<mode, reqVars, target, lockGen, slots, config, approving, history>>

-----------------------------------------------------------------------------
Proceed(t) ==
  \/ WantLock(t) \/ TakeLock(t)
  \/ Undo(t) \/ UndoFails(t) \/ CheckRollback(t)

ProceedCall(c) ==
  \/ \E open \in BOOLEAN : Gate(c, open)
  \/ PreSnapshot(c) \/ MarkExecuting(c) \/ Deny(c) \/ Raise(c) \/ TakeSlot(c)
  \/ Apply(c) \/ ApplyFails(c) \/ MarkFailed(c) \/ PostSnapshot(c) \/ Close(c)

Next ==
  \/ \E t \in Threads : Proceed(t)
  \/ \E c \in Calls :
       \/ \E x \in Changes, low \in BOOLEAN : Submit(c, x, low)
       \/ ProceedCall(c) \/ ApproveChecks(c) \/ ApproveSets(c)
  \/ \E t \in Rollbacks, c \in Calls : StartRollback(t, c)
  \/ ReplaceLock

Spec == Init /\ [][Next]_vars

\* Threads are scheduled and the device answers or times out.
FairSpec ==
  /\ Spec
  /\ \A t \in Threads : WF_vars(Proceed(t))
  /\ \A c \in Calls : WF_vars(ProceedCall(c))

-----------------------------------------------------------------------------
(* Properties *)

\* A request that says it is executing has a call at work on it: no refusal, no failure
\* and no rollback leaves one behind in that status.  Only a limiter that raises does,
\* and then the device was not given the commands.
ExecutingHasWorker ==
  \A c \in Calls : status[c] = "executing" =>
    \/ pc[c] \in {"admitted"} \cup SlotPhases
    \/ mode.raises /\ pc[c] = "done" /\ given[c] # "commands"

\* Commands that nobody approved reach the device in one way only: somebody rolled the
\* request back before its call came to the gate, which lets everything through that
\* is not pending any more.  Reverse commands of such a request are a user's rollback.
OnlyApprovedRuns ==
  \A c \in Calls : approver[c] = "" =>
    /\ given[c] = "commands" => c \in early
    /\ given[c] = "reverse" => \E t \in Rollbacks : target[t] = c

\* However rollbacks overlap with the call of their request, once the call has ended a
\* request that says it was rolled back is: the reverse of its commands is the last
\* of it that the device was given.
RolledBackIsUndone ==
  \A c \in Calls :
    pc[c] = "done" /\ status[c] = "rolled_back" => given[c] = "reverse"

\* Locks and slots are held by threads that are still at work, each lock once, and
\* every slot is either free or in the hands of such a call.
NothingIsLeaked ==
  /\ slots + Cardinality({c \in Calls : pc[c] \in SlotPhases}) = Slots
  /\ \A g \in 0..MaxGen :
       LET t == holder[g] IN
       t # None => /\ pc[t] # "done"
                   /\ (grip[t] = "held" /\ gen[t] = g) \/ outer[t] = g

\* "Capture device state after change for verification" (change_management.py:282)
\* and then "wraps execution with: ... execution -> post-snapshot -> validation"
\* (helpers.py:1246-1248): a call that was let through comes to an end.
EveryCallReturns == \A c \in Calls : (pc[c] = "created") ~> (pc[c] = "done")
=============================================================================
