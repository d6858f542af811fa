---------------------------- MODULE AutoRollback ----------------------------
(***************************************************************************)
(* eos_auto_rollback_on_failure (tools/config_mgmt.py) among the other     *)
(* tools that use a device's checkpoints (tools/checkpoints.py) and read   *)
(* the show command by which the change is judged.                         *)
(*                                                                         *)
(* A call saves a checkpoint named after the current second, pushes its    *)
(* change, judges the answer of a show command, and restores the           *)
(* checkpoint on any error.  Each of these is a call of its own to         *)
(* helpers.py, which may be refused (circuit, rate, bulkhead), takes the   *)
(* host lock for its device command only, and may lose the device's        *)
(* answer.  The judgement itself goes through the command cache.           *)
(*                                                                         *)
(* One device.  Its running configuration is the set of calls whose change *)
(* is in force; an answer to the show command is the set of changes the    *)
(* device had taken by then.  Whether the pattern is found in an answer is *)
(* open.  The arguments are valid and the server is not read-only.         *)
(***************************************************************************)
EXTENDS CallSteps, Integers

CONSTANTS
  Others,    \* threads with other tools: reading, saving, restoring, deleting
  Named,     \* names that people give to checkpoints
  Horizon    \* the last second

Names == 0..Horizon \cup Named
Users == Calls \cup Others

ASSUME AutoRollbackAssumption ==
  /\ Horizon \in Nat /\ Named \cap 0..Horizon = {}
  /\ Calls \cap Others = {} /\ None \notin Users

VARIABLES
  running,      \* the device: changes in force
  checkpoints,  \* the device: name -> configuration, or None
  clock,        \* int(time.time())
  lock,         \* the host lock: its holder, or None
  entry,        \* the cached answer to the show command, or None
  name,         \* of each call's checkpoint
  seen,         \* the last answer each thread has got
  taken,        \* history: changes the device has taken
  withheld,     \* history: changes that wait for an approval instead
  restored,     \* history: what became of a call's restore
  saver         \* history: who sent the last save under a name

device == <<running, checkpoints, taken, saver>>
callVars == <<name, withheld, restored>>
autoVars == <<device, clock, lock, entry, pc, seen, callVars>>

InFlight == {"saving", "applying", "checking", "restoring", "reading", "changing"}
Steps == InFlight \cup {"new", "save", "apply", "check", "restore", "passed", "failed", "idle"}

AutoTypeOK ==
  /\ running \subseteq Calls /\ taken \subseteq Calls /\ withheld \subseteq Calls
  /\ checkpoints \in [Names -> (SUBSET Calls) \cup {None}]
  /\ clock \in 0..Horizon
  /\ entry \in (SUBSET Calls) \cup {None}
  /\ pc \in [Users -> Steps]
  /\ name \in [Calls -> 0..Horizon \cup {None}]
  /\ seen \in [Users -> SUBSET Calls]
  /\ restored \in [Calls -> {"no", "refused", "kept", "undone"}]
  /\ saver \in [Names -> Users \cup {None}]
  /\ lock \in Users \cup {None}
  /\ \A t \in Users : lock = t <=> pc[t] \in InFlight

AutoInit ==
  /\ running = {} /\ taken = {} /\ withheld = {}
  /\ checkpoints = [n \in Names |-> None]
  /\ clock = 0 /\ lock = None /\ entry = None
  /\ pc = [t \in Users |-> IF t \in Calls THEN "new" ELSE "idle"]
  /\ name = [c \in Calls |-> None]
  /\ seen = [t \in Users |-> {}]
  /\ restored = [c \in Calls |-> "no"]
  /\ saver = [n \in Names |-> None]

-----------------------------------------------------------------------------
(* run_session_command, run_config_command, run_show_command *)

\* The thread sends its command, with the host lock ...
Send(t, from, to) ==
  /\ Goto(t, from, to)
  /\ lock = None /\ lock' = t
  /\ UNCHANGED <<clock, entry>>

\* ... and gives the lock back with the device's answer.
Receive(t, from, to) ==
  /\ Goto(t, from, to)
  /\ lock' = None
  /\ UNCHANGED <<device, clock, callVars>>

\* The answer to a change, upon which the cached answers of the host are dropped.
Confirmed(t, from, to) ==
  /\ Receive(t, from, to)
  /\ entry' = None
  /\ UNCHANGED seen

\* An error instead of an answer, though the device may have done as it was told.
Lost(t, from, to) == Receive(t, from, to) /\ UNCHANGED <<entry, seen>>

\* An error before the device gets to see the command.
Refused(t, from, to) ==
  /\ Goto(t, from, to)
  /\ UNCHANGED <<device, clock, lock, entry, seen, callVars>>

-----------------------------------------------------------------------------
(* eos_auto_rollback_on_failure *)

Start(c) ==
  /\ Goto(c, "new", "save")
  /\ name' = [name EXCEPT ![c] = clock]
  /\ UNCHANGED <<device, clock, lock, entry, seen, withheld, restored>>

\* configure checkpoint save: one of that name is written over.
SaveAs(t, n) ==
  /\ checkpoints' = [checkpoints EXCEPT ![n] = running]
  /\ saver' = [saver EXCEPT ![n] = t]

Save(c) ==
  /\ Send(c, "save", "saving")
  /\ SaveAs(c, name[c])
  /\ UNCHANGED <<running, taken, seen, callVars>>

\* Seeded fault: the error path leaves the host lock locked.
SaveFails_KeepsLock(c) ==
  Refused(c, "save", "failed") \/ Refused(c, "saving", "failed")

SaveFails(c) == Refused(c, "save", "failed") \/ Lost(c, "saving", "failed")

Push(c) ==
  /\ Send(c, "apply", "applying")
  /\ running' = running \cup {c} /\ taken' = taken \cup {c}
  /\ UNCHANGED <<checkpoints, saver, seen, callVars>>

\* Seeded fault: a successful push leaves the cached answers alone.
Pushed_KeepsEntry(c) == Lost(c, "applying", "check")

Pushed(c) == Confirmed(c, "applying", "check")

\* Change management answers "pending_approval", which is not "error".
Withhold(c) ==
  /\ Goto(c, "apply", "check")
  /\ withheld' = withheld \cup {c}
  /\ UNCHANGED <<device, clock, lock, entry, seen, name, restored>>

PushFails(c) == Refused(c, "apply", "restore") \/ Lost(c, "applying", "restore")

Judge(c, from) == Goto(c, from, "passed") \/ Goto(c, from, "restore")

\* An answer from the cache, also an old one where the device gives none.
Recall(c) ==
  /\ entry # None
  /\ seen' = [seen EXCEPT ![c] = entry]
  /\ \/ Judge(c, "check") /\ UNCHANGED lock
     \/ Judge(c, "checking") /\ lock' = None
  /\ UNCHANGED <<device, clock, entry, callVars>>

Ask(c) ==
  /\ Send(c, "check", "checking")
  /\ seen' = [seen EXCEPT ![c] = taken]
  /\ UNCHANGED <<device, callVars>>

\* The answer is cached before the lock is given back.
Answered(c) ==
  /\ Judge(c, "checking")
  /\ lock' = None
  /\ entry' = seen[c]
  /\ UNCHANGED <<device, clock, seen, callVars>>

CheckFails(c) == Refused(c, "check", "restore") \/ Lost(c, "checking", "restore")

\* Seeded fault: the restore takes the checkpoint saved last.
Target_Last(c) ==
  LET kept == {n \in 0..Horizon : checkpoints[n] # None} IN
  IF kept = {} THEN name[c] ELSE CHOOSE n \in kept : \A m \in kept : m <= n

Target(c) == name[c]

Restore(c) ==
  /\ Send(c, "restore", "restoring")
  /\ checkpoints[Target(c)] # None
  /\ running' = checkpoints[Target(c)]
  /\ restored' = [restored EXCEPT ![c] = IF c \in running' THEN "kept" ELSE "undone"]
  /\ UNCHANGED <<checkpoints, saver, taken, seen, name, withheld>>

\* The answer to the restore is not looked at, be it an error.
Restored(c) == Confirmed(c, "restoring", "failed") \/ Lost(c, "restoring", "failed")

RestoreFails(c) ==
  /\ Goto(c, "restore", "failed")
  /\ restored' = [restored EXCEPT ![c] = "refused"]
  /\ UNCHANGED <<device, clock, lock, entry, seen, name, withheld>>

-----------------------------------------------------------------------------
(* Other tools *)

Read(o) ==
  /\ Send(o, "idle", "reading")
  /\ seen' = [seen EXCEPT ![o] = taken]
  /\ UNCHANGED <<device, callVars>>

Put(o) ==
  /\ Receive(o, "reading", "idle")
  /\ entry' = seen[o]
  /\ UNCHANGED seen

\* eos_create_checkpoint, under any name, a call's included.
Create(o, n) ==
  /\ Send(o, "idle", "changing")
  /\ SaveAs(o, n)
  /\ UNCHANGED <<running, taken, seen, callVars>>

\* eos_rollback_to_checkpoint, for instance to the one a call has retained.
RollBack(o, n) ==
  /\ Send(o, "idle", "changing")
  /\ checkpoints[n] # None
  /\ running' = checkpoints[n]
  /\ UNCHANGED <<checkpoints, saver, taken, seen, callVars>>

\* eos_delete_config_checkpoint.
Delete(o, n) ==
  /\ Send(o, "idle", "changing")
  /\ checkpoints' = [checkpoints EXCEPT ![n] = None]
  /\ UNCHANGED <<running, saver, taken, seen, callVars>>

Finish(o) ==
  Confirmed(o, "changing", "idle") \/ Lost(o, "changing", "idle") \/ Lost(o, "reading", "idle")

-----------------------------------------------------------------------------

Expire ==
  /\ entry # None /\ entry' = None
  /\ UNCHANGED <<device, clock, lock, pc, seen, callVars>>

Tick ==
  /\ clock < Horizon /\ clock' = clock + 1
  /\ UNCHANGED <<device, lock, entry, pc, seen, callVars>>

CallStep(c) ==
  \/ Start(c)
  \/ Save(c) \/ Confirmed(c, "saving", "apply") \/ SaveFails(c)
  \/ Push(c) \/ Pushed(c) \/ Withhold(c) \/ PushFails(c)
  \/ Recall(c) \/ Ask(c) \/ Answered(c) \/ CheckFails(c)
  \/ Restore(c) \/ Restored(c) \/ RestoreFails(c)

AutoNext ==
  \/ \E c \in Calls : CallStep(c)
  \/ \E o \in Others :
       \/ Read(o) \/ Put(o) \/ Finish(o)
       \/ \E n \in Names : Create(o, n) \/ RollBack(o, n) \/ Delete(o, n)
  \/ Expire \/ Tick

AutoSpec == AutoInit /\ [][AutoNext]_autoVars

-----------------------------------------------------------------------------
(* Properties *)

\* A call that passes its health check has judged an answer that the device gave
\* after it had taken the change: no answer cached earlier, by whomever and however
\* slowly, is taken for the state after the change.
HealthIsJudgedAfterChange ==
  \A c \in Calls \ withheld : pc[c] = "passed" => c \in seen[c]

\* A change whose call ends in failure was undone on the device, also if only the
\* answer to the push was lost.  The exceptions: the restore was refused, or somebody
\* else, a call of the same second or another tool, was the last to save under the name.
FailedChangesAreUndone ==
  \A c \in Calls :
    pc[c] = "failed" /\ c \in taken =>
      \/ restored[c] \in {"undone", "refused"}
      \/ restored[c] = "kept" /\ saver[name[c]] # c
=============================================================================
