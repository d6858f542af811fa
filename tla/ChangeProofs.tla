---------------------------- MODULE ChangeProofs ----------------------------
(***************************************************************************)
(* Proofs about configuration changes: the change pipeline, for any number *)
(* of calls, rollbacks and slots, and in the second part the automatic     *)
(* rollback.  Each is about a specification of its own.                    *)
(*                                                                         *)
(* The invariant of the pipeline has a part for each thing a call must not *)
(* lose track of: its request (RequestsSound), the change that a rollback  *)
(* is about (TargetsSound), the locks it holds (LocksSound), its slot      *)
(* (SlotsSound).  Users roll a request back whenever they like; Gated says *)
(* what that does to the approval, and Undone what a request that was      *)
(* rolled back may still have ahead of it.                                 *)
(***************************************************************************)
EXTENDS ChangePipeline, AutoRollback, FiniteSetTheorems, TLAPS

RequestsSound ==
  \A c \in Calls :
    /\ pc[c] = "new" => status[c] = None /\ c \notin approving \cup early /\ given[c] = "nothing"
    /\ pc[c] # "new" => cmd[c] \in Commands
    /\ pc[c] \in {"created", "pre", "ready", "admitted", "apply"} => given[c] # "commands"
    /\ status[c] = "executing" =>
         \/ pc[c] \in {"admitted", "apply", "post", "undo", "failing"}
         \/ mode.raises /\ pc[c] = "done" /\ given[c] # "commands"

TargetsSound ==
  /\ \A c \in Calls : target[c] = c
  /\ \A t \in Rollbacks : pc[t] = "new" => target[t] = None
  /\ \A t \in Threads :
       pc[t] \in {"undo", "check"} => target[t] \in Calls /\ pc[target[t]] # "new"

\* A call keeps the lock under which its change was made.
KeepsOuter(t) == t \in Calls /\ pc[t] \in {"post", "undo", "check", "closing"}

LocksSound ==
  /\ \A t \in Threads :
       /\ grip[t] # "none" => pc[t] \in LockPhases
       /\ grip[t] = "held" => holder[gen[t]] = t
       /\ KeepsOuter(t) =>
            /\ outer[t] \in 0..MaxGen /\ holder[outer[t]] = t
            /\ grip[t] = "held" => gen[t] # outer[t]
  /\ \A g \in 0..MaxGen :
       LET t == holder[g] IN
       t # None => (grip[t] = "held" /\ gen[t] = g) \/ (KeepsOuter(t) /\ outer[t] = g)

Busy == {c \in Calls : pc[c] \in SlotPhases}

SlotsSound == slots + Cardinality(Busy) = Slots

PastGate == {"pre", "ready", "admitted", "apply", "post", "undo", "check", "closing", "failing"}

\* A change is approved once it is past the gate, and before if it is no longer pending,
\* unless a rollback ended its request before; who gets its reverse without approval is
\* being rolled back by a user.
UserRollsBack(c) == \E t \in Rollbacks : target[t] = c

IsApproved(c) ==
  /\ pc[c] = "created" => status[c] = "pending" \/ approver[c] # "" \/ c \in early
  /\ pc[c] \in PastGate \/ given[c] = "commands" => approver[c] # "" \/ c \in early
  /\ given[c] = "reverse" \/ c \in early =>
       approver[c] # "" \/ UserRollsBack(c)

Gated == \A c \in Calls : IsApproved(c)

\* The device may hold the commands of a request that was rolled back while its call is
\* between the commands and the verdict on them.
Undone ==
  \A c \in Calls :
    status[c] = "rolled_back" => given[c] = "reverse" \/ pc[c] \in {"post", "undo", "failing"}

IInv ==
  /\ TypeOK
  /\ RequestsSound
  /\ TargetsSound
  /\ LocksSound
  /\ SlotsSound
  /\ Gated
  /\ Undone

-----------------------------------------------------------------------------
(* Slots *)

\* A call that is busy holds a slot, so that one more free slot is no more than there are.
LEMMA SlotsLeft ==
  ASSUME IInv, NEW c \in Busy
  PROVE  slots < Slots
<1>1. IsFiniteSet(Busy)
  BY PipelineAssumption, FS_Subset DEF Busy
<1>2. Cardinality(Busy) \in Nat /\ Cardinality(Busy) # 0
  BY <1>1, FS_CardinalityType, FS_EmptySet
<1>3. slots \in 0..Slots /\ slots + Cardinality(Busy) = Slots /\ Slots \in Nat
  BY PipelineAssumption DEF IInv, SlotsSound, TypeOK
<1> QED BY <1>2, <1>3

\* The slots are accounted for if one call becomes busy or ceases to be and takes a slot or
\* gives it back.
LEMMA SlotAccount ==
  ASSUME IInv, NEW c \in Calls,
         \/ Busy' = Busy /\ slots' = slots
         \/ c \notin Busy /\ Busy' = Busy \cup {c} /\ slots' = slots - 1
         \/ c \in Busy /\ Busy' = Busy \ {c} /\ slots' = slots + 1
  PROVE  SlotsSound'
<1>1. IsFiniteSet(Busy) /\ Cardinality(Busy) \in Nat
  BY PipelineAssumption, FS_Subset, FS_CardinalityType DEF Busy
<1>2. /\ Cardinality(Busy \cup {c}) = IF c \in Busy THEN Cardinality(Busy) ELSE Cardinality(Busy) + 1
      /\ Cardinality(Busy \ {c}) = IF c \in Busy THEN Cardinality(Busy) - 1 ELSE Cardinality(Busy)
  BY <1>1, FS_AddElement, FS_RemoveElement
<1>3. slots \in 0..Slots /\ slots + Cardinality(Busy) = Slots /\ Slots \in Nat
  BY PipelineAssumption DEF IInv, SlotsSound, TypeOK
<1> DEFINE n == Cardinality(Busy)
<1>4. slots' + Cardinality(Busy') = slots + n
  <2>1. n \in Nat /\ slots \in Int
    BY <1>1, <1>3
  <2>2. CASE Busy' = Busy /\ slots' = slots
    BY <2>2
  <2>3. CASE c \notin Busy /\ Busy' = Busy \cup {c} /\ slots' = slots - 1
    <3>1. Cardinality(Busy') = n + 1
      BY <1>2, <2>3
    <3> HIDE DEF n
    <3> QED BY <2>1, <2>3, <3>1
  <2>4. CASE c \in Busy /\ Busy' = Busy \ {c} /\ slots' = slots + 1
    <3>1. Cardinality(Busy') = n - 1
      BY <1>2, <2>4
    <3> HIDE DEF n
    <3> QED BY <2>1, <2>4, <3>1
  <2> QED BY <2>2, <2>3, <2>4
<1> QED BY <1>3, <1>4 DEF SlotsSound

LEMMA NextKeepsSlotsSound ==
  ASSUME IInv, [Next]_vars
  PROVE  SlotsSound'
<1> USE DEF Goto
<1>1. pc \in [Threads -> Phases] /\ Calls \subseteq Threads /\ Rollbacks \subseteq Threads
      /\ Calls \cap Rollbacks = {}
  BY PipelineAssumption DEF IInv, TypeOK, Threads
<1>2. CASE pc' = pc /\ slots' = slots
  BY <1>2, IInv DEF IInv, SlotsSound, Busy
<1>3. ASSUME NEW t \in Threads, Undo(t) \/ UndoFails(t) \/ CheckRollback(t)
      PROVE  SlotsSound'
  <2>1. Busy' = Busy /\ slots' = slots
    BY <1>1, <1>3 DEF Undo, UndoFails, CheckRollback, AfterUndo, Busy, SlotPhases
  <2> QED BY <2>1 DEF IInv, SlotsSound
<1>4. ASSUME NEW t \in Rollbacks, NEW c \in Calls, StartRollback(t, c)
      PROVE  SlotsSound'
  <2>1. Busy' = Busy /\ slots' = slots
    BY <1>1, <1>4 DEF StartRollback, Busy
  <2> QED BY <2>1 DEF IInv, SlotsSound
<1>5. ASSUME NEW c \in Calls, TakeSlot(c)
      PROVE  SlotsSound'
  <2>1. c \notin Busy /\ Busy' = Busy \cup {c} /\ slots' = slots - 1
    BY <1>1, <1>5 DEF TakeSlot, Busy, SlotPhases
  <2> QED BY <2>1, SlotAccount
<1>6. ASSUME NEW c \in Calls, MarkFailed(c) \/ Close(c)
      PROVE  SlotsSound'
  <2>1. c \in Busy /\ Busy' = Busy \ {c} /\ slots' = slots + 1
    BY <1>1, <1>6 DEF MarkFailed, Close, Busy, SlotPhases
  <2> QED BY <2>1, SlotAccount
<1>7. ASSUME NEW c \in Calls,
             \/ \E x \in Changes, low \in BOOLEAN : Submit(c, x, low)
             \/ \E open \in BOOLEAN : Gate(c, open)
             \/ PreSnapshot(c) \/ MarkExecuting(c) \/ Deny(c) \/ Raise(c)
             \/ Apply(c) \/ ApplyFails(c) \/ PostSnapshot(c)
      PROVE  SlotsSound'
  <2>1. Busy' = Busy /\ slots' = slots
    BY <1>1, <1>7 DEF Submit, Gate, PreSnapshot, MarkExecuting, Deny, Raise, Apply, ApplyFails,
       PostSnapshot, Busy, SlotPhases
  <2> QED BY <2>1 DEF IInv, SlotsSound
<1> QED
  BY <1>2, <1>3, <1>4, <1>5, <1>6, <1>7 DEF Next, Proceed, ProceedCall, WantLock, TakeLock,
     ApproveChecks, ApproveSets, ReplaceLock, vars

-----------------------------------------------------------------------------
(* Types *)

\* The names of phases and statuses.
LEMMA PhaseNames ==
  /\ {"new", "created", "ready", "admitted", "done", "pre", "apply", "post", "undo", "check",
      "closing", "failing"} = Phases
  /\ {"pending", "approved", "executing", "completed", "failed", "rolled_back"} = Statuses
BY DEF Phases, LockPhases, SlotPhases, Statuses

\* A change and its rollback turn a configuration into a configuration.
LEMMA RunKeepsLines ==
  ASSUME NEW x \in Commands, NEW lines \in SUBSET Lines
  PROVE  Run(x, lines) \in SUBSET Lines /\ RollbackOf(x) \in Commands
<1>1. CASE x \in [op : {"set", "remove"}, line : Lines]
  BY <1>1 DEF Run, RollbackOf, Commands
<1>2. CASE x = [op |-> "blank"]
  BY <1>2 DEF Run, RollbackOf, Commands
<1> QED
  BY <1>1, <1>2 DEF Commands

\* TypeOK by what the variables are about.
RequestTypes ==
  /\ cmd \in [Calls -> Changes \cup {None}]
  /\ status \in [Calls -> Statuses \cup {None}]
  /\ approver \in [Calls -> {"", "auto", "admin"}]
  /\ pre \in [Calls -> SUBSET SUBSET Lines]
  /\ completed \in SUBSET Calls /\ approving \in SUBSET Calls /\ early \in SUBSET Calls
  /\ given \in [Calls -> {"nothing", "commands", "reverse"}]

ThreadTypes ==
  /\ pc \in [Threads -> Phases]
  /\ target \in [Threads -> Calls \cup {None}]

LockTypes ==
  /\ grip \in [Threads -> {"none", "waiting", "held"}]
  /\ gen \in [Threads -> 0..MaxGen]
  /\ outer \in [Threads -> 0..MaxGen \cup {None}]
  /\ holder \in [0..MaxGen -> Threads \cup {None}]
  /\ lockGen \in 0..MaxGen

OtherTypes ==
  /\ mode \in [approval : BOOLEAN, autoRollback : BOOLEAN, raises : BOOLEAN]
  /\ slots \in 0..Slots
  /\ config \in SUBSET Lines

LEMMA TypesInParts == TypeOK <=> RequestTypes /\ ThreadTypes /\ LockTypes /\ OtherTypes
BY DEF TypeOK, RequestTypes, ThreadTypes, LockTypes, OtherTypes

LEMMA NextKeepsRequestTypes ==
  ASSUME IInv, [Next]_vars
  PROVE  RequestTypes'
<1> USE PhaseNames DEF RequestTypes, reqVars, SetStatus, Conclude, history, Give, NoteEarly
<1> RequestTypes
  BY TypesInParts DEF IInv
<1>1. ASSUME NEW t \in Threads, Proceed(t)
      PROVE  RequestTypes'
  <2>1. pc[t] = "undo" => target[t] \in Calls
    BY DEF IInv, TargetsSound
  <2> QED
    BY <1>1, <2>1 DEF Proceed, WantLock, TakeLock, Undo, UndoFails, CheckRollback, Goto
<1>2. ASSUME NEW c \in Calls, NEW x \in Changes, NEW low \in BOOLEAN, Submit(c, x, low)
      PROVE  RequestTypes'
  BY <1>2 DEF Submit
<1>3. ASSUME NEW c \in Calls, NEW open \in BOOLEAN, Gate(c, open)
      PROVE  RequestTypes'
  BY <1>3 DEF Gate
<1>4. ASSUME NEW c \in Calls, PreSnapshot(c)
      PROVE  RequestTypes'
  <2>1. PICK snapshot \in {{}, {config}} : pre' = [pre EXCEPT ![c] = snapshot]
    BY <1>4 DEF PreSnapshot
  <2>2. config \in SUBSET Lines
    BY DEF IInv, TypeOK
  <2>3. {config} \in SUBSET SUBSET Lines /\ {} \in SUBSET SUBSET Lines
    BY <2>2
  <2>4. pre' \in [Calls -> SUBSET SUBSET Lines]
    BY <2>1, <2>3
  <2> QED BY <1>4, <2>4 DEF PreSnapshot
<1>5. ASSUME NEW c \in Calls, PostSnapshot(c)
      PROVE  RequestTypes'
  <2>1. status' \in [Calls -> Statuses \cup {None}] /\ completed' \in SUBSET Calls
    BY <1>5 DEF PostSnapshot
  <2> QED BY <1>5, <2>1 DEF PostSnapshot
<1>6. ASSUME NEW c \in Calls, ApproveChecks(c) \/ ApproveSets(c)
      PROVE  RequestTypes'
  BY <1>6 DEF ApproveChecks, ApproveSets
<1>7. ASSUME NEW c \in Calls, MarkExecuting(c) \/ Deny(c) \/ Raise(c) \/ TakeSlot(c) \/ Close(c)
      PROVE  RequestTypes'
  BY <1>7 DEF MarkExecuting, Deny, Raise, TakeSlot, Close
<1>8. ASSUME NEW c \in Calls, Apply(c) \/ ApplyFails(c) \/ MarkFailed(c)
      PROVE  RequestTypes'
  BY <1>8 DEF Apply, ApplyFails, MarkFailed
<1>9. ASSUME NEW t \in Rollbacks, NEW c \in Calls, StartRollback(t, c)
      PROVE  RequestTypes'
  BY <1>9 DEF StartRollback
<1>10. CASE ReplaceLock \/ UNCHANGED vars
  BY <1>10 DEF ReplaceLock, vars
<1> HIDE DEF RequestTypes
<1> QED
  BY <1>1, <1>2, <1>3, <1>4, <1>5, <1>6, <1>7, <1>8, <1>9, <1>10 DEF Next, ProceedCall

LEMMA NextKeepsThreadTypes ==
  ASSUME IInv, [Next]_vars
  PROVE  ThreadTypes'
<1> USE PhaseNames DEF ThreadTypes, Goto
<1> Calls \subseteq Threads /\ Rollbacks \subseteq Threads
  BY DEF Threads
<1> ThreadTypes
  BY TypesInParts DEF IInv
<1>1. ASSUME NEW t \in Threads, Proceed(t)
      PROVE  ThreadTypes'
  BY <1>1 DEF Proceed, WantLock, TakeLock, Undo, UndoFails, CheckRollback, AfterUndo
<1>2. ASSUME NEW c \in Calls,
             \/ \E x \in Changes, low \in BOOLEAN : Submit(c, x, low)
             \/ \E open \in BOOLEAN : Gate(c, open)
             \/ PreSnapshot(c) \/ PostSnapshot(c)
      PROVE  ThreadTypes'
  BY <1>2 DEF Submit, Gate, PreSnapshot, PostSnapshot
<1>3. ASSUME NEW c \in Calls,
             \/ ApproveChecks(c) \/ ApproveSets(c) \/ MarkExecuting(c) \/ Deny(c) \/ Raise(c) \/ TakeSlot(c)
             \/ Close(c) \/ Apply(c) \/ ApplyFails(c) \/ MarkFailed(c)
      PROVE  ThreadTypes'
  BY <1>3 DEF ApproveChecks, ApproveSets, MarkExecuting, Deny, Raise, TakeSlot, Close, Apply,
     ApplyFails, MarkFailed
<1>4. ASSUME NEW t \in Rollbacks, NEW c \in Calls, StartRollback(t, c)
      PROVE  ThreadTypes'
  BY <1>4 DEF StartRollback
<1>5. CASE ReplaceLock \/ UNCHANGED vars
  BY <1>5 DEF ReplaceLock, vars
<1> QED
  BY <1>1, <1>2, <1>3, <1>4, <1>5 DEF Next, ProceedCall

LEMMA NextKeepsLockTypes ==
  ASSUME IInv, [Next]_vars
  PROVE  LockTypes'
<1> USE DEF LockTypes, lockVars, ReleaseLock
<1> Calls \subseteq Threads /\ 0 \in 0..MaxGen
  BY PipelineAssumption DEF Threads
<1> LockTypes
  BY TypesInParts DEF IInv
<1>1. ASSUME NEW t \in Threads, WantLock(t) \/ TakeLock(t)
      PROVE  LockTypes'
  <2>1. CASE WantLock(t)
    BY <2>1 DEF WantLock
  <2>2. CASE TakeLock(t)
    BY <2>2 DEF TakeLock
  <2> QED BY <1>1, <2>1, <2>2
<1>2. ASSUME NEW t \in Threads, ReleaseLock(t), UNCHANGED lockGen
      PROVE  LockTypes'
  BY <1>2
<1>3. ASSUME NEW c \in Calls, Apply(c)
      PROVE  LockTypes'
  BY <1>3 DEF Apply
<1>4. ASSUME NEW c \in Calls, Close(c)
      PROVE  LockTypes'
  BY <1>4 DEF Close
<1>5. CASE ReplaceLock
  BY <1>5, PipelineAssumption DEF ReplaceLock
<1>6. CASE UNCHANGED <<lockVars, lockGen>>
  BY <1>6
<1>7. ASSUME NEW t \in Threads, Undo(t) \/ UndoFails(t) \/ CheckRollback(t)
      PROVE  LockTypes'
  BY <1>7, <1>2 DEF Undo, UndoFails, CheckRollback
<1>8. ASSUME NEW c \in Calls, PreSnapshot(c) \/ ApplyFails(c) \/ PostSnapshot(c)
      PROVE  LockTypes'
  BY <1>8, <1>2 DEF PreSnapshot, ApplyFails, PostSnapshot
<1> HIDE DEF LockTypes, ReleaseLock
<1> QED
  BY <1>1, <1>3, <1>4, <1>5, <1>6, <1>7, <1>8 DEF Next, Proceed, ProceedCall, Submit, Gate,
     ApproveChecks, ApproveSets, MarkExecuting, Deny, Raise, TakeSlot, MarkFailed, StartRollback, vars

LEMMA NextKeepsOtherTypes ==
  ASSUME IInv, [Next]_vars
  PROVE  OtherTypes'
<1> USE DEF OtherTypes, Goto, Give
<1> OtherTypes
  BY TypesInParts DEF IInv
<1>1. ASSUME NEW t \in Threads, Undo(t) \/ UndoFails(t)
      PROVE  OtherTypes'
  <2>1. target[t] \in Calls /\ Run(RollbackOf(cmd[target[t]]), config) \in SUBSET Lines
    BY <1>1, RunKeepsLines DEF Undo, UndoFails, IInv, RequestsSound, TargetsSound
  <2> QED BY <1>1, <2>1 DEF Undo, UndoFails
<1>2. ASSUME NEW c \in Calls, Apply(c) \/ ApplyFails(c)
      PROVE  OtherTypes'
  <2>1. Run(cmd[c], config) \in SUBSET Lines
    BY <1>2, RunKeepsLines DEF Apply, ApplyFails, IInv, RequestsSound
  <2> QED BY <1>2, <2>1 DEF Apply, ApplyFails
<1>3. ASSUME NEW c \in Calls, TakeSlot(c)
      PROVE  OtherTypes'
  BY <1>3, PipelineAssumption DEF TakeSlot
<1>4. ASSUME NEW c \in Calls, MarkFailed(c) \/ Close(c)
      PROVE  OtherTypes'
  <2>1. slots < Slots
    BY <1>4, SlotsLeft DEF MarkFailed, Close, Busy, SlotPhases
  <2> QED BY <1>4, <2>1, PipelineAssumption DEF MarkFailed, Close
<1>5. CASE UNCHANGED <<mode, slots, config>>
  BY <1>5
<1> HIDE DEF OtherTypes
<1> QED
  BY <1>1, <1>2, <1>3, <1>4, <1>5 DEF Next, Proceed, ProceedCall, WantLock, TakeLock,
     CheckRollback, Submit, Gate, ApproveChecks, ApproveSets, PreSnapshot, MarkExecuting, Deny,
     Raise, PostSnapshot, StartRollback, ReplaceLock, vars

-----------------------------------------------------------------------------
(* Requests and what threads work on *)

LEMMA NextKeepsRequestsSound ==
  ASSUME IInv, [Next]_vars
  PROVE  RequestsSound'
<1> USE DEF RequestsSound, reqVars, SetStatus, Conclude, Goto, history, Give, NoteEarly
<1> /\ RequestsSound /\ Calls \subseteq Threads /\ Calls \cap Rollbacks = {}
    /\ pc \in [Threads -> Phases] /\ cmd \in [Calls -> Changes \cup {None}] /\ Changes \subseteq Commands
    /\ given \in [Calls -> {"nothing", "commands", "reverse"}]
    /\ status \in [Calls -> Statuses \cup {None}]
    /\ None \notin {"pending", "approved", "executing", "completed", "failed", "rolled_back"}
  BY PipelineAssumption DEF IInv, TypeOK, Threads, Statuses
<1>1. ASSUME NEW t \in Threads, Undo(t) \/ UndoFails(t) \/ CheckRollback(t)
      PROVE  RequestsSound'
  <2>1. pc[t] \in {"undo", "check"} => target[t] \in Calls /\ pc[target[t]] # "new"
    BY DEF IInv, TargetsSound
  <2>2. t \in Calls => target[t] = t
    BY DEF IInv, TargetsSound
  <2>3. t \notin Calls => \A c \in Calls : pc'[c] = pc[c]
    BY <1>1 DEF Undo, UndoFails, CheckRollback
  <2> QED
    <3>1. CASE Undo(t)
      BY <3>1, <2>1, <2>2, <2>3 DEF Undo, AfterUndo
    <3>2. CASE UndoFails(t)
      BY <3>2, <2>1, <2>2, <2>3 DEF UndoFails, AfterUndo
    <3>3. CASE CheckRollback(t)
      BY <3>3, <2>1, <2>2, <2>3 DEF CheckRollback, AfterUndo
    <3> QED BY <1>1, <3>1, <3>2, <3>3
<1>2. ASSUME NEW c \in Calls, NEW x \in Changes, NEW low \in BOOLEAN, Submit(c, x, low)
      PROVE  RequestsSound'
  BY <1>2 DEF Submit
<1>3. ASSUME NEW c \in Calls, NEW open \in BOOLEAN, Gate(c, open)
      PROVE  RequestsSound'
  BY <1>3 DEF Gate
<1>4. ASSUME NEW c \in Calls, ApproveChecks(c) \/ ApproveSets(c)
      PROVE  RequestsSound'
  BY <1>4 DEF ApproveChecks, ApproveSets
<1>5. ASSUME NEW c \in Calls, PreSnapshot(c) \/ MarkExecuting(c) \/ Deny(c) \/ Raise(c) \/ TakeSlot(c)
      PROVE  RequestsSound'
  BY <1>5 DEF PreSnapshot, MarkExecuting, Deny, Raise, TakeSlot
<1>6. ASSUME NEW c \in Calls, Apply(c) \/ ApplyFails(c) \/ MarkFailed(c) \/ Close(c)
      PROVE  RequestsSound'
  BY <1>6 DEF Apply, ApplyFails, MarkFailed, Close
<1>7. ASSUME NEW c \in Calls, PostSnapshot(c)
      PROVE  RequestsSound'
  BY <1>7 DEF PostSnapshot
<1>8. ASSUME NEW t \in Rollbacks, NEW c \in Calls, StartRollback(t, c)
      PROVE  RequestsSound'
  <2>1. \A d \in Calls : pc'[d] = pc[d]
    BY <1>8 DEF StartRollback
  <2>2. status[c] # None
    BY <1>8, PipelineAssumption DEF StartRollback
  <2> QED BY <1>8, <2>1, <2>2 DEF StartRollback
<1>9. CASE UNCHANGED <<mode, reqVars, pc, approving, history>>
  BY <1>9
<1> HIDE DEF RequestsSound
<1> QED
  BY <1>1, <1>2, <1>3, <1>4, <1>5, <1>6, <1>7, <1>8, <1>9 DEF Next, Proceed, ProceedCall,
     WantLock, TakeLock, ReplaceLock, vars

LEMMA NextKeepsTargetsSound ==
  ASSUME IInv, [Next]_vars
  PROVE  TargetsSound'
<1> USE DEF TargetsSound, Goto
<1> TargetsSound /\ Calls \subseteq Threads /\ Calls \cap Rollbacks = {}
    /\ Rollbacks \subseteq Threads /\ pc \in [Threads -> Phases]
    /\ target \in [Threads -> Calls \cup {None}]
  BY PipelineAssumption DEF IInv, Threads, TypeOK
<1>1. ASSUME NEW t \in Threads, Undo(t) \/ UndoFails(t) \/ CheckRollback(t)
      PROVE  TargetsSound'
  BY <1>1 DEF Undo, UndoFails, CheckRollback, AfterUndo
<1>2. ASSUME NEW c \in Calls,
             \/ \E x \in Changes, low \in BOOLEAN : Submit(c, x, low)
             \/ \E open \in BOOLEAN : Gate(c, open)
             \/ PreSnapshot(c) \/ PostSnapshot(c)
      PROVE  TargetsSound'
  <2>1. ASSUME NEW x \in Changes, NEW low \in BOOLEAN, Submit(c, x, low)
        PROVE  TargetsSound'
    BY <2>1 DEF Submit
  <2>2. CASE \E open \in BOOLEAN : Gate(c, open)
    BY <2>2 DEF Gate
  <2>3. CASE PreSnapshot(c) \/ PostSnapshot(c)
    BY <2>3 DEF PreSnapshot, PostSnapshot
  <2> QED BY <1>2, <2>1, <2>2, <2>3
<1>3. ASSUME NEW c \in Calls,
             \/ MarkExecuting(c) \/ Deny(c) \/ Raise(c) \/ TakeSlot(c)
             \/ Close(c) \/ Apply(c) \/ ApplyFails(c) \/ MarkFailed(c)
      PROVE  TargetsSound'
  BY <1>3 DEF MarkExecuting, Deny, Raise, TakeSlot, Close, Apply, ApplyFails, MarkFailed
<1>4. ASSUME NEW t \in Rollbacks, NEW c \in Calls, StartRollback(t, c)
      PROVE  TargetsSound'
  <2>1. pc[c] # "new"
    BY <1>4, PipelineAssumption DEF StartRollback, IInv, RequestsSound
  <2> QED BY <1>4, <2>1 DEF StartRollback
<1>5. CASE UNCHANGED <<pc, target>>
  BY <1>5
<1> HIDE DEF TargetsSound
<1> QED
  BY <1>1, <1>2, <1>3, <1>4, <1>5 DEF Next, Proceed, ProceedCall, WantLock, TakeLock,
     ApproveChecks, ApproveSets, ReplaceLock, vars

-----------------------------------------------------------------------------
(* Locks *)

\* A call that goes from phase to phase and holds no lock on the way.
LEMMA PhaseKeepsLocks ==
  ASSUME IInv, NEW t \in Threads, NEW to \in Phases,
         pc' = [pc EXCEPT ![t] = to], UNCHANGED lockVars,
         grip[t] = "none", ~ KeepsOuter(t),
         t \in Calls => to \notin {"post", "undo", "check", "closing"}
  PROVE  LocksSound'
<1>1. pc \in [Threads -> Phases] /\ LocksSound
  BY DEF IInv, TypeOK
<1>2. \A s \in Threads : pc'[s] = IF s = t THEN to ELSE pc[s]
  BY <1>1
<1>3. \A s \in Threads : KeepsOuter(s)' <=> KeepsOuter(s)
  BY <1>2 DEF KeepsOuter
<1>4. \A s \in Threads : grip[s] # "none" => pc'[s] \in LockPhases
  BY <1>1, <1>2 DEF LocksSound
<1>5. \A g \in 0..MaxGen : holder[g] \in Threads \cup {None}
  BY DEF IInv, TypeOK
<1> QED
  BY <1>1, <1>3, <1>4, <1>5 DEF LocksSound, lockVars

\* Leaving a phase gives its lock back and no other.
LEMMA ReleaseKeepsLocks ==
  ASSUME IInv, NEW t \in Threads, NEW to \in Phases,
         pc' = [pc EXCEPT ![t] = to], ReleaseLock(t),
         KeepsOuter(t) <=> (t \in Calls /\ to \in {"post", "undo", "check", "closing"})
  PROVE  LocksSound'
<1>1. /\ pc \in [Threads -> Phases] /\ LocksSound
      /\ grip \in [Threads -> {"none", "waiting", "held"}]
      /\ holder \in [0..MaxGen -> Threads \cup {None}]
      /\ gen[t] \in 0..MaxGen /\ holder[gen[t]] = t
  BY DEF IInv, TypeOK, LocksSound, ReleaseLock
<1>2. \A g \in 0..MaxGen : holder'[g] = IF g = gen[t] THEN None ELSE holder[g]
  BY <1>1 DEF ReleaseLock
<1>3. \A s \in Threads : /\ grip'[s] = IF s = t THEN "none" ELSE grip[s]
                         /\ pc'[s] = IF s = t THEN to ELSE pc[s]
  BY <1>1 DEF ReleaseLock
<1>4. \A s \in Threads : KeepsOuter(s)' <=> KeepsOuter(s)
  BY <1>3 DEF KeepsOuter
<1>5. outer' = outer /\ \A s \in Threads \ {t} : gen'[s] = gen[s]
  BY DEF IInv, TypeOK, ReleaseLock
<1>6. ASSUME NEW s \in Threads
      PROVE  /\ grip'[s] # "none" => pc'[s] \in LockPhases
             /\ grip'[s] = "held" => holder'[gen'[s]] = s
             /\ KeepsOuter(s)' =>
                  /\ outer'[s] \in 0..MaxGen /\ holder'[outer'[s]] = s
                  /\ grip'[s] = "held" => gen'[s] # outer'[s]
  <2>1. gen[s] \in 0..MaxGen
    BY DEF IInv, TypeOK
  <2>2. CASE s = t
    <3>1. grip'[t] = "none" /\ grip[t] = "held"
      BY <1>3 DEF ReleaseLock
    <3>2. KeepsOuter(t) => outer[t] \in 0..MaxGen /\ holder[outer[t]] = t /\ gen[t] # outer[t]
      BY <1>1, <3>1 DEF LocksSound
    <3> QED BY <1>2, <1>4, <1>5, <2>2, <3>1, <3>2
  <2>3. CASE s # t
    <3>1. grip'[s] = grip[s] /\ pc'[s] = pc[s]
      BY <1>3, <2>3
    <3>2. \A g \in 0..MaxGen : holder[g] = s => holder'[g] = s
      BY <1>1, <1>2, <2>3
    <3> QED BY <1>1, <1>4, <1>5, <2>1, <2>3, <3>1, <3>2 DEF LocksSound
  <2> QED BY <2>2, <2>3
<1>7. ASSUME NEW g \in 0..MaxGen, NEW s \in Threads, holder'[g] = s
      PROVE  (grip'[s] = "held" /\ gen'[s] = g) \/ (KeepsOuter(s)' /\ outer'[s] = g)
  <2>1. g # gen[t] /\ holder[g] = s
    BY <1>2, <1>7, PipelineAssumption
  <2>2. (grip[s] = "held" /\ gen[s] = g) \/ (KeepsOuter(s) /\ outer[s] = g)
    BY <1>1, <2>1, PipelineAssumption DEF LocksSound
  <2> QED BY <1>3, <1>4, <1>5, <2>1, <2>2
<1>8. \A g \in 0..MaxGen : holder'[g] \in Threads \cup {None}
  BY <1>1, <1>2
<1> QED BY <1>6, <1>7, <1>8 DEF LocksSound

\* Asking for a lock, and getting it.
LEMMA LockingKeepsLocks ==
  ASSUME IInv, NEW t \in Threads, WantLock(t) \/ TakeLock(t)
  PROVE  LocksSound'
<1>1. /\ LocksSound /\ pc' = pc /\ outer' = outer /\ lockGen \in 0..MaxGen
      /\ grip \in [Threads -> {"none", "waiting", "held"}]
      /\ gen \in [Threads -> 0..MaxGen]
      /\ holder \in [0..MaxGen -> Threads \cup {None}]
  BY DEF IInv, TypeOK, WantLock, TakeLock
<1>2. \A s \in Threads : KeepsOuter(s)' <=> KeepsOuter(s)
  BY <1>1 DEF KeepsOuter
<1>3. CASE WantLock(t)
  BY <1>1, <1>2, <1>3 DEF WantLock, LocksSound
<1>4. CASE TakeLock(t)
  <2>1. /\ grip[t] = "waiting" /\ holder[gen[t]] = None /\ gen' = gen
        /\ \A s \in Threads : grip'[s] = IF s = t THEN "held" ELSE grip[s]
        /\ \A g \in 0..MaxGen : holder'[g] = IF g = gen[t] THEN t ELSE holder[g]
    BY <1>1, <1>4 DEF TakeLock
  <2>2. ASSUME NEW s \in Threads
        PROVE  /\ grip'[s] # "none" => pc'[s] \in LockPhases
               /\ grip'[s] = "held" => holder'[gen'[s]] = s
               /\ KeepsOuter(s)' =>
                    /\ outer'[s] \in 0..MaxGen /\ holder'[outer'[s]] = s
                    /\ grip'[s] = "held" => gen'[s] # outer'[s]
    BY <1>1, <1>2, <2>1, PipelineAssumption DEF LocksSound
  <2>3. ASSUME NEW g \in 0..MaxGen, NEW s \in Threads, holder'[g] = s
        PROVE  (grip'[s] = "held" /\ gen'[s] = g) \/ (KeepsOuter(s)' /\ outer'[s] = g)
    BY <1>1, <1>2, <2>1, <2>3, PipelineAssumption DEF LocksSound
  <2>4. \A g \in 0..MaxGen : holder'[g] \in Threads \cup {None}
    BY <1>1, <2>1
  <2> QED BY <2>2, <2>3, <2>4 DEF LocksSound
<1> QED BY <1>3, <1>4

\* The lock under which the change was made becomes the one that the call keeps ...
LEMMA ApplyKeepsLocks ==
  ASSUME IInv, NEW c \in Calls, Apply(c)
  PROVE  LocksSound'
<1>1. /\ LocksSound /\ holder' = holder /\ c \in Threads
      /\ grip[c] = "held" /\ pc[c] = "apply"
      /\ pc \in [Threads -> Phases]
      /\ grip \in [Threads -> {"none", "waiting", "held"}]
      /\ gen \in [Threads -> 0..MaxGen]
      /\ outer \in [Threads -> 0..MaxGen \cup {None}]
      /\ holder \in [0..MaxGen -> Threads \cup {None}]
  BY DEF IInv, TypeOK, Apply, Goto, Threads
<1>2. \A s \in Threads : /\ grip'[s] = IF s = c THEN "none" ELSE grip[s]
                         /\ s # c => gen'[s] = gen[s]
                         /\ pc'[s] = IF s = c THEN "post" ELSE pc[s]
                         /\ outer'[s] = IF s = c THEN gen[c] ELSE outer[s]
  BY <1>1 DEF Apply, Goto
<1>3. \A s \in Threads : KeepsOuter(s)' <=> s = c \/ KeepsOuter(s)
  BY <1>2 DEF KeepsOuter
<1>4. ~ KeepsOuter(c)
  BY <1>1 DEF KeepsOuter
<1>5. ASSUME NEW s \in Threads
      PROVE  /\ grip'[s] # "none" => pc'[s] \in LockPhases
             /\ grip'[s] = "held" => holder'[gen'[s]] = s
             /\ KeepsOuter(s)' =>
                  /\ outer'[s] \in 0..MaxGen /\ holder'[outer'[s]] = s
                  /\ grip'[s] = "held" => gen'[s] # outer'[s]
  BY <1>1, <1>2, <1>3 DEF LocksSound
<1>6. ASSUME NEW g \in 0..MaxGen, NEW s \in Threads, holder'[g] = s
      PROVE  (grip'[s] = "held" /\ gen'[s] = g) \/ (KeepsOuter(s)' /\ outer'[s] = g)
  BY <1>1, <1>2, <1>3, <1>4, <1>6, PipelineAssumption DEF LocksSound
<1> QED BY <1>1, <1>5, <1>6 DEF LocksSound

\* ... until it has closed.
LEMMA CloseKeepsLocks ==
  ASSUME IInv, NEW c \in Calls, Close(c)
  PROVE  LocksSound'
<1>1. /\ LocksSound /\ grip' = grip /\ gen' = gen /\ c \in Threads
      /\ pc[c] = "closing"
      /\ pc \in [Threads -> Phases]
      /\ grip \in [Threads -> {"none", "waiting", "held"}]
      /\ gen \in [Threads -> 0..MaxGen]
      /\ outer \in [Threads -> 0..MaxGen \cup {None}]
      /\ holder \in [0..MaxGen -> Threads \cup {None}]
  BY DEF IInv, TypeOK, Close, Goto, Threads
<1>2. /\ KeepsOuter(c) /\ outer[c] \in 0..MaxGen /\ holder[outer[c]] = c /\ grip[c] = "none"
  BY <1>1 DEF KeepsOuter, LocksSound, LockPhases
<1>3. \A s \in Threads : /\ pc'[s] = IF s = c THEN "done" ELSE pc[s]
                         /\ outer'[s] = IF s = c THEN None ELSE outer[s]
  BY <1>1 DEF Close, Goto
<1>4. \A g \in 0..MaxGen : holder'[g] = IF g = outer[c] THEN None ELSE holder[g]
  BY <1>1, <1>2 DEF Close
<1>5. \A s \in Threads : KeepsOuter(s)' <=> s # c /\ KeepsOuter(s)
  BY <1>3 DEF KeepsOuter
<1>6. ASSUME NEW s \in Threads
      PROVE  /\ grip'[s] # "none" => pc'[s] \in LockPhases
             /\ grip'[s] = "held" => holder'[gen'[s]] = s
             /\ KeepsOuter(s)' =>
                  /\ outer'[s] \in 0..MaxGen /\ holder'[outer'[s]] = s
                  /\ grip'[s] = "held" => gen'[s] # outer'[s]
  BY <1>1, <1>2, <1>3, <1>4, <1>5 DEF LocksSound
<1>7. ASSUME NEW g \in 0..MaxGen, NEW s \in Threads, holder'[g] = s
      PROVE  (grip'[s] = "held" /\ gen'[s] = g) \/ (KeepsOuter(s)' /\ outer'[s] = g)
  <2>1. holder[g] = s /\ g # outer[c]
    BY <1>4, <1>7, PipelineAssumption
  <2>2. (grip[s] = "held" /\ gen[s] = g) \/ (KeepsOuter(s) /\ outer[s] = g)
    BY <1>1, <2>1, PipelineAssumption DEF LocksSound
  <2> QED BY <1>1, <1>3, <1>5, <2>1, <2>2
<1>8. \A g \in 0..MaxGen : holder'[g] \in Threads \cup {None}
  BY <1>1, <1>4
<1> QED BY <1>6, <1>7, <1>8 DEF LocksSound

LEMMA NextKeepsLocksSound ==
  ASSUME IInv, [Next]_vars
  PROVE  LocksSound'
<1> /\ Calls \subseteq Threads /\ Rollbacks \subseteq Threads /\ Calls \cap Rollbacks = {}
    /\ LocksSound /\ grip \in [Threads -> {"none", "waiting", "held"}]
  BY PipelineAssumption DEF IInv, Threads, TypeOK
<1> USE DEF Goto
<1>1. ASSUME NEW t \in Threads, Proceed(t)
      PROVE  LocksSound'
  <2>1. CASE WantLock(t) \/ TakeLock(t)
    BY <2>1, LockingKeepsLocks
  <2>2. CASE Undo(t) \/ UndoFails(t) \/ CheckRollback(t)
    <3>1. PICK to \in Phases : pc' = [pc EXCEPT ![t] = to] /\ ReleaseLock(t)
                               /\ to \in IF t \in Calls THEN {"check", "closing"} ELSE {"check", "done"}
      BY <2>2, PhaseNames DEF Undo, UndoFails, CheckRollback, AfterUndo
    <3>2. KeepsOuter(t) <=> t \in Calls
      BY <2>2 DEF Undo, UndoFails, CheckRollback, KeepsOuter
    <3> QED BY <3>1, <3>2, ReleaseKeepsLocks
  <2> QED BY <1>1, <2>1, <2>2 DEF Proceed
<1>2. ASSUME NEW c \in Calls, PreSnapshot(c) \/ ApplyFails(c)
      PROVE  LocksSound'
  <2>1. PICK to \in {"ready", "failing"} : pc' = [pc EXCEPT ![c] = to] /\ ReleaseLock(c)
    BY <1>2 DEF PreSnapshot, ApplyFails
  <2>2. ~ KeepsOuter(c)
    BY <1>2 DEF PreSnapshot, ApplyFails, KeepsOuter
  <2> QED BY <2>1, <2>2, ReleaseKeepsLocks, PhaseNames
<1>3. ASSUME NEW c \in Calls, PostSnapshot(c)
      PROVE  LocksSound'
  <2>1. PICK to \in {"undo", "closing"} : pc' = [pc EXCEPT ![c] = to] /\ ReleaseLock(c)
    BY <1>3 DEF PostSnapshot
  <2>2. KeepsOuter(c)
    BY <1>3 DEF PostSnapshot, KeepsOuter
  <2> QED BY <2>1, <2>2, ReleaseKeepsLocks, PhaseNames
<1>4. ASSUME NEW c \in Calls, Apply(c) \/ Close(c)
      PROVE  LocksSound'
  BY <1>4, ApplyKeepsLocks, CloseKeepsLocks
<1>5. ASSUME NEW c \in Calls,
             \/ \E x \in Changes, low \in BOOLEAN : Submit(c, x, low)
             \/ \E open \in BOOLEAN : Gate(c, open)
             \/ MarkExecuting(c) \/ Deny(c) \/ Raise(c) \/ TakeSlot(c) \/ MarkFailed(c)
      PROVE  LocksSound'
  <2>1. /\ UNCHANGED lockVars
        /\ \/ pc[c] \in {"new", "ready", "admitted", "failing"}
           \/ pc[c] = "created"
    BY <1>5 DEF Submit, Gate, MarkExecuting, Deny, Raise, TakeSlot, MarkFailed
  <2>2. PICK to \in {"created", "pre", "done", "admitted", "apply"} : pc' = [pc EXCEPT ![c] = to]
    BY <1>5 DEF Submit, Gate, MarkExecuting, Deny, Raise, TakeSlot, MarkFailed
  <2>3. grip[c] = "none" /\ ~ KeepsOuter(c)
    BY <2>1 DEF LocksSound, LockPhases, KeepsOuter
  <2> QED BY <2>1, <2>2, <2>3, PhaseKeepsLocks, PhaseNames
<1>6. ASSUME NEW t \in Rollbacks, NEW c \in Calls, StartRollback(t, c)
      PROVE  LocksSound'
  <2>1. UNCHANGED lockVars /\ grip[t] = "none"
    BY <1>6 DEF StartRollback, LocksSound, LockPhases
  <2>2. PICK to \in {"undo", "done"} : pc' = [pc EXCEPT ![t] = to]
    BY <1>6 DEF StartRollback
  <2> QED BY <2>1, <2>2, PhaseKeepsLocks, PhaseNames DEF KeepsOuter
<1>7. CASE UNCHANGED <<pc, lockVars>>
  BY <1>7 DEF LocksSound, KeepsOuter, lockVars
<1> QED
  BY <1>1, <1>2, <1>3, <1>4, <1>5, <1>6, <1>7 DEF Next, ProceedCall, ApproveChecks, ApproveSets,
     ReplaceLock, vars

-----------------------------------------------------------------------------
(* The gate, and rollbacks that overtake their calls *)

LEMMA NextKeepsGated ==
  ASSUME IInv, [Next]_vars
  PROVE  Gated'
<1>0. /\ \A d \in Calls : IsApproved(d)
      /\ \A d \in Calls : pc[d] = "new" => d \notin early /\ given[d] = "nothing"
      /\ \A t \in Threads : pc[t] \in {"undo", "check"} => target[t] \in Calls
      /\ \A d \in Calls : target[d] = d
      /\ \A t \in Rollbacks : pc[t] = "new" => target[t] = None
  BY DEF IInv, Gated, TargetsSound, RequestsSound
<1> /\ Calls \subseteq Threads /\ Calls \cap Rollbacks = {} /\ Rollbacks \subseteq Threads
    /\ Threads = Calls \cup Rollbacks /\ None \notin Calls
    /\ pc \in [Threads -> Phases]
    /\ target \in [Threads -> Calls \cup {None}]
    /\ status \in [Calls -> Statuses \cup {None}]
    /\ approver \in [Calls -> {"", "auto", "admin"}]
    /\ given \in [Calls -> {"nothing", "commands", "reverse"}]
  BY PipelineAssumption DEF IInv, Threads, TypeOK
<1> USE DEF reqVars, history, SetStatus, Conclude, Goto, Give, NoteEarly, Gated, IsApproved, PastGate
\* The users' rollbacks go on.
<1>a. target' = target => \A d \in Calls : UserRollsBack(d)' <=> UserRollsBack(d)
  BY DEF UserRollsBack
<1>1. ASSUME NEW t \in Threads, Undo(t) \/ UndoFails(t) \/ CheckRollback(t)
      PROVE  Gated'
  <2>1. /\ approver' = approver /\ target' = target /\ pc[t] \in {"undo", "check"}
        /\ target[t] \in Calls
    BY <1>0, <1>1 DEF Undo, UndoFails, CheckRollback
  <2>2. PICK to \in {"check", "closing", "done"} :
          pc' = [pc EXCEPT ![t] = to] /\ (t \in Calls => to # "done")
    BY <1>1 DEF Undo, UndoFails, CheckRollback, AfterUndo
  <2>3. /\ status' = status \/ \E st : status' = [status EXCEPT ![target[t]] = st]
        /\ given' = given \/ given' = [given EXCEPT ![target[t]] = "reverse"]
    BY <1>1 DEF Undo, UndoFails, CheckRollback
  <2>4. /\ early \subseteq early' /\ early' \subseteq early \cup {target[t]}
        /\ status' # status /\ pc[target[t]] = "created" => target[t] \in early'
        /\ target[t] \in early' \ early => pc[target[t]] = "created"
    BY <1>1 DEF Undo, UndoFails, CheckRollback
  <2>5. ASSUME NEW d \in Calls
        PROVE  IsApproved(d)'
    <3>1. pc'[d] = pc[d] \/ (d = t /\ pc[d] \in PastGate)
      BY <2>1, <2>2
    <3>2. \/ t \in Rollbacks /\ UserRollsBack(target[t])
          \/ target[t] = t /\ t \in Calls /\ pc[t] \in PastGate
      BY <1>0, <2>1 DEF UserRollsBack
    <3>3. UserRollsBack(d)' <=> UserRollsBack(d)
      BY <1>a, <2>1
    <3>4. CASE d # target[t]
      <4>1. d # t \/ t \notin Calls
        BY <1>0, <3>4
      <4>2. pc'[d] = pc[d] /\ status'[d] = status[d] /\ given'[d] = given[d]
        BY <2>1, <2>2, <2>3, <3>4, <4>1
      <4>3. d \in early' <=> d \in early
        BY <2>4, <3>4
      <4> QED BY <1>0, <2>1, <3>3, <4>2, <4>3
    <3>5. CASE d = target[t] /\ t \in Rollbacks
      BY <1>0, <2>1, <2>2, <2>3, <2>4, <3>1, <3>2, <3>3, <3>5
    <3>6. CASE d = target[t] /\ t = target[t]
      BY <1>0, <2>1, <2>3, <2>4, <3>1, <3>3, <3>6
    <3> QED BY <1>0, <3>4, <3>5, <3>6
  <2> QED BY <2>5
<1>2. ASSUME NEW c \in Calls, \E x \in Changes, low \in BOOLEAN : Submit(c, x, low)
      PROVE  Gated'
  <2>1. /\ given' = given /\ early' = early /\ target' = target /\ pc[c] = "new"
        /\ pc' = [pc EXCEPT ![c] = "created"]
        /\ \/ status' = [status EXCEPT ![c] = "pending"]
           \/ \E a \in {"auto"} : approver' = [approver EXCEPT ![c] = a]
        /\ \E a : approver' = [approver EXCEPT ![c] = a]
        /\ \E st : status' = [status EXCEPT ![c] = st]
    BY <1>2 DEF Submit
  <2>2. \A d \in Calls \ {c} : /\ pc'[d] = pc[d] /\ status'[d] = status[d]
                              /\ approver'[d] = approver[d]
    BY <2>1
  <2>3. /\ pc'[c] = "created" /\ given'[c] = "nothing" /\ c \notin early'
        /\ status'[c] = "pending" \/ approver'[c] # ""
    BY <1>0, <2>1
  <2>4. IsApproved(c)'
    BY <2>3
  <2>5. ASSUME NEW d \in Calls \ {c}
        PROVE  IsApproved(d)'
    BY <1>0, <1>a, <2>1, <2>2
  <2> QED BY <2>4, <2>5
<1>3. ASSUME NEW c \in Calls, NEW open \in BOOLEAN, Gate(c, open)
      PROVE  Gated'
  <2>1. /\ approver' = approver /\ given' = given /\ early' = early /\ target' = target
        /\ status' = status \/ status' = [status EXCEPT ![c] = "failed"]
        /\ pc[c] = "created"
        /\ \/ pc' = [pc EXCEPT ![c] = "done"]
           \/ pc' = [pc EXCEPT ![c] = "pre"] /\ status[c] # "pending"
    BY <1>3 DEF Gate
  <2>2. ASSUME NEW d \in Calls \ {c}
        PROVE  IsApproved(d)'
    <3>1. pc'[d] = pc[d] /\ status'[d] = status[d]
      BY <2>1
    <3> QED BY <1>0, <1>a, <2>1, <3>1
  <2>3. IsApproved(c)'
    <3>1. approver[c] # "" \/ c \in early \/ pc'[c] = "done"
      BY <1>0, <2>1
    <3>2. pc'[c] # "created"
      BY <2>1
    <3> QED BY <1>0, <1>a, <2>1, <3>1, <3>2
  <2> QED BY <2>2, <2>3
<1>4. ASSUME NEW c \in Calls, ApproveChecks(c) \/ ApproveSets(c)
      PROVE  Gated'
  <2>1. /\ pc' = pc /\ given' = given /\ early' = early /\ target' = target
        /\ \A d \in Calls : \/ status'[d] = status[d] /\ approver'[d] = approver[d]
                            \/ approver'[d] = "admin"
    BY <1>4 DEF ApproveChecks, ApproveSets
  <2> QED BY <1>0, <1>a, <2>1
<1>5. ASSUME NEW c \in Calls, PreSnapshot(c) \/ MarkExecuting(c) \/ Deny(c) \/ Raise(c) \/ TakeSlot(c)
      PROVE  Gated'
  <2>1. PICK to \in {"ready", "admitted", "done", "apply"} : pc' = [pc EXCEPT ![c] = to]
    BY <1>5 DEF PreSnapshot, MarkExecuting, Deny, Raise, TakeSlot
  <2>2. /\ pc[c] \in {"pre", "ready", "admitted"}
        /\ approver' = approver /\ given' = given /\ early' = early /\ target' = target
        /\ \A d \in Calls \ {c} : status'[d] = status[d]
    BY <1>5 DEF PreSnapshot, MarkExecuting, Deny, Raise, TakeSlot
  <2> QED BY <1>0, <1>a, <2>1, <2>2
<1>6. ASSUME NEW c \in Calls,
             Apply(c) \/ ApplyFails(c) \/ MarkFailed(c) \/ PostSnapshot(c) \/ Close(c)
      PROVE  Gated'
  <2>1. PICK to \in {"post", "failing", "done", "undo", "closing"} : pc' = [pc EXCEPT ![c] = to]
    BY <1>6 DEF Apply, ApplyFails, MarkFailed, PostSnapshot, Close
  <2>2. /\ approver' = approver /\ target' = target /\ early' = early /\ pc[c] \in PastGate
        /\ given' = given \/ given' = [given EXCEPT ![c] = "commands"]
    BY <1>6 DEF Apply, ApplyFails, MarkFailed, PostSnapshot, Close
  <2>3. \A d \in Calls \ {c} : status'[d] = status[d]
    <3>1. status' = status \/ \E s : status' = [status EXCEPT ![c] = s]
      BY <1>6 DEF Apply, ApplyFails, MarkFailed, PostSnapshot, Close
    <3> QED BY <3>1
  <2> QED BY <1>0, <1>a, <2>1, <2>2, <2>3
<1>7. ASSUME NEW t \in Rollbacks, NEW c \in Calls, StartRollback(t, c)
      PROVE  Gated'
  <2>1. /\ approver' = approver /\ given' = given /\ target' = [target EXCEPT ![t] = c]
        /\ pc[t] = "new" /\ \A d \in Calls : pc'[d] = pc[d]
        /\ \/ status' = status /\ early' = early
           \/ /\ status' = [status EXCEPT ![c] = "failed"]
              /\ early' = IF pc[c] = "created" THEN early \cup {c} ELSE early
    BY <1>7 DEF StartRollback
  <2>2. \A d \in Calls : UserRollsBack(d) => UserRollsBack(d)'
    <3>1. ASSUME NEW d \in Calls, NEW r \in Rollbacks, target[r] = d
          PROVE  target'[r] = d
      BY <1>0, <2>1, <3>1
    <3> QED BY <3>1 DEF UserRollsBack
  <2>3. UserRollsBack(c)'
    BY <2>1 DEF UserRollsBack
  <2>4. ASSUME NEW d \in Calls
        PROVE  IsApproved(d)'
    BY <1>0, <2>1, <2>2, <2>3
  <2> QED BY <2>4
<1>8. CASE UNCHANGED <<reqVars, pc, target, history>>
  BY <1>0, <1>a, <1>8
<1> HIDE DEF Gated, reqVars, history, SetStatus, Conclude, Goto, Give, NoteEarly, IsApproved, PastGate
<1>9. ASSUME NEW t \in Threads, WantLock(t) \/ TakeLock(t)
      PROVE  Gated'
  BY <1>8, <1>9 DEF WantLock, TakeLock, history
<1>10. CASE ReplaceLock \/ UNCHANGED vars
  BY <1>8, <1>10 DEF ReplaceLock, vars, history
<1>11. ASSUME NEW c \in Calls, ProceedCall(c)
       PROVE  Gated'
  BY <1>3, <1>5, <1>6, <1>11 DEF ProceedCall
<1>12. ASSUME NEW t \in Threads, Proceed(t)
       PROVE  Gated'
  BY <1>1, <1>9, <1>12 DEF Proceed
<1> QED
  BY <1>2, <1>4, <1>7, <1>10, <1>11, <1>12 DEF Next

LEMMA NextKeepsUndone ==
  ASSUME IInv, [Next]_vars
  PROVE  Undone'
<1> USE DEF Undone, reqVars, history, SetStatus, Conclude, Goto, Give
<1> /\ Undone /\ Calls \subseteq Threads /\ Calls \cap Rollbacks = {}
    /\ pc \in [Threads -> Phases]
    /\ status \in [Calls -> Statuses \cup {None}]
    /\ given \in [Calls -> {"nothing", "commands", "reverse"}]
    /\ \A d \in Calls : target[d] = d
  BY PipelineAssumption DEF IInv, Threads, TypeOK, TargetsSound
<1>1. ASSUME NEW t \in Threads, Undo(t) \/ UndoFails(t) \/ CheckRollback(t)
      PROVE  Undone'
  <2>1. pc[t] \in {"undo", "check"} => target[t] \in Calls
    BY DEF IInv, TargetsSound
  <2>2. CASE Undo(t)
    BY <2>1, <2>2 DEF Undo, AfterUndo
  <2>3. CASE UndoFails(t)
    BY <2>1, <2>3 DEF UndoFails, AfterUndo
  <2>4. CASE CheckRollback(t)
    BY <2>4 DEF CheckRollback, AfterUndo
  <2> QED BY <1>1, <2>2, <2>3, <2>4
<1>2. ASSUME NEW c \in Calls, NEW x \in Changes, NEW low \in BOOLEAN, Submit(c, x, low)
      PROVE  Undone'
  BY <1>2 DEF Submit
<1>3. ASSUME NEW c \in Calls, NEW open \in BOOLEAN, Gate(c, open)
      PROVE  Undone'
  BY <1>3 DEF Gate
<1>4. ASSUME NEW c \in Calls, ApproveChecks(c) \/ ApproveSets(c)
      PROVE  Undone'
  BY <1>4 DEF ApproveChecks, ApproveSets
<1>5. ASSUME NEW c \in Calls, PreSnapshot(c) \/ MarkExecuting(c) \/ Deny(c) \/ Raise(c) \/ TakeSlot(c)
      PROVE  Undone'
  BY <1>5 DEF PreSnapshot, MarkExecuting, Deny, Raise, TakeSlot
<1>6. ASSUME NEW c \in Calls, Apply(c) \/ ApplyFails(c) \/ MarkFailed(c) \/ Close(c)
      PROVE  Undone'
  BY <1>6 DEF Apply, ApplyFails, MarkFailed, Close
<1>7. ASSUME NEW c \in Calls, PostSnapshot(c)
      PROVE  Undone'
  BY <1>7 DEF PostSnapshot
<1>8. ASSUME NEW t \in Rollbacks, NEW c \in Calls, StartRollback(t, c)
      PROVE  Undone'
  BY <1>8 DEF StartRollback
<1>9. CASE UNCHANGED <<reqVars, pc, given>>
  BY <1>9
<1> HIDE DEF Undone
<1> QED
  BY <1>1, <1>2, <1>3, <1>4, <1>5, <1>6, <1>7, <1>8, <1>9 DEF Next, Proceed, ProceedCall,
     WantLock, TakeLock, ReplaceLock, vars

-----------------------------------------------------------------------------
(* The theorems *)

LEMMA InitIInv == Init => IInv
<1> SUFFICES ASSUME Init
             PROVE  IInv
  OBVIOUS
<1>0. 0 \in 0..MaxGen /\ Slots \in 0..Slots
  BY PipelineAssumption
<1> USE DEF Init, Threads
<1>1. RequestTypes
  BY DEF RequestTypes
<1>2. OtherTypes
  BY <1>0 DEF OtherTypes
<1>a. ThreadTypes
  BY PhaseNames DEF ThreadTypes
<1>b. LockTypes
  BY <1>0 DEF LockTypes
<1> USE PipelineAssumption
<1>3. RequestsSound /\ TargetsSound
  BY DEF RequestsSound, TargetsSound, Statuses
<1>4. LocksSound
  BY DEF LocksSound, KeepsOuter
<1>5. SlotsSound
  <2>1. Busy = {}
    BY DEF Busy, SlotPhases
  <2>2. slots = Slots /\ Slots \in Nat
    OBVIOUS
  <2>3. Cardinality(Busy) = 0
    BY <2>1, FS_EmptySet
  <2> HIDE DEF Init
  <2> QED BY <2>2, <2>3 DEF SlotsSound
<1>6. Gated /\ Undone
  BY DEF Gated, IsApproved, PastGate, Undone, Statuses
<1> QED BY <1>1, <1>2, <1>a, <1>b, <1>3, <1>4, <1>5, <1>6, TypesInParts DEF IInv

LEMMA NextIInv == IInv /\ [Next]_vars => IInv'
<1> SUFFICES ASSUME IInv, [Next]_vars
             PROVE  IInv'
  OBVIOUS
<1>1. TypeOK' <=> RequestTypes' /\ ThreadTypes' /\ LockTypes' /\ OtherTypes'
  BY DEF TypeOK, RequestTypes, ThreadTypes, LockTypes, OtherTypes
<1>2. TypeOK'
  BY <1>1, NextKeepsRequestTypes, NextKeepsThreadTypes, NextKeepsLockTypes, NextKeepsOtherTypes
<1> QED
  BY <1>2, NextKeepsRequestsSound, NextKeepsTargetsSound, NextKeepsLocksSound,
     NextKeepsSlotsSound, NextKeepsGated, NextKeepsUndone DEF IInv

LEMMA Invariance == Spec => []IInv
BY InitIInv, NextIInv, PTL DEF Spec

\* Every variable keeps its type.
THEOREM TypeCorrect == Spec => []TypeOK
<1>1. IInv => TypeOK
  BY DEF IInv
<1> QED BY <1>1, Invariance, PTL

\* A change request is never left behind in the status "executing" by a call that was
\* refused, failed, was rolled back or has returned; a limiter that raises leaves one, and
\* then the device does not have its commands.
THEOREM NobodyExecutesForEver == Spec => []ExecutingHasWorker
<1>1. IInv => ExecutingHasWorker
  BY DEF IInv, RequestsSound, ExecutingHasWorker, SlotPhases
<1> QED BY <1>1, Invariance, PTL

\* Bulkhead slots and host locks are held by threads at work and come back on every path,
\* although a call takes the lock several times and locks are replaced meanwhile.
THEOREM NothingLeaks == Spec => []NothingIsLeaked
<1>1. IInv => NothingIsLeaked
  <2> SUFFICES ASSUME IInv
               PROVE  NothingIsLeaked
    OBVIOUS
  <2>1. slots + Cardinality({c \in Calls : pc[c] \in SlotPhases}) = Slots
    BY DEF IInv, SlotsSound, Busy
  <2>2. ASSUME NEW g \in 0..MaxGen, holder[g] # None
        PROVE  /\ pc[holder[g]] # "done"
               /\ (grip[holder[g]] = "held" /\ gen[holder[g]] = g) \/ outer[holder[g]] = g
    <3>1. holder[g] \in Threads
      BY <2>2 DEF IInv, TypeOK
    <3> QED BY <2>2, <3>1 DEF IInv, LocksSound, KeepsOuter, LockPhases
  <2> QED BY <2>1, <2>2 DEF NothingIsLeaked
<1> QED BY <1>1, Invariance, PTL

\* The device is given approved commands only, however approval, gate and rollbacks race,
\* except for requests that a rollback ended before their call came to the gate; and the
\* reverse of commands that were not approved only by a user's rollback.
THEOREM OnlyApprovedChangesRun == Spec => []OnlyApprovedRuns
<1>1. IInv => OnlyApprovedRuns
  <2> SUFFICES ASSUME IInv, NEW c \in Calls, approver[c] = ""
               PROVE  /\ given[c] = "commands" => c \in early
                      /\ given[c] = "reverse" => \E t \in Rollbacks : target[t] = c
    BY DEF OnlyApprovedRuns
  <2> QED BY DEF IInv, Gated, IsApproved, UserRollsBack
<1> QED BY <1>1, Invariance, PTL

\* Whenever rollbacks of a request run beside its call, when the call has ended a request
\* that says it was rolled back is: the device was last given the reverse of its commands.
THEOREM RolledBackMeansUndone == Spec => []RolledBackIsUndone
<1>1. IInv => RolledBackIsUndone
  BY DEF IInv, Undone, RolledBackIsUndone
<1> QED BY <1>1, Invariance, PTL

-----------------------------------------------------------------------------
(***************************************************************************)
(* Automatic rollback                                                      *)
(*                                                                         *)
(* AutoRollback, for any calls, other threads, names and length of time.   *)
(*                                                                         *)
(* That a health check is judged by an answer from after the change rests  *)
(* on the host lock: it is held from the device's answer to a change until *)
(* the cached answers are dropped, and from the answer to a show command   *)
(* until that answer is cached.  AnswersAreFresh says so of the cache and  *)
(* of every answer on its way to it.  That a failed change is undone rests *)
(* on what is in the checkpoint a call will restore, OwnCheckpoint.        *)
(***************************************************************************)
\* Nothing is in force, or kept, that the device has not taken.
OnlyWhatWasTaken ==
  /\ running \subseteq taken
  /\ \A n \in Names : checkpoints[n] # None => checkpoints[n] \subseteq taken

\* The device takes the change of a call in one pc.
TakenInOrder ==
  \A c \in Calls :
    /\ pc[c] \in {"new", "save", "saving", "apply"} => c \notin taken
    /\ pc[c] = "applying" => c \in taken
    /\ pc[c] # "new" => name[c] \in 0..Horizon

\* While a call that was told of its change looks for an answer, there is none from
\* before the change, neither in the cache nor on its way to it.
AnswersAreFresh ==
  \A c \in Calls \ withheld :
    /\ pc[c] \in {"check", "checking"} =>
         /\ c \in taken
         /\ entry # None => c \in entry
         /\ \A t \in Users : pc[t] \in {"checking", "reading"} => c \in seen[t]
    /\ pc[c] = "passed" => c \in seen[c]

Saved == {"saving", "apply", "applying", "check", "checking", "restore"}

\* Somebody else has saved under the name of c's checkpoint.
Overwritten(c) == saver[name[c]] # c

\* The checkpoint that c will restore does not hold c's own change.
OwnCheckpoint ==
  \A c \in Calls :
    pc[c] \in Saved /\ checkpoints[name[c]] # None /\ c \in checkpoints[name[c]] => Overwritten(c)

RestoresAreTrue ==
  \A c \in Calls :
    pc[c] = "restoring" \/ (pc[c] = "failed" /\ c \in taken) =>
      \/ restored[c] \in {"undone", "refused"}
      \/ restored[c] = "kept" /\ Overwritten(c)

AutoInv ==
  /\ AutoTypeOK
  /\ OnlyWhatWasTaken
  /\ TakenInOrder
  /\ AnswersAreFresh
  /\ OwnCheckpoint
  /\ RestoresAreTrue
-----------------------------------------------------------------------------
(* Types, and the host lock *)

\* The lock and the pc of its holder change together.
TypedLock ==
  /\ pc \in [Users -> Steps]
  /\ lock \in Users \cup {None}
  /\ \A t \in Users : lock = t <=> pc[t] \in InFlight

LEMMA SendKeepsLock ==
  ASSUME AutoTypeOK, NEW t \in Users, NEW from, NEW to \in InFlight,
         Send(t, from, to)
  PROVE  TypedLock' /\ clock' = clock /\ entry' = entry
BY AutoRollbackAssumption DEF AutoTypeOK, TypedLock, Send, Goto, Steps

LEMMA ReceiveKeepsLock ==
  ASSUME AutoTypeOK, NEW t \in Users, NEW from \in InFlight,
         NEW to \in Steps \ InFlight,
         Goto(t, from, to), lock' = None
  PROVE  TypedLock'
BY AutoRollbackAssumption DEF AutoTypeOK, TypedLock, Goto, Steps

LEMMA GotoKeepsLock ==
  ASSUME AutoTypeOK, NEW t \in Users, NEW from \in Steps \ InFlight,
         NEW to \in Steps \ InFlight,
         Goto(t, from, to), lock' = lock
  PROVE  TypedLock'
BY AutoRollbackAssumption DEF AutoTypeOK, TypedLock, Goto, Steps

\* What a call does keeps the types.
LEMMA CallKeepsTypes ==
  ASSUME AutoTypeOK, TakenInOrder, NEW c \in Calls, CallStep(c)
  PROVE  AutoTypeOK'
<1> USE DEF AutoTypeOK, TypedLock, device, callVars
<1> c \in Users
  BY DEF Users
<1>1. CASE Start(c)
  BY <1>1, GotoKeepsLock DEF Start, Steps, InFlight
<1>2. CASE Save(c)
  BY <1>2, SendKeepsLock DEF Save, SaveAs, Steps, InFlight
<1>3. CASE Confirmed(c, "saving", "apply")
  BY <1>3, ReceiveKeepsLock DEF Confirmed, Receive, Steps, InFlight
<1>4. CASE SaveFails(c)
  BY <1>4, ReceiveKeepsLock, GotoKeepsLock DEF SaveFails, Lost, Refused, Receive,
     Steps, InFlight
<1>5. CASE Push(c)
  BY <1>5, SendKeepsLock DEF Push, Steps, InFlight
<1>6. CASE Pushed(c)
  BY <1>6, ReceiveKeepsLock DEF Pushed, Confirmed, Receive, Steps, InFlight
<1>7. CASE Withhold(c)
  BY <1>7, GotoKeepsLock DEF Withhold, Steps, InFlight
<1>8. CASE PushFails(c)
  BY <1>8, ReceiveKeepsLock, GotoKeepsLock DEF PushFails, Lost, Refused, Receive,
     Steps, InFlight
<1>9. CASE Recall(c)
  BY <1>9, ReceiveKeepsLock, GotoKeepsLock DEF Recall, Judge, Steps, InFlight
<1>10. CASE Ask(c)
  BY <1>10, SendKeepsLock DEF Ask, Steps, InFlight
<1>11. CASE Answered(c)
  BY <1>11, ReceiveKeepsLock DEF Answered, Judge, Steps, InFlight
<1>12. CASE CheckFails(c)
  BY <1>12, ReceiveKeepsLock, GotoKeepsLock DEF CheckFails, Lost, Refused, Receive,
     Steps, InFlight
<1>13. CASE Restore(c)
  <2>1. TypedLock' /\ clock' = clock /\ entry' = entry
    BY <1>13, SendKeepsLock DEF Restore, Steps, InFlight
  <2>2. name[c] \in Names
    BY <1>13 DEF Restore, Send, Goto, TakenInOrder, Names
  <2> QED BY <1>13, <2>1, <2>2 DEF Restore, Target
<1>14. CASE Restored(c)
  BY <1>14, ReceiveKeepsLock DEF Restored, Confirmed, Lost, Receive, Steps,
     InFlight
<1>15. CASE RestoreFails(c)
  BY <1>15, GotoKeepsLock DEF RestoreFails, Steps, InFlight
<1> QED
  BY <1>1, <1>2, <1>3, <1>4, <1>5, <1>6, <1>7, <1>8, <1>9, <1>10, <1>11, <1>12, <1>13,
     <1>14, <1>15 DEF CallStep

\* So do the other tools, and time.
LEMMA OthersKeepTypes ==
  ASSUME AutoTypeOK, [AutoNext]_autoVars, \A c \in Calls : ~ CallStep(c)
  PROVE  AutoTypeOK'
<1> USE DEF AutoTypeOK, TypedLock, device, callVars
<1>1. ASSUME NEW o \in Others, Read(o)
      PROVE  AutoTypeOK'
  BY <1>1, SendKeepsLock DEF Read, Users, Steps, InFlight
<1>2. ASSUME NEW o \in Others, Put(o)
      PROVE  AutoTypeOK'
  BY <1>2, ReceiveKeepsLock DEF Put, Receive, Users, Steps, InFlight
<1>3. ASSUME NEW o \in Others, Finish(o)
      PROVE  AutoTypeOK'
  BY <1>3, ReceiveKeepsLock DEF Finish, Confirmed, Lost, Receive, Users,
     Steps, InFlight
<1>4. ASSUME NEW o \in Others, NEW n \in Names, Create(o, n)
      PROVE  AutoTypeOK'
  BY <1>4, SendKeepsLock DEF Create, SaveAs, Users, Steps, InFlight
<1>5. ASSUME NEW o \in Others, NEW n \in Names, RollBack(o, n)
      PROVE  AutoTypeOK'
  BY <1>5, SendKeepsLock DEF RollBack, Users, Steps, InFlight
<1>6. ASSUME NEW o \in Others, NEW n \in Names, Delete(o, n)
      PROVE  AutoTypeOK'
  BY <1>6, SendKeepsLock DEF Delete, Users, Steps, InFlight
<1>7. CASE Expire
  BY <1>7 DEF Expire
<1>8. CASE Tick
  BY <1>8, AutoRollbackAssumption DEF Tick
<1>9. CASE UNCHANGED autoVars
  BY <1>9 DEF autoVars
<1> QED
  BY <1>1, <1>2, <1>3, <1>4, <1>5, <1>6, <1>7, <1>8, <1>9 DEF AutoNext

-----------------------------------------------------------------------------
(* The parts of the invariant *)

LEMMA NextKeepsOnlyWhatWasTaken ==
  ASSUME AutoInv, [AutoNext]_autoVars
  PROVE  OnlyWhatWasTaken'
<1> USE DEF AutoInv, AutoTypeOK, OnlyWhatWasTaken, device, callVars
<1>1. ASSUME NEW c \in Calls, CallStep(c)
      PROVE  OnlyWhatWasTaken'
  <2> USE DEF Send, Receive, Confirmed, Lost, Refused, Judge, Goto
  <2>1. CASE Save(c)
    BY <2>1 DEF Save, SaveAs
  <2>2. CASE Push(c)
    BY <2>2 DEF Push
  <2>3. CASE Restore(c)
    BY <2>3 DEF Restore, Target, TakenInOrder, Names
  <2>4. CASE UNCHANGED device
    BY <2>4
  <2> QED
    BY <1>1, <2>1, <2>2, <2>3, <2>4 DEF CallStep, Start, SaveFails, Pushed,
       Withhold, PushFails,
       Recall, Ask, Answered, CheckFails, Restored, RestoreFails
<1>2. ASSUME NEW o \in Others, Read(o) \/ Put(o) \/ Finish(o)
      PROVE  OnlyWhatWasTaken'
  BY <1>2 DEF Read, Put, Finish, Confirmed, Lost, Receive
<1>3. ASSUME NEW o \in Others, NEW n \in Names, Create(o, n) \/ RollBack(o,
             n) \/ Delete(o, n)
      PROVE  OnlyWhatWasTaken'
  BY <1>3 DEF Create, SaveAs, RollBack, Delete
<1>4. CASE Expire \/ Tick \/ UNCHANGED autoVars
  BY <1>4 DEF Expire, Tick, autoVars
<1> QED
  BY <1>1, <1>2, <1>3, <1>4 DEF AutoNext, Names

LEMMA NextKeepsTakenInOrder ==
  ASSUME AutoInv, [AutoNext]_autoVars
  PROVE  TakenInOrder'
<1> USE DEF AutoInv, AutoTypeOK, TakenInOrder, device, callVars, Goto, Users
<1>1. ASSUME NEW c \in Calls, CallStep(c)
      PROVE  TakenInOrder'
  BY <1>1 DEF CallStep, Start, Save, SaveAs, Confirmed, SaveFails, Push, Pushed,
     Withhold, PushFails,
     Recall, Judge, Ask, Answered, CheckFails, Restore, Restored,
     RestoreFails, Target,
     Lost, Refused, Receive, Send
<1>2. ASSUME NEW o \in Others, Read(o) \/ Put(o) \/ Finish(o)
      PROVE  TakenInOrder'
  BY <1>2, AutoRollbackAssumption DEF Read, Put, Finish, Confirmed, Lost, Receive,
     Send
<1>3. ASSUME NEW o \in Others, NEW n \in Names, Create(o, n) \/ RollBack(o,
             n) \/ Delete(o, n)
      PROVE  TakenInOrder'
  BY <1>3, AutoRollbackAssumption DEF Create, SaveAs, RollBack, Delete, Send
<1>4. CASE Expire \/ Tick \/ UNCHANGED autoVars
  BY <1>4 DEF Expire, Tick, autoVars
<1> QED
  BY <1>1, <1>2, <1>3, <1>4 DEF AutoNext, Names

LEMMA NextKeepsAnswersFresh ==
  ASSUME AutoInv, [AutoNext]_autoVars
  PROVE  AnswersAreFresh'
<1> USE DEF AutoInv, AutoTypeOK, AnswersAreFresh, device, callVars, Goto, Users
<1>1. ASSUME NEW c \in Calls, CallStep(c)
      PROVE  AnswersAreFresh'
  <2> USE DEF Send, Receive, Confirmed, Lost, Refused, Judge
  <2>1. CASE Start(c) \/ Save(c) \/ Confirmed(c, "saving", "apply") \/ SaveFails(c)
    BY <1>1, <2>1 DEF Start, Save, SaveAs, SaveFails
  <2>2. CASE Push(c)
    BY <2>2 DEF Push
  <2>3. CASE Pushed(c)
    BY <2>3 DEF Pushed, TakenInOrder, InFlight
  <2>4. CASE Withhold(c) \/ PushFails(c)
    BY <2>4 DEF Withhold, PushFails
  <2>5. CASE Recall(c)
    BY <2>5 DEF Recall
  <2>6. CASE Ask(c)
    BY <2>6 DEF Ask
  <2>7. CASE Answered(c) \/ CheckFails(c)
    BY <2>7 DEF Answered, CheckFails
  <2>8. CASE Restore(c) \/ Restored(c) \/ RestoreFails(c)
    BY <2>8 DEF Restore, Restored, RestoreFails
  <2> QED
    BY <1>1, <2>1, <2>2, <2>3, <2>4, <2>5, <2>6, <2>7, <2>8 DEF CallStep
<1>2. ASSUME NEW o \in Others, Read(o) \/ Put(o) \/ Finish(o)
      PROVE  AnswersAreFresh'
  BY <1>2, AutoRollbackAssumption DEF Read, Put, Finish, Confirmed, Lost, Receive,
     Send
<1>3. ASSUME NEW o \in Others, NEW n \in Names, Create(o, n) \/ RollBack(o,
             n) \/ Delete(o, n)
      PROVE  AnswersAreFresh'
  BY <1>3, AutoRollbackAssumption DEF Create, SaveAs, RollBack, Delete, Send
<1>4. CASE Expire \/ Tick \/ UNCHANGED autoVars
  BY <1>4 DEF Expire, Tick, autoVars
<1> QED
  BY <1>1, <1>2, <1>3, <1>4 DEF AutoNext, Names

LEMMA NextKeepsOwnCheckpoint ==
  ASSUME AutoInv, [AutoNext]_autoVars
  PROVE  OwnCheckpoint'
<1> USE DEF AutoInv, AutoTypeOK, OwnCheckpoint, Overwritten, Saved, device, callVars, Goto,
            Users
<1>1. ASSUME NEW c \in Calls, CallStep(c)
      PROVE  OwnCheckpoint'
  <2> USE DEF Send, Receive, Confirmed, Lost, Refused, Judge
  <2>1. CASE Start(c)
    BY <2>1 DEF Start
  <2>2. CASE Save(c)
    <3>1. /\ pc[c] = "save" /\ pc' = [pc EXCEPT ![c] = "saving"] /\ name' = name
          /\ checkpoints' = [checkpoints EXCEPT ![name[c]] = running]
          /\ saver' = [saver EXCEPT ![name[c]] = c]
      BY <2>2 DEF Save, SaveAs
    <3>2. c \notin running /\ name[c] \in Names
      BY <3>1 DEF TakenInOrder, OnlyWhatWasTaken, Names
    <3> SUFFICES ASSUME NEW d \in Calls, pc'[d] \in Saved, checkpoints'[name[d]] # None,
                        d \in checkpoints'[name[d]]
                 PROVE  Overwritten(d)'
      BY <3>1
    <3>3. CASE d = c
      BY <3>1, <3>2, <3>3
    <3>4. CASE d # c /\ name[d] = name[c]
      BY <3>1, <3>4
    <3>5. CASE d # c /\ name[d] # name[c]
      BY <3>1, <3>5
    <3> QED BY <3>3, <3>4, <3>5
  <2>3. CASE Confirmed(c, "saving", "apply") \/ SaveFails(c)
    BY <2>3 DEF SaveFails
  <2>4. CASE Push(c) \/ Pushed(c) \/ Withhold(c) \/ PushFails(c)
    BY <2>4 DEF Push, Pushed, Withhold, PushFails
  <2>5. CASE Recall(c) \/ Ask(c) \/ Answered(c) \/ CheckFails(c)
    BY <2>5 DEF Recall, Ask, Answered, CheckFails
  <2>6. CASE Restore(c) \/ Restored(c) \/ RestoreFails(c)
    BY <2>6 DEF Restore, Restored, RestoreFails
  <2> QED
    BY <1>1, <2>1, <2>2, <2>3, <2>4, <2>5, <2>6 DEF CallStep
<1>2. ASSUME NEW o \in Others, Read(o) \/ Put(o) \/ Finish(o)
      PROVE  OwnCheckpoint'
  BY <1>2, AutoRollbackAssumption DEF Read, Put, Finish, Confirmed, Lost, Receive,
     Send
<1>3. ASSUME NEW o \in Others, NEW n \in Names, Create(o, n)
      PROVE  OwnCheckpoint'
  BY <1>3, AutoRollbackAssumption DEF Create, SaveAs, Send, Names, TakenInOrder
<1>4. ASSUME NEW o \in Others, NEW n \in Names, RollBack(o, n) \/ Delete(o, n)
      PROVE  OwnCheckpoint'
  BY <1>4, AutoRollbackAssumption DEF RollBack, Delete, Send, TakenInOrder, Names
<1>5. CASE Expire \/ Tick \/ UNCHANGED autoVars
  BY <1>5 DEF Expire, Tick, autoVars
<1> QED
  BY <1>1, <1>2, <1>3, <1>4, <1>5 DEF AutoNext

LEMMA NextKeepsRestoresTrue ==
  ASSUME AutoInv, [AutoNext]_autoVars
  PROVE  RestoresAreTrue'
<1> USE DEF AutoInv, AutoTypeOK, RestoresAreTrue, Overwritten, device, callVars, Goto,
            Users
<1>1. ASSUME NEW c \in Calls, CallStep(c)
      PROVE  RestoresAreTrue'
  <2> USE DEF Send, Receive, Confirmed, Lost, Refused, Judge
  <2>1. CASE Start(c)
    BY <2>1 DEF Start
  <2>2. CASE Save(c) \/ Confirmed(c, "saving", "apply")
    BY <2>2 DEF Save, SaveAs, TakenInOrder, Names
  <2>3. CASE SaveFails(c)
    BY <2>3 DEF SaveFails, TakenInOrder
  <2>4. CASE Push(c) \/ Pushed(c) \/ Withhold(c) \/ PushFails(c)
    BY <2>4 DEF Push, Pushed, Withhold, PushFails
  <2>5. CASE Recall(c) \/ Ask(c) \/ Answered(c) \/ CheckFails(c)
    BY <2>5 DEF Recall, Ask, Answered, CheckFails
  <2>6. CASE Restore(c)
    BY <2>6 DEF Restore, Target, OwnCheckpoint, Saved
  <2>7. CASE Restored(c) \/ RestoreFails(c)
    BY <2>7 DEF Restored, RestoreFails
  <2> QED
    BY <1>1, <2>1, <2>2, <2>3, <2>4, <2>5, <2>6, <2>7 DEF CallStep
<1>2. ASSUME NEW o \in Others, Read(o) \/ Put(o) \/ Finish(o)
      PROVE  RestoresAreTrue'
  BY <1>2, AutoRollbackAssumption DEF Read, Put, Finish, Confirmed, Lost, Receive,
     Send
<1>3. ASSUME NEW o \in Others, NEW n \in Names, Create(o, n) \/ RollBack(o,
             n) \/ Delete(o, n)
      PROVE  RestoresAreTrue'
  BY <1>3, AutoRollbackAssumption DEF Create, SaveAs, RollBack, Delete, Send,
     TakenInOrder, Names
<1>4. CASE Expire \/ Tick \/ UNCHANGED autoVars
  BY <1>4 DEF Expire, Tick, autoVars
<1> QED
  BY <1>1, <1>2, <1>3, <1>4 DEF AutoNext, Names

-----------------------------------------------------------------------------
(* The theorems *)

LEMMA AutoInitInv == AutoInit => AutoInv
<1> SUFFICES ASSUME AutoInit
             PROVE  AutoInv
  OBVIOUS
<1> USE AutoRollbackAssumption DEF AutoInit, Users
<1>1. AutoTypeOK
  <2>1. /\ pc \in [Users -> Steps]
        /\ \A t \in Users : lock # t /\ pc[t] \notin InFlight
    BY DEF Steps, InFlight
  <2>2. /\ clock \in 0..Horizon
        /\ checkpoints \in [Names -> (SUBSET Calls) \cup {None}]
        /\ name \in [Calls -> 0..Horizon \cup {None}]
        /\ seen \in [Users -> SUBSET Calls]
        /\ restored \in [Calls -> {"no", "refused", "kept", "undone"}]
        /\ saver \in [Names -> Users \cup {None}]
    OBVIOUS
  <2> QED BY <2>1, <2>2 DEF AutoTypeOK
<1>2. OnlyWhatWasTaken /\ TakenInOrder /\ AnswersAreFresh
  BY DEF OnlyWhatWasTaken, TakenInOrder, AnswersAreFresh
<1>3. OwnCheckpoint /\ RestoresAreTrue
  <2>1. \A c \in Calls : pc[c] = "new"
    OBVIOUS
  <2> QED BY <2>1 DEF OwnCheckpoint, RestoresAreTrue, Saved
<1> QED
  BY <1>1, <1>2, <1>3 DEF AutoInv

LEMMA AutoNextInv == AutoInv /\ [AutoNext]_autoVars => AutoInv'
<1> SUFFICES ASSUME AutoInv, [AutoNext]_autoVars
             PROVE  AutoInv'
  OBVIOUS
<1>1. AutoTypeOK'
  BY CallKeepsTypes, OthersKeepTypes DEF AutoInv
<1> QED
  BY <1>1, NextKeepsOnlyWhatWasTaken, NextKeepsTakenInOrder, NextKeepsAnswersFresh,
     NextKeepsOwnCheckpoint, NextKeepsRestoresTrue DEF AutoInv

LEMMA AutoInvariance == AutoSpec => []AutoInv
BY AutoInitInv, AutoNextInv, PTL DEF AutoSpec

\* Every variable keeps its type, and a thread is in the middle of a device command
\* exactly while it holds the host lock.
THEOREM AutoTypeCorrect == AutoSpec => []AutoTypeOK
<1>1. AutoInv => AutoTypeOK
  BY DEF AutoInv
<1> QED BY <1>1, AutoInvariance, PTL

\* eos_auto_rollback_on_failure never passes a change on the strength of an answer
\* from before it, whatever is cached and whoever else is reading.
THEOREM HealthIsJudgedInTime == AutoSpec => []HealthIsJudgedAfterChange
<1>1. AutoInv => HealthIsJudgedAfterChange
  BY DEF AutoInv, AnswersAreFresh, HealthIsJudgedAfterChange
<1> QED BY <1>1, AutoInvariance, PTL

\* When it reports a failure, the change is undone, unless the restore was refused or
\* somebody else was the last to save under the name.
THEOREM FailuresAreUndone == AutoSpec => []FailedChangesAreUndone
<1>1. AutoInv => FailedChangesAreUndone
  BY DEF AutoInv, RestoresAreTrue, Overwritten, FailedChangesAreUndone
<1> QED BY <1>1, AutoInvariance, PTL
=============================================================================
