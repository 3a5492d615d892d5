------------------------------ MODULE QueryQueue ------------------------------
(***************************************************************************)
(* The query queue of ABIYSS (qq.py) together with the durable store it    *)
(* writes (qups.py, atomic.py), the path by which model tool calls enter   *)
(* it (runtime.py) and the operator who resolves ambiguous work.           *)
(*                                                                         *)
(* Three kinds of actor share the queue: any number of clients that submit *)
(* and reject queries under `_lock`, one execution lane (`run_once`, under *)
(* `_execution_lock`) that takes `_lock` only at its boundaries, and an    *)
(* operator under `_lock`.  The process may stop at any point and restart  *)
(* from the durable files alone.                                           *)
(*                                                                         *)
(* A query is abstracted to what scheduling and recovery tell apart: its   *)
(* state and the step its checkpoint says comes next.  Timestamps,         *)
(* attempt counters, error texts, payloads and audit lines are left out;   *)
(* an audit append appears only where its failure changes what follows.    *)
(*                                                                         *)
(* Definitions whose name ends in Mutant are plausible slips of the code,  *)
(* each used to show that a property notices the slip; nothing here refers *)
(* to them.                                                                *)
(***************************************************************************)
EXTENDS Integers, FiniteSets

CONSTANTS
  Query,        \* query ids; a fresh id is a uuid4, so each is submitted once
  Call,         \* external identities (interaction_id, tool_call_id)
  NoQuery,      \* "no query": an idle lane, an unregistered identity
  NoCall,       \* the identity of a query no model call stands behind
  Type,         \* [Query -> {"Aquery", "Squery"}]
  Priority,     \* [Query -> Int], higher runs first within a class
  Steps,        \* [Query -> 1..MaxSteps], the number of tool steps
  Key,          \* [Query -> Call \cup {NoCall}]
  Rank,         \* [Query -> Nat], the order of the file names on disk
  MaxQueries,   \* capacity of unsettled queries
  Registries,   \* the sets of queries a tool registry may accept
  Faults,       \* which of "fail", "torn", "audit" and "read" can happen
  MaxSteps,     \* bound on the steps of one query (256 in the code)
  MaxFaults,    \* bound on the faults of a behaviour
  MaxStops,     \* bound on the stops of the process
  MaxRequeues   \* bound on the operator's requeues of one query

ASSUME QueryAssumption  == IsFiniteSet(Query) /\ NoQuery \notin Query
ASSUME CallAssumption   == NoCall \notin Call
ASSUME TypeAssumption   == Type \in [Query -> {"Aquery", "Squery"}]
ASSUME PriorityAssumption == Priority \in [Query -> Int]
ASSUME BoundAssumption  == /\ MaxSteps \in Nat \ {0}
                           /\ MaxQueries \in Nat \ {0}
                           /\ MaxFaults \in Nat
                           /\ MaxStops \in Nat
                           /\ MaxRequeues \in Nat
ASSUME StepsAssumption  == Steps \in [Query -> 1..MaxSteps]
\* A model call becomes an Aquery of one tool call (ingest_model_turn).
ASSUME KeyAssumption    ==
  /\ Key \in [Query -> Call \cup {NoCall}]
  /\ \A q \in Query : Key[q] # NoCall => Type[q] = "Aquery" /\ Steps[q] = 1
ASSUME RankAssumption   ==
  /\ Rank \in [Query -> Nat]
  /\ \A q, r \in Query : Rank[q] = Rank[r] => q = r
ASSUME RegistriesAssumption == Registries \subseteq SUBSET Query
ASSUME FaultsAssumption == Faults \subseteq {"fail", "torn", "audit", "read"}

VARIABLES
  up,           \* the process is running
  accepted,     \* queries whose steps the current tool registry validates
  mem,          \* _queries and the Query objects in it
  disk,         \* the .qups file of each query
  heap,         \* _heap: entries of a sequence number and a query
  sequence,     \* _sequence
  ext,          \* _external_calls
  active,       \* _active
  preempt,      \* _preempt
  pc,           \* where the lane is in run_once
  snap,         \* the snapshot the lane is about to write, not under _lock
  outcome,      \* whether the tool call that just returned reported "ok"
  rejected,     \* queries whose submit raised and record_failed is still due
  effects,      \* history: how often each step of each query was executed
  unsuccessful, \* history: steps whose latest execution did not report "ok"
  requeues,     \* history: operator requeues of each query
  faults,       \* counter behind MaxFaults
  stops         \* counter behind MaxStops

queueVars == <<mem, heap, sequence, ext>>
laneVars  == <<active, preempt, pc, snap, outcome>>
history   == <<effects, unsuccessful>>
vars == <<up, accepted, queueVars, disk, laneVars, rejected, history,
          requeues, faults, stops>>

-----------------------------------------------------------------------------
(* Queries and their states.                                               *)

Terminal  == {"completed", "failed", "cancelled"}
Unsettled == {"queued", "running", "paused", "recovery_required"}
State     == Terminal \cup Unsettled \cup {"absent"}
Step      == 0..(MaxSteps - 1)
Record    == [state : State, next_step : 0..MaxSteps]
Absent    == [state |-> "absent", next_step |-> 0]
Fresh     == [state |-> "queued", next_step |-> 0]

\* The transition table of Query.transition, as pairs of an old and a new state.
Allowed ==
       {"queued"} \X {"running", "cancelled"}
  \cup {"running"} \X {"paused", "queued", "completed", "failed",
                       "recovery_required"}
  \cup {"paused", "recovery_required"} \X {"queued", "cancelled"}

In(r, s)      == [r EXCEPT !.state = s]
Present(store) == {q \in Query : store[q].state # "absent"}
InState(store, S) == {q \in Query : store[q].state \in S}
Keyed(q)      == Key[q] # NoCall

-----------------------------------------------------------------------------
(* The durable store.  A save replaces the whole file atomically.  It can  *)
(* fail and leave the old file ("fail"), or fail after the replacement,    *)
(* when the directory cannot be synchronised ("torn").                     *)

Injectable(kinds) == IF faults < MaxFaults THEN Faults \cap kinds ELSE {}
SaveFaults   == Injectable({"fail", "torn"})
SaveOutcomes == {"ok"} \cup SaveFaults

Save(q, r, o) ==
  /\ disk' = IF o = "fail" THEN disk ELSE [disk EXCEPT ![q] = r]
  /\ faults' = IF o = "ok" THEN faults ELSE faults + 1

-----------------------------------------------------------------------------
(* The heap.                                                               *)

\* Every query is of one class.
ClassMutant(q) == 0

Class(q) == IF Type[q] = "Aquery" THEN 0 ELSE 1

\* q is of a better class, or of the same class and a higher priority.
Outranks(q, r) == \/ Class(q) < Class(r)
                  \/ Class(q) = Class(r) /\ Priority[q] > Priority[r]

\* Priority numbers are forgotten.
BeforeMutant(d, e) == \/ Class(d.id) < Class(e.id)
                      \/ Class(d.id) = Class(e.id) /\ d.seq < e.seq

\* Last in, first out.
BeforeLifoMutant(d, e) == \/ Outranks(d.id, e.id)
                          \/ ~ Outranks(e.id, d.id) /\ d.seq > e.seq

\* The order of heap entries: class, priority, sequence number.
Before(d, e) == \/ Outranks(d.id, e.id)
                \/ ~ Outranks(e.id, d.id) /\ d.seq < e.seq

Push(q) == /\ sequence' = sequence + 1
           /\ heap' = heap \cup {[seq |-> sequence + 1, id |-> q]}

Ready == {e \in heap : mem[e.id].state = "queued"}

-----------------------------------------------------------------------------
(* Clients: QueryQueue.submit, and record_failed for a model call whose    *)
(* submit raised.  Each holds _lock throughout.                            *)

\* Off by one.
AtCapacityMutant == Cardinality(InState(mem, Unsettled)) > MaxQueries

AtCapacity == Cardinality(InState(mem, Unsettled)) >= MaxQueries

\* The registered identity is not looked up.
IsNewMutant(q) == /\ mem[q].state = "absent" /\ disk[q].state = "absent"
                  /\ q \notin rejected

\* The call is neither a repeated query id nor a registered identity; for
\* those submit raises or returns the existing query and changes nothing.
IsNew(q) == /\ mem[q].state = "absent" /\ disk[q].state = "absent"
            /\ q \notin rejected
            /\ Keyed(q) => ext[Key[q]] = NoQuery

\* ingest_model_turn catches what submit raises and calls record_failed next.
Reject(q) == rejected' = IF Keyed(q) THEN rejected \cup {q} ELSE rejected

\* submit refuses before it touches the disk: capacity, or validation.
SubmitRefused(q) ==
  /\ up /\ IsNew(q) /\ Keyed(q)
  /\ AtCapacity \/ q \notin accepted
  /\ Reject(q)
  /\ UNCHANGED <<up, accepted, queueVars, disk, laneVars, history,
                 requeues, faults, stops>>

\* The first save raises: the query is not admitted, whatever reached the disk.
SubmitNotSaved(q) ==
  /\ up /\ IsNew(q) /\ ~ AtCapacity /\ q \in accepted
  /\ \E o \in SaveFaults : Save(q, Fresh, o)
  /\ Reject(q)
  /\ UNCHANGED <<up, accepted, queueVars, laneVars, history, requeues, stops>>

\* Admission: saved, registered, pushed, and an Squery on the lane is asked to
\* give way to an Aquery.  The trailing audit append may still raise, which
\* the caller cannot tell from a refusal.
SubmitAdmitted(q) ==
  /\ up /\ IsNew(q) /\ ~ AtCapacity /\ q \in accepted
  /\ disk' = [disk EXCEPT ![q] = Fresh]
  /\ mem' = [mem EXCEPT ![q] = Fresh]
  /\ ext' = IF Keyed(q) THEN [ext EXCEPT ![Key[q]] = q] ELSE ext
  /\ Push(q)
  /\ preempt' = (preempt \/ /\ Type[q] = "Aquery" /\ active # NoQuery
                            /\ Type[active] = "Squery")
  /\ \/ UNCHANGED <<rejected, faults>>
     \/ /\ "audit" \in Injectable({"audit"})
        /\ faults' = faults + 1
        /\ Reject(q)
  /\ UNCHANGED <<up, accepted, active, pc, snap, outcome, history, requeues,
                 stops>>

\* record_failed forces the query object to FAILED.  The object is already in
\* _queries if submit had admitted it, and is entered there once it is saved.
RecordFailed(q) ==
  /\ up /\ q \in rejected
  /\ rejected' = rejected \ {q}
  /\ LET r == In(IF mem[q].state = "absent" THEN Fresh ELSE mem[q], "failed")
     IN \E o \in SaveOutcomes :
          /\ Save(q, r, o)
          /\ mem' = IF o # "ok" /\ mem[q].state = "absent" THEN mem
                    ELSE [mem EXCEPT ![q] = r]
  /\ UNCHANGED <<up, accepted, heap, sequence, ext, laneVars, history,
                 requeues, stops>>

-----------------------------------------------------------------------------
(* The lane: QueryQueue.run_once.                                          *)

Goto(label) == pc' = label
SetState(q, s) == mem' = [mem EXCEPT ![q] = In(mem[q], s)]

\* Entries behind the chosen one are lost as well.
AfterPopMutant(e) == {}

\* The heap once _next_id has popped up to e.
AfterPop(e) == {d \in heap : Before(e, d)}

\* _next_id pops entries until one is QUEUED; what it pops before is dropped.
Pick ==
  /\ up /\ pc = "idle"
  /\ \E e \in Ready :
       /\ \A d \in Ready \ {e} : Before(e, d)
       /\ heap' = AfterPop(e)
       /\ active' = e.id
  /\ preempt' = FALSE
  /\ Goto("picked")
  /\ UNCHANGED <<up, accepted, mem, sequence, ext, disk, snap, outcome,
                 rejected, history, requeues, faults, stops>>

\* Nothing is QUEUED: _next_id empties the heap and run_once returns None.
FindIdle ==
  /\ up /\ pc = "idle" /\ heap # {} /\ Ready = {}
  /\ heap' = {}
  /\ UNCHANGED <<up, accepted, mem, sequence, ext, disk, laneVars, rejected,
                 history, requeues, faults, stops>>

\* What _persist_running does on any exception: the query is QUEUED again and
\* requeued by the caller, unless the audit append raises too.
RunningNotPersisted ==
  /\ SetState(active, "queued")
  /\ \/ Goto("requeue") /\ UNCHANGED faults
     \/ /\ "audit" \in Injectable({"audit"})
        /\ faults' = faults + 1
        /\ Goto("finish")

\* The checkpoint is started afresh for each run.
RunningRecordMutant == [state |-> "running", next_step |-> 0]

RunningRecord == In(mem[active], "running")

\* _persist_running, up to the snapshot: transition to RUNNING if it is allowed.
MarkRunning ==
  /\ up /\ pc = "picked"
  /\ IF <<mem[active].state, "running">> \in Allowed
     THEN /\ mem' = [mem EXCEPT ![active] = RunningRecord]
          /\ snap' = RunningRecord
          /\ Goto("save_running")
          /\ UNCHANGED faults
     ELSE RunningNotPersisted /\ UNCHANGED snap
  /\ UNCHANGED <<up, accepted, heap, sequence, ext, disk, active, preempt,
                 outcome, rejected, history, requeues, stops>>

\* The tool is called before RUNNING has been saved.
SaveRunningMutant ==
  /\ up /\ pc = "save_running"
  /\ Goto("ready")
  /\ UNCHANGED <<up, accepted, queueVars, disk, active, preempt, snap, outcome,
                 rejected, history, requeues, faults, stops>>

\* _persist_running: the save.
SaveRunning ==
  /\ up /\ pc = "save_running"
  /\ Save(active, snap, "ok")
  /\ Goto("ready")
  /\ UNCHANGED <<up, accepted, queueVars, active, preempt, snap, outcome,
                 rejected, history, requeues, stops>>

\* The exception is swallowed and the tool called all the same.
SaveRunningFailsMutant ==
  /\ up /\ pc = "save_running"
  /\ \E o \in SaveFaults : Save(active, snap, o)
  /\ Goto("ready")
  /\ UNCHANGED <<up, accepted, queueVars, active, preempt, snap, outcome,
                 rejected, history, requeues, stops>>

\* _persist_running: the save raises.  A second fault may hit the audit append.
SaveRunningFails ==
  /\ up /\ pc = "save_running"
  /\ SetState(active, "queued")
  /\ \E o \in SaveFaults :
       \/ Save(active, snap, o) /\ Goto("requeue")
       \/ /\ "audit" \in Faults /\ faults + 1 < MaxFaults
          /\ disk' = IF o = "fail" THEN disk ELSE [disk EXCEPT ![active] = snap]
          /\ faults' = faults + 2
          /\ Goto("finish")
  /\ UNCHANGED <<up, accepted, heap, sequence, ext, active, preempt, snap,
                 outcome, rejected, history, requeues, stops>>

\* The steps the registry validates, and a checkpoint index inside them.
Executable(q) == q \in accepted /\ mem[q].next_step < Steps[q]

\* The steps no longer validate, or the checkpoint points past the last one.
RefuseStep ==
  /\ up /\ pc = "ready" /\ ~ Executable(active)
  /\ SetState(active, "recovery_required")
  /\ snap' = In(mem[active], "recovery_required")
  /\ Goto("save_refused")
  /\ UNCHANGED <<up, accepted, heap, sequence, ext, disk, active, preempt,
                 outcome, rejected, history, requeues, faults, stops>>

\* The save of a refused query: what it raises is swallowed.
SaveRefused ==
  /\ up /\ pc = "save_refused"
  /\ \E o \in SaveOutcomes : Save(active, snap, o)
  /\ Goto("finish")
  /\ UNCHANGED <<up, accepted, queueVars, active, preempt, snap, outcome,
                 rejected, history, requeues, stops>>

\* tool_execute: the external effect.  A denial or an exception counts as a
\* result other than "ok".
ExecuteTool ==
  /\ up /\ pc = "ready" /\ Executable(active)
  /\ \E ok \in BOOLEAN :
       /\ outcome' = ok
       /\ LET s == mem[active].next_step
          IN /\ effects' = [effects EXCEPT ![active][s] = @ + 1]
             /\ unsuccessful' = [unsuccessful EXCEPT
                                   ![active] = IF ok THEN @ \ {s} ELSE @ \cup {s}]
  /\ Goto("executed")
  /\ UNCHANGED <<up, accepted, queueVars, disk, active, preempt, snap,
                 rejected, requeues, faults, stops>>

\* The last step completes the query even if it failed.
ResultStateMutant(q, next) ==
  IF next = Steps[q] THEN "completed"
  ELSE IF ~ outcome THEN "failed"
  ELSE IF Type[q] = "Squery" /\ preempt THEN "paused"
  ELSE "queued"

\* Where the result of a step takes the query: FAILED, on to the next step,
\* through PAUSED if an Squery was asked to give way, or COMPLETED.
ResultState(q, next) ==
  IF ~ outcome THEN "failed"
  ELSE IF next = Steps[q] THEN "completed"
  ELSE IF Type[q] = "Squery" /\ preempt THEN "paused"
  ELSE "queued"

\* _safe_save_after_side_effect, up to the snapshot: the checkpoint advances
\* first, then the transition, which fails if the query is no longer RUNNING.
RecordResult ==
  /\ up /\ pc = "executed"
  /\ LET next == mem[active].next_step + 1
         target == ResultState(active, next)
         Advanced(s) == [state |-> s, next_step |-> next]
     IN IF <<mem[active].state, target>> \in Allowed
        THEN /\ mem' = [mem EXCEPT ![active] = Advanced(target)]
             /\ snap' = Advanced(target)
             /\ Goto("save_result")
        ELSE /\ mem' = [mem EXCEPT ![active] = Advanced("recovery_required")]
             /\ UNCHANGED snap
             /\ Goto("finish")
  /\ UNCHANGED <<up, accepted, heap, sequence, ext, disk, active, preempt,
                 outcome, rejected, history, requeues, faults, stops>>

\* A preempted Squery is left PAUSED.
SaveResultMutant ==
  /\ up /\ pc = "save_result"
  /\ Save(active, snap, "ok")
  /\ Goto(IF snap.state = "queued" THEN "requeue" ELSE "finish")
  /\ UNCHANGED <<up, accepted, queueVars, active, preempt, snap, outcome,
                 rejected, history, requeues, stops>>

\* _safe_save_after_side_effect: the save, and what run_once does on success.
SaveResult ==
  /\ up /\ pc = "save_result"
  /\ Save(active, snap, "ok")
  /\ IF snap.state = "paused"
     THEN /\ SetState(active, "queued")
          /\ snap' = In(mem[active], "queued")
          /\ Goto("save_resume")
     ELSE /\ UNCHANGED <<mem, snap>>
          /\ Goto(IF snap.state = "queued" THEN "requeue" ELSE "finish")
  /\ UNCHANGED <<up, accepted, heap, sequence, ext, active, preempt, outcome,
                 rejected, history, requeues, stops>>

\* The exception is swallowed and the result taken as saved.
SaveResultFailsMutant ==
  /\ up /\ pc = "save_result"
  /\ \E o \in SaveFaults : Save(active, snap, o)
  /\ Goto("finish")
  /\ UNCHANGED <<up, accepted, queueVars, active, preempt, snap, outcome,
                 rejected, history, requeues, stops>>

\* _safe_save_after_side_effect: the save raises after the effect.
SaveResultFails ==
  /\ up /\ pc = "save_result"
  /\ \E o \in SaveFaults : Save(active, snap, o)
  /\ SetState(active, "recovery_required")
  /\ Goto("finish")
  /\ UNCHANGED <<up, accepted, heap, sequence, ext, active, preempt, snap,
                 outcome, rejected, history, requeues, stops>>

\* A preempted Squery is saved PAUSED and then QUEUED.  If the second save
\* raises it is PAUSED in memory and in no heap until the next restart.
SaveResume ==
  /\ up /\ pc = "save_resume"
  /\ \E o \in SaveOutcomes :
       /\ Save(active, snap, o)
       /\ IF o = "ok" THEN UNCHANGED mem /\ Goto("requeue")
          ELSE SetState(active, "paused") /\ Goto("finish")
  /\ UNCHANGED <<up, accepted, heap, sequence, ext, active, preempt, snap,
                 outcome, rejected, history, requeues, stops>>

Requeue ==
  /\ up /\ pc = "requeue"
  /\ Push(active)
  /\ Goto("finish")
  /\ UNCHANGED <<up, accepted, mem, ext, disk, active, preempt, snap, outcome,
                 rejected, history, requeues, faults, stops>>

\* The lane forgets to release the query.
FinishMutant ==
  /\ up /\ pc = "finish"
  /\ preempt' = FALSE /\ snap' = Absent /\ outcome' = TRUE
  /\ Goto("idle")
  /\ UNCHANGED <<up, accepted, queueVars, disk, active, rejected, history,
                 requeues, faults, stops>>

\* The finally clause of run_once.
Finish ==
  /\ up /\ pc = "finish"
  /\ active' = NoQuery /\ preempt' = FALSE /\ snap' = Absent /\ outcome' = TRUE
  /\ Goto("idle")
  /\ UNCHANGED <<up, accepted, queueVars, disk, rejected, history, requeues,
                 faults, stops>>

-----------------------------------------------------------------------------
(* The operator: QueryQueue.resolve_recovery.                              *)

AwaitsRecovery(q) == mem[q].state = "recovery_required"

\* "cancel": the query object is CANCELLED whether or not it could be saved.
ResolveCancel(q) ==
  /\ up /\ AwaitsRecovery(q)
  /\ SetState(q, "cancelled")
  /\ \E o \in SaveOutcomes : Save(q, In(mem[q], "cancelled"), o)
  /\ UNCHANGED <<up, accepted, heap, sequence, ext, laneVars, rejected,
                 history, requeues, stops>>

\* "requeue": QUEUED at once, in the heap only after the save.
ResolveRequeue(q) ==
  /\ up /\ AwaitsRecovery(q) /\ requeues[q] < MaxRequeues
  /\ requeues' = [requeues EXCEPT ![q] = @ + 1]
  /\ SetState(q, "queued")
  /\ \E o \in SaveOutcomes :
       /\ Save(q, In(mem[q], "queued"), o)
       /\ IF o = "ok" THEN Push(q) ELSE UNCHANGED <<sequence, heap>>
  /\ UNCHANGED <<up, accepted, ext, laneVars, rejected, history, stops>>

-----------------------------------------------------------------------------
(* The process stops, by exit or crash, and starts again: restore.         *)

NothingInMemory ==
  /\ mem' = [q \in Query |-> Absent]
  /\ heap' = {} /\ sequence' = 0
  /\ ext' = [k \in Call |-> NoQuery]

Stop ==
  /\ up /\ stops < MaxStops
  /\ up' = FALSE /\ stops' = stops + 1
  /\ NothingInMemory
  /\ active' = NoQuery /\ preempt' = FALSE /\ pc' = "idle"
  /\ snap' = Absent /\ outcome' = TRUE
  /\ rejected' = {}
  /\ UNCHANGED <<accepted, disk, history, requeues, faults>>

\* A file sorted earlier carries the same external identity.
DuplicateIn(loaded, q) ==
  Keyed(q) /\ \E r \in loaded : Key[r] = Key[q] /\ Rank[r] < Rank[q]

\* RUNNING work is queued again after a restart.
ResumableMutant == {"queued", "paused", "running"}

\* The states restore queues again, and pushes.
Resumable == {"queued", "paused"}

\* FAILED work is offered to the operator again after a restart.
RestoredStateReopensMutant(loaded, q) ==
  IF \/ DuplicateIn(loaded, q)
     \/ disk[q].state \in {"running", "recovery_required", "failed"}
  THEN "recovery_required"
  ELSE IF disk[q].state = "paused" THEN "queued" ELSE disk[q].state

\* The state restore gives to a query it has loaded.
RestoredState(loaded, q) ==
  IF DuplicateIn(loaded, q) THEN "recovery_required"
  ELSE IF disk[q].state \in Resumable THEN "queued"
  ELSE IF disk[q].state = "running" THEN "recovery_required" ELSE disk[q].state

\* The first query in file order that carries an identity owns it, whatever its
\* state; every QUEUED or PAUSED file is pushed before its identity is checked.
Restore(loaded, lost) ==
  LET pushed   == loaded \cap InState(disk, Resumable)
      Order(q) == Cardinality({r \in pushed : Rank[r] <= Rank[q]})
      Restored(q) == In(disk[q], RestoredState(loaded, q))
  IN /\ mem' = [q \in Query |-> IF q \in loaded THEN Restored(q) ELSE Absent]
     /\ disk' = [q \in Query |->
                   IF /\ q \in loaded \ lost
                      /\ RestoredState(loaded, q) = "recovery_required"
                   THEN Restored(q) ELSE disk[q]]
     /\ heap' = {[seq |-> Order(q), id |-> q] : q \in pushed}
     /\ sequence' = Cardinality(pushed)
     /\ ext' = [k \in Call |->
                  LET owners == {q \in loaded : Key[q] = k
                                                /\ ~ DuplicateIn(loaded, q)}
                  IN IF owners = {} THEN NoQuery ELSE CHOOSE q \in owners : TRUE]

\* The constructor of AbiyssRuntime restores the queue before anyone can use
\* it.  A file may be unreadable and a query found ambiguous may fail to be
\* saved; both are only audited.
Start ==
  /\ ~ up
  /\ up' = TRUE
  /\ accepted' \in Registries
  /\ \E unread \in SUBSET Present(disk), lost \in SUBSET Present(disk) :
       /\ unread # {} => "read" \in Faults
       /\ lost # {} => "fail" \in Faults
       /\ faults' = faults + Cardinality(unread) + Cardinality(lost)
       /\ faults' <= MaxFaults
       /\ Restore(Present(disk) \ unread, lost)
  /\ UNCHANGED <<laneVars, rejected, history, requeues, stops>>

-----------------------------------------------------------------------------
Init ==
  /\ up = TRUE
  /\ accepted \in Registries
  /\ mem = [q \in Query |-> Absent] /\ disk = [q \in Query |-> Absent]
  /\ heap = {} /\ sequence = 0 /\ ext = [k \in Call |-> NoQuery]
  /\ active = NoQuery /\ preempt = FALSE /\ pc = "idle"
  /\ snap = Absent /\ outcome = TRUE
  /\ rejected = {}
  /\ effects = [q \in Query |-> [s \in Step |-> 0]]
  /\ unsuccessful = [q \in Query |-> {}]
  /\ requeues = [q \in Query |-> 0]
  /\ faults = 0 /\ stops = 0

Client(q)   == SubmitRefused(q) \/ SubmitNotSaved(q) \/ SubmitAdmitted(q)
               \/ RecordFailed(q)
Operator(q) == ResolveCancel(q) \/ ResolveRequeue(q)
RunOnce == \/ Pick \/ FindIdle \/ MarkRunning \/ SaveRunning \/ SaveRunningFails
           \/ RefuseStep \/ SaveRefused \/ ExecuteTool \/ RecordResult
           \/ SaveResult \/ SaveResultFails \/ SaveResume \/ Requeue \/ Finish

Next == \/ \E q \in Query : Client(q) \/ Operator(q)
        \/ RunOnce
        \/ Stop \/ Start

Spec == Init /\ [][Next]_vars

-----------------------------------------------------------------------------
(* Type invariant.                                                         *)

Label == {"idle", "picked", "save_running", "ready", "save_refused",
          "executed", "save_result", "save_resume", "requeue", "finish"}

\* Every variable has its type: a query id is on the lane only inside run_once.
TypeOK ==
  /\ up \in BOOLEAN /\ accepted \in SUBSET Query
  /\ mem \in [Query -> Record] /\ disk \in [Query -> Record]
  /\ heap \subseteq [seq : Nat, id : Query] /\ sequence \in Nat
  /\ ext \in [Call -> Query \cup {NoQuery}]
  /\ active \in Query \cup {NoQuery} /\ (active = NoQuery <=> pc = "idle")
  /\ preempt \in BOOLEAN /\ pc \in Label /\ snap \in Record
  /\ outcome \in BOOLEAN
  /\ rejected \in SUBSET Query
  /\ effects \in [Query -> [Step -> Nat]]
  /\ unsuccessful \in [Query -> SUBSET Step]
  /\ requeues \in [Query -> Nat]
  /\ faults \in Nat /\ stops \in Nat

-----------------------------------------------------------------------------
(* Recovery: what an effect leaves behind, and what may follow it.         *)

\* README.md, "never replayed automatically": whatever fails and whenever the
\* process stops, a step is executed once, and once more for each time the
\* operator explicitly requeued its query.
NoAutomaticReplay ==
  \A q \in Query, s \in Step : effects[q][s] <= 1 + requeues[q]

\* docs/SECURITY.md, "the durable state remains evidence that the operation may
\* have happened": unless the operator requeued it, a query whose step was
\* executed is never left on disk in a state a restart would run that step from.
EffectIsEvident ==
  \A q \in Query, s \in Step :
    effects[q][s] > requeues[q] /\ disk[q].state \in {"absent", "queued", "paused"}
      => disk[q].next_step > s

\* README.md, "must durably persist the Query as running": at the instant a tool
\* is called, the file of its query says RUNNING at the very step that is called,
\* unless record_failed has overruled the running query (then both say FAILED).
DurableRunningBeforeEffect ==
  [][\A q \in Query, s \in Step :
       effects'[q][s] # effects[q][s] /\ mem[q].state = "running"
         => disk[q] = [state |-> "running", next_step |-> s]]_vars

\* docs/BUILD_REPORT.md, "resumes from the durably recorded next step": no save
\* of the lane, of the operator, of a client or of restore moves a durable
\* checkpoint back.
CheckpointNeverRegresses ==
  [][\A q \in Query : disk'[q].next_step >= disk[q].next_step]_vars

\* A query is COMPLETED on disk only if each of its steps was executed and the
\* latest execution of each reported success (run_once stops at a failed step).
\* An operator's requeue may resume behind a step that failed.
CompletedMeansSucceeded ==
  \A q \in Query : disk[q].state = "completed" /\ requeues[q] = 0 =>
    \A s \in 0..(Steps[q] - 1) : effects[q][s] > 0 /\ s \notin unsuccessful[q]

-----------------------------------------------------------------------------
(* States that are final, and identities that are unique.                  *)

SharesCall(q) == Keyed(q) /\ \E r \in Query \ {q} : Key[r] = Key[q]

\* The transition table has no way out of COMPLETED, FAILED and CANCELLED: no save of
\* any actor and no restart takes a file out of such a state, for a query that shares
\* its external identity with no other and whose admission was not reported as a
\* failure.
DurableTerminalIsFinal ==
  [][\A q \in Query \ rejected :
       disk[q].state \in Terminal /\ ~ SharesCall(q)
         => disk'[q].state = disk[q].state]_vars

\* docs/BUILD_REPORT.md, "identities are not executed twice": two queries of
\* one external identity are not both executed, unless the operator requeued one.
DuplicateCallOnce ==
  \A q, r \in Query :
    q # r /\ Keyed(q) /\ Key[q] = Key[r] /\ requeues[q] + requeues[r] = 0
      => effects[q][0] = 0 \/ effects[r][0] = 0

-----------------------------------------------------------------------------
(* Scheduling.                                                             *)

\* A query that is QUEUED in memory is in the heap, or on the lane and on its
\* way back there: none is forgotten.
QueuedIsScheduled ==
  \A q \in Query : mem[q].state = "queued" =>
    \/ \E e \in heap : e.id = q
    \/ active = q /\ pc \in {"picked", "save_result", "save_resume", "requeue"}

\* docs/ARCHITECTURE.md, section 4: when the lane takes a query, no query that
\* is QUEUED is of a better class, or of its class and a higher priority.
BestQueuedRunsNext ==
  [][active' # NoQuery /\ active' # active =>
       \A r \in Query : mem[r].state = "queued" => ~ Outranks(r, active')]_vars

\* "active Query capacity reached": only restore, which takes what is on disk, may
\* bring the queue above its capacity; no client, operator or step of the lane does.
CapacityRespected ==
  [][LET Load == Cardinality(InState(mem, Unsettled))
     IN up /\ Load' > Load => Load' <= MaxQueries]_vars

\* docs/ARCHITECTURE.md, section 4, has run_once run, pause and resume until nothing is
\* left: when the lane is idle and nothing is ready, each query the process knows is
\* over or before the operator, in memory and on disk.  None is left RUNNING or PAUSED
\* on the way, and none has reached its end in memory only.
IdleMeansSettled ==
  up /\ pc = "idle" /\ Ready = {} =>
    \A q \in Query : mem[q].state # "absent" =>
      {mem[q].state, disk[q].state} \subseteq Terminal \cup {"recovery_required"}

-----------------------------------------------------------------------------
(* Why NoAutomaticReplay holds: the inductive invariant.                   *)

\* From step n on, nothing was executed beyond what the operator asked for.
CleanFrom(q, n) == \A s \in Step : s >= n => effects[q][s] <= requeues[q]

\* A record in a state from which its next step may be run automatically
\* promises that this step and those after it are clean.
Startable     == {"absent", "queued", "paused"}
Unspent(q, r) == r.state \in Startable => CleanFrom(q, r.next_step)

LaneShape ==
  /\ ~ up => pc = "idle" /\ rejected = {}
  /\ pc # "idle" => mem[active].state # "absent"
  /\ pc = "executed" => mem[active].next_step < Steps[active]

EvidenceOnDisk ==
  \A q \in Query : /\ disk[q].state = "absent" => disk[q].next_step = 0
                   /\ Unspent(q, disk[q])

EvidenceInMemory ==
  \A q \in Query : mem[q].state # "absent" => Unspent(q, mem[q])

\* The lane calls a tool only while disk and memory hold the query in a state
\* no restart or requeue would run it from, and what it is about to save is as
\* good as what it replaces.
EvidenceOnLane ==
  /\ pc = "save_running" => snap.state = "running"
  /\ pc = "save_refused" => snap.state = "recovery_required"
  /\ pc \in {"save_result", "save_resume"}
       => snap.state # "absent" /\ Unspent(active, snap)
  /\ pc \in {"save_running", "ready", "executed"}
       => mem[active].state \in {"running", "failed"}
  /\ pc \in {"ready", "executed"} => disk[active].state \notin Startable
  /\ pc \in {"picked", "save_running", "ready", "save_result", "save_resume"}
       => CleanFrom(active, mem[active].next_step)
  /\ pc = "executed" => CleanFrom(active, mem[active].next_step + 1)

\* TypeOK and NoAutomaticReplay with what makes them inductive: every record,
\* in memory, on disk or in the hand of the lane, that could start a step again
\* has no effect of that step behind it.
ReplayInvariant ==
  /\ TypeOK /\ LaneShape
  /\ NoAutomaticReplay
  /\ EvidenceOnDisk /\ EvidenceInMemory /\ EvidenceOnLane

-----------------------------------------------------------------------------
(* What all this implements.                                               *)

\* The step from which a process that starts now would run q by itself.
StartOf(q) == IF disk[q].state \in Startable THEN disk[q].next_step ELSE -1

Durable == INSTANCE DurableEffect
             WITH start <- [q \in Query |-> StartOf(q)],
                  ran <- effects, granted <- requeues

\* README.md, "never replayed automatically", as a specification of its own: with
\* lane, clients, operator, faults and restarts the queue does to files and effects
\* only what DurableEffect allows.  A file is opened in front of unspent steps
\* only, and a tool is called only behind a file that is closed.
ImplementsDurableEffect == Durable!EffectSpec
=============================================================================
