------------------------- MODULE QueryQueueScheduling -------------------------
(***************************************************************************)
(* Which query the lane takes next, and what is left when it finds none:   *)
(* theorems about QueryQueue for any queries, priorities and capacity.     *)
(***************************************************************************)
EXTENDS QueryQueueFifo, QueryQueueOutcome

USE QueryAssumption, CallAssumption

-----------------------------------------------------------------------------
(* The order of the heap.                                                  *)

Entry == [seq : Nat, id : Query]

\* Before, the comparison heapq makes, is a strict order on entries, and total on
\* entries of different sequence numbers.
LEMMA BeforeIsOrder ==
  ASSUME NEW c \in Entry, NEW d \in Entry, NEW e \in Entry
  PROVE  /\ ~ Before(d, d)
         /\ Before(c, d) /\ Before(d, e) => Before(c, e)
         /\ d.seq # e.seq => Before(d, e) \/ Before(e, d)
<1>1. \A q \in Query : Class(q) \in Int /\ Priority[q] \in Int
  BY PriorityAssumption DEF Class
<1> QED BY <1>1 DEF Entry, Before, Outranks

\* Finitely many entries of different sequence numbers have a first one.
LEMMA FirstEntry ==
  ASSUME NEW S \in SUBSET Entry, IsFiniteSet(S), S # {},
         \A d, e \in S : d.seq = e.seq => d = e
  PROVE  \E e \in S : \A d \in S \ {e} : Before(e, d)
<1> DEFINE Ahead(e) == {d \in S : Before(d, e)}
           T == {Cardinality(Ahead(e)) : e \in S}
<1>1. \A e \in S : IsFiniteSet(Ahead(e)) /\ Cardinality(Ahead(e)) \in Nat
  BY FS_Subset, FS_CardinalityType
<1> HIDE DEF Ahead
<1>2. T \in SUBSET Nat /\ T # {}
  BY <1>1
<1> HIDE DEF T
<1>3. PICK m \in T : \A n \in T : m <= n
  BY <1>2, Least
<1>4. PICK e \in S : m = Cardinality(Ahead(e))
  BY DEF T
<1>5. SUFFICES ASSUME NEW d \in S \ {e}, ~ Before(e, d) PROVE FALSE
  BY <1>4
<1>6. Before(d, e)
  BY <1>5, BeforeIsOrder
<1>7. Ahead(d) \subseteq Ahead(e)
  BY <1>6, BeforeIsOrder DEF Ahead
<1>8. d \in Ahead(e) /\ d \notin Ahead(d)
  BY <1>6, BeforeIsOrder DEF Ahead
<1>9. Cardinality(Ahead(d)) <= m /\ Cardinality(Ahead(d)) # m
  BY <1>1, <1>4, <1>7, <1>8, FS_Subset
<1>10. Cardinality(Ahead(d)) \in T
  BY DEF T
<1> QED BY <1>1, <1>3, <1>4, <1>9, <1>10

\* The heap is finite, and its sequence numbers are all different and all used up.
HeapOrdered ==
  /\ IsFiniteSet(heap)
  /\ \A d, e \in heap : d.seq = e.seq => d = e
  /\ \A e \in heap : e.seq <= sequence

\* Restore numbers what it pushes by the rank of its file, without gaps or repetitions.
LEMMA RestoredOrder ==
  ASSUME TypeOK, NEW loaded \in SUBSET Query, NEW lost, Restore(loaded, lost)
  PROVE  HeapOrdered'
<1> DEFINE pushed == loaded \cap InState(disk, Resumable)
           UpTo(q) == {r \in pushed : Rank[r] <= Rank[q]}
           Order(q) == Cardinality(UpTo(q))
<1>1. heap' = {[seq |-> Order(q), id |-> q] : q \in pushed}
  BY DEF Restore
<1>2. sequence' = Cardinality(pushed)
  BY DEF Restore
<1>3. pushed \subseteq Query /\ IsFiniteSet(pushed)
  BY FS_Subset
<1>4. ASSUME NEW q \in pushed
      PROVE  IsFiniteSet(UpTo(q)) /\ Order(q) \in Nat /\ Order(q) <= Cardinality(pushed)
  BY <1>3, FS_Subset, FS_CardinalityType
<1> HIDE DEF pushed
<1>5. ASSUME NEW q \in pushed, NEW r \in pushed, Order(q) = Order(r),
             Rank[q] <= Rank[r]
      PROVE  q = r
  <2>1. \A p \in Query : Rank[p] \in Nat
    BY RankAssumption
  <2>2. UpTo(q) \subseteq UpTo(r)
    BY <1>3, <1>5, <2>1
  <2>3. r \in UpTo(r)
    BY <1>3, <2>1
  <2>4. UpTo(q) = UpTo(r)
    BY <1>4, <1>5, <2>2, FS_Subset
  <2>5. Rank[r] <= Rank[q]
    BY <2>3, <2>4
  <2> QED BY <1>3, <1>5, <2>1, <2>5, RankAssumption
<1> HIDE DEF UpTo, Order
<1>6. \A q, r \in pushed : Order(q) = Order(r) => q = r
  BY <1>3, <1>5, RankAssumption
<1>7. IsFiniteSet(heap')
  <2> DEFINE f == [q \in pushed |-> [seq |-> Order(q), id |-> q]]
  <2>1. f \in Surjection(pushed, heap')
    BY <1>1 DEF Surjection
  <2> HIDE DEF f
  <2> QED BY <1>3, <2>1, FS_Surjection
<1>8. \A d, e \in heap' : d.seq = e.seq => d = e
  BY <1>1, <1>6
<1>9. \A e \in heap' : e.seq <= sequence'
  BY <1>1, <1>2, <1>4 DEF Order
<1> QED BY <1>7, <1>8, <1>9 DEF HeapOrdered

\* But for a restart, a step leaves the heap alone, pushes one query or drops entries.
LEMMA HeapChanges ==
  ASSUME TypeOK, [Next]_vars, ~ Start
  PROVE  \/ UNCHANGED <<heap, sequence>>
         \/ \E q \in Query : Push(q)
         \/ heap' \subseteq heap /\ (sequence' = sequence \/ heap' = {})
<1> DEFINE Same == UNCHANGED <<heap, sequence>>
           Pushed == \E q \in Query : Push(q)
           Popped == heap' \subseteq heap /\ (sequence' = sequence \/ heap' = {})
<1>1. ASSUME NEW q \in Query, Client(q) \/ Operator(q) PROVE Same \/ Pushed
  BY <1>1 DEF Client, SubmitRefused, SubmitNotSaved, SubmitAdmitted, RecordFailed,
     Operator, ResolveCancel, ResolveRequeue, queueVars
<1>2. ASSUME Requeue PROVE Pushed
  BY <1>2 DEF Requeue, TypeOK
<1>3. ASSUME Pick \/ FindIdle \/ Stop PROVE Popped
  BY <1>3 DEF Pick, FindIdle, Stop, AfterPop, NothingInMemory
<1>4. ASSUME RunOnce, ~ Pick, ~ FindIdle, ~ Requeue PROVE Same
  BY <1>4 DEF RunOnce, MarkRunning, SaveRunning, SaveRunningFails, RefuseStep,
     SaveRefused, ExecuteTool, RecordResult, SaveResult, SaveResultFails, SaveResume,
     Finish, queueVars
<1>5. ASSUME UNCHANGED vars PROVE Same
  BY <1>5 DEF vars, queueVars
<1> QED BY <1>1, <1>2, <1>3, <1>4, <1>5 DEF Next

\* Every step keeps the heap in order.
LEMMA HeapStep == TypeOK /\ HeapOrdered /\ [Next]_vars => HeapOrdered'
<1> SUFFICES ASSUME TypeOK, HeapOrdered, [Next]_vars PROVE HeapOrdered'
  OBVIOUS
<1> USE DEF HeapOrdered
<1>1. sequence \in Nat /\ \A e \in heap : e.seq \in Nat
  BY DEF TypeOK
<1>2. CASE UNCHANGED <<heap, sequence>>
  BY <1>2
<1>3. ASSUME NEW q \in Query, Push(q) PROVE HeapOrdered'
  <2>1. IsFiniteSet(heap')
    BY <1>3, FS_AddElement DEF Push
  <2>2. /\ \A d, e \in heap' : d.seq = e.seq => d = e
        /\ \A e \in heap' : e.seq <= sequence'
    BY <1>1, <1>3 DEF Push
  <2> QED BY <2>1, <2>2
<1>4. CASE heap' \subseteq heap /\ (sequence' = sequence \/ heap' = {})
  BY <1>4, FS_Subset
<1>5. CASE Start
  BY <1>5, RestoredOrder DEF Start, Present
<1> QED BY <1>2, <1>3, <1>4, <1>5, HeapChanges

\* Exactly one of the QUEUED entries comes before all others.
NextIsDetermined ==
  Ready # {} => \E e \in Ready : /\ \A d \in Ready \ {e} : Before(e, d)
                                 /\ \A f \in Ready \ {e} : ~ Before(f, e)

\* The lane never has to choose and never gets stuck: whatever was pushed, popped and
\* restored, if some entry is QUEUED then _next_id has exactly one answer.
THEOREM LaneNeverChooses == Spec => []NextIsDetermined
<1>1. Init => HeapOrdered
  BY FS_EmptySet DEF Init, HeapOrdered
<1>2. TypeOK /\ HeapOrdered => NextIsDetermined
  <2> SUFFICES ASSUME TypeOK, HeapOrdered, Ready # {}
               PROVE  \E e \in Ready : /\ \A d \in Ready \ {e} : Before(e, d)
                                       /\ \A f \in Ready \ {e} : ~ Before(f, e)
    BY DEF NextIsDetermined
  <2>1. Ready \in SUBSET Entry /\ IsFiniteSet(Ready)
        /\ \A d, e \in Ready : d.seq = e.seq => d = e
    BY FS_Subset DEF HeapOrdered, Ready, TypeOK, Entry
  <2>2. PICK e \in Ready : \A d \in Ready \ {e} : Before(e, d)
    BY <2>1, FirstEntry
  <2>3. \A f \in Ready \ {e} : ~ Before(f, e)
    BY <2>1, <2>2, BeforeIsOrder
  <2> QED BY <2>2, <2>3
<1> QED BY <1>1, <1>2, HeapStep, TypesHold, PTL DEF Spec

-----------------------------------------------------------------------------
(* No QUEUED query is forgotten.                                           *)

\* What is left to save once a result is recorded is what memory holds, unless
\* record_failed has overruled it.
ResultInHand ==
  /\ pc = "save_result" => /\ snap.state \in {"failed", "completed", "paused", "queued"}
                           /\ mem[active].state \in {snap.state, "failed"}
  /\ pc = "save_resume" => mem[active].state \in {"queued", "failed"}

\* Every step keeps it.
LEMMA ResultStep == ReplayInvariant /\ ResultInHand /\ [Next]_vars => ResultInHand'
<1> SUFFICES ASSUME ReplayInvariant, ResultInHand, [Next]_vars PROVE ResultInHand'
  OBVIOUS
<1> USE DEF ReplayInvariant
<1>1. /\ pc # "idle" => active \in Query
      /\ mem \in [Query -> Record]
  BY DEF TypeOK
<1> DEFINE OnLane == UNCHANGED <<active, pc, snap>>
           Rest == {"idle", "picked", "save_running", "ready", "save_refused", "executed",
                    "requeue", "finish"}
\* Clients and the operator change no query that has a result in hand, except that
\* record_failed may overrule it.
<1>2. ASSUME OnLane,
             \A p \in Query : \/ mem'[p] = mem[p] \/ mem'[p].state = "failed"
                              \/ mem[p].state \in {"absent", "recovery_required"}
      PROVE  ResultInHand'
  <2>1. pc # "idle" => mem[active].state # "absent"
    BY DEF LaneShape
  <2> QED BY <1>1, <1>2, <2>1 DEF ResultInHand
<1>3. ASSUME pc' \in Rest PROVE ResultInHand'
  BY <1>3 DEF ResultInHand
<1>4. ASSUME NEW q \in Query, Client(q) PROVE ResultInHand'
  <2>1. ASSUME SubmitRefused(q) \/ SubmitNotSaved(q) PROVE ResultInHand'
    BY <1>2, <2>1 DEF SubmitRefused, SubmitNotSaved, queueVars, laneVars
  <2>2. ASSUME SubmitAdmitted(q) PROVE ResultInHand'
    BY <1>1, <1>2, <2>2 DEF SubmitAdmitted, IsNew
  <2>3. ASSUME RecordFailed(q) PROVE ResultInHand'
    <3> DEFINE r == In(IF mem[q].state = "absent" THEN Fresh ELSE mem[q], "failed")
    <3>1. r.state = "failed"
      BY <1>1, FreshTypes, InType DEF State, Terminal
    <3>2. mem' = mem \/ mem' = [mem EXCEPT ![q] = r]
      BY <2>3 DEF RecordFailed
    <3>3. OnLane
      BY <2>3 DEF RecordFailed, laneVars
    <3> QED BY <1>1, <1>2, <3>1, <3>2, <3>3
  <2> QED BY <1>4, <2>1, <2>2, <2>3 DEF Client
<1>5. ASSUME NEW q \in Query, Operator(q) PROVE ResultInHand'
  <2>1. AwaitsRecovery(q) /\ OnLane /\ \E t : SetState(q, t)
    BY <1>5 DEF Operator, ResolveCancel, ResolveRequeue, laneVars
  <2> QED BY <1>1, <1>2, <2>1 DEF AwaitsRecovery, SetState
<1>6. ASSUME Pick \/ FindIdle \/ MarkRunning \/ SaveRunning \/ SaveRunningFails
             \/ RefuseStep \/ SaveRefused \/ ExecuteTool \/ SaveResultFails
             \/ Requeue \/ Finish
      PROVE  ResultInHand'
  <2>1. pc' \in Rest
    BY <1>6 DEF Pick, FindIdle, MarkRunning, RunningNotPersisted, SaveRunning,
       SaveRunningFails, RefuseStep, SaveRefused, ExecuteTool, SaveResultFails, Requeue,
       Finish, Goto, laneVars
  <2> QED BY <1>3, <2>1
<1>7. ASSUME RecordResult PROVE ResultInHand'
  <2> DEFINE next == mem[active].next_step + 1
             target == ResultState(active, next)
  <2>1. CASE pc' = "finish"
    BY <1>3, <2>1
  <2>2. CASE pc' # "finish"
    <3>1. /\ mem' = [mem EXCEPT ![active] = [state |-> target, next_step |-> next]]
          /\ snap' = [state |-> target, next_step |-> next]
          /\ pc' = "save_result" /\ pc = "executed" /\ active' = active
      BY <1>7, <2>2 DEF RecordResult, Goto
    <3>2. target \in {"failed", "completed", "paused", "queued"}
      BY DEF ResultState
    <3> HIDE DEF next, target
    <3>3. mem'[active'] = snap' /\ snap'.state = target
      BY <1>1, <3>1
    <3> QED BY <3>1, <3>2, <3>3 DEF ResultInHand
  <2> QED BY <2>1, <2>2
<1>8. ASSUME SaveResult PROVE ResultInHand'
  <2>1. CASE snap.state = "paused"
    <3>1. /\ SetState(active, "queued") /\ pc' = "save_resume" /\ active' = active
          /\ pc = "save_result"
      BY <1>8, <2>1 DEF SaveResult, Goto
    <3>2. mem'[active].state = "queued"
      BY <1>1, <3>1, InType DEF SetState, State, Unsettled
    <3> QED BY <3>1, <3>2 DEF ResultInHand
  <2>2. CASE snap.state # "paused"
    BY <1>3, <1>8, <2>2 DEF SaveResult, Goto
  <2> QED BY <2>1, <2>2
<1>9. ASSUME SaveResume PROVE ResultInHand'
  BY <1>3, <1>9 DEF SaveResume, Goto
<1>10. ASSUME Stop \/ Start PROVE ResultInHand'
  BY <1>3, <1>10 DEF Stop, Start, laneVars, LaneShape
<1>11. ASSUME UNCHANGED vars PROVE ResultInHand'
  BY <1>11 DEF vars, queueVars, laneVars, ResultInHand
<1> QED BY <1>4, <1>5, <1>6, <1>7, <1>8, <1>9, <1>10, <1>11 DEF Next, RunOnce

\* Until something fails nobody but the lane changes the query it took: a query that
\* awaits record_failed is not in memory.
TakenAsQueued ==
  faults = 0 =>
    /\ \A q \in rejected : mem[q].state = "absent"
    /\ pc = "picked" => mem[active].state = "queued"

\* Every step keeps it.
LEMMA TakenStep ==
  ASSUME ReplayInvariant, TakenAsQueued, [Next]_vars
  PROVE  TakenAsQueued'
<1> USE DEF ReplayInvariant
<1>1. /\ pc # "idle" => active \in Query /\ mem[active].state # "absent"
      /\ mem \in [Query -> Record] /\ rejected \in SUBSET Query
      /\ faults \in Nat /\ MaxFaults \in Nat
  BY BoundAssumption DEF TypeOK, LaneShape
\* Clients and the operator do not touch a query on the lane.
<1>2. ASSUME faults' = faults, UNCHANGED <<active, pc>>,
             \A q \in rejected' : mem'[q].state = "absent" \/ faults' # 0,
             pc = "picked" => mem'[active] = mem[active] \/ faults' # 0
      PROVE  TakenAsQueued'
  BY <1>2 DEF TakenAsQueued
<1>3. ASSUME faults' > 0 PROVE TakenAsQueued'
  BY <1>3 DEF TakenAsQueued
\* The lane settles or runs a query nobody rejects.
<1>4. ASSUME pc # "idle", faults' = faults, rejected' = rejected, pc' # "picked",
             \A q \in Query \ {active} : mem'[q] = mem[q]
      PROVE  TakenAsQueued'
  BY <1>1, <1>4 DEF TakenAsQueued
<1>5. ASSUME NEW q \in Query, SubmitRefused(q) PROVE TakenAsQueued'
  <2>1. mem' = mem /\ mem[q].state = "absent" /\ rejected' \subseteq rejected \cup {q}
    BY <1>5 DEF SubmitRefused, IsNew, Reject, queueVars
  <2>2. faults' = faults /\ UNCHANGED <<active, pc>>
    BY <1>5 DEF SubmitRefused, laneVars
  <2> QED BY <1>2, <2>1, <2>2 DEF TakenAsQueued
<1>6. ASSUME NEW q \in Query, SubmitNotSaved(q) PROVE TakenAsQueued'
  BY <1>1, <1>3, <1>6 DEF SubmitNotSaved, SaveFaults, Injectable, Save
<1>7. ASSUME NEW q \in Query, SubmitAdmitted(q) PROVE TakenAsQueued'
  <2>1. CASE faults' = faults + 1
    BY <1>1, <1>3, <2>1
  <2>2. CASE faults' # faults + 1
    <3>1. /\ mem' = [mem EXCEPT ![q] = Fresh] /\ UNCHANGED <<rejected, faults, active, pc>>
          /\ mem[q].state = "absent" /\ q \notin rejected
      BY <1>7, <2>2 DEF SubmitAdmitted, IsNew
    <3> QED BY <1>1, <1>2, <3>1 DEF TakenAsQueued
  <2> QED BY <2>1, <2>2
<1>8. ASSUME NEW q \in Query, RecordFailed(q) PROVE TakenAsQueued'
  <2> DEFINE r == In(IF mem[q].state = "absent" THEN Fresh ELSE mem[q], "failed")
  <2>1. /\ q \in rejected /\ rejected' = rejected \ {q} /\ UNCHANGED <<active, pc>>
        /\ mem' = mem \/ mem' = [mem EXCEPT ![q] = r]
        /\ faults' = faults \/ faults' = faults + 1
    BY <1>8 DEF RecordFailed, Save, laneVars
  <2> HIDE DEF r
  <2>2. CASE faults' = faults + 1
    BY <1>1, <1>3, <2>2
  <2>3. CASE faults' = faults
    BY <1>1, <1>2, <2>1, <2>3 DEF TakenAsQueued
  <2> QED BY <2>1, <2>2, <2>3
<1>9. ASSUME NEW q \in Query, Operator(q) PROVE TakenAsQueued'
  <2>1. /\ mem[q].state = "recovery_required" /\ UNCHANGED <<active, pc, rejected>>
        /\ \E t : SetState(q, t)
        /\ faults' = faults \/ faults' = faults + 1
    BY <1>9 DEF Operator, ResolveCancel, ResolveRequeue, AwaitsRecovery, laneVars, Save
  <2>2. CASE faults' = faults + 1
    BY <1>1, <1>3, <2>2
  <2>3. CASE faults' = faults
    <3>1. \A p \in Query \ {q} : mem'[p] = mem[p]
      BY <1>1, <2>1 DEF SetState
    <3> QED BY <1>1, <1>2, <2>1, <2>3, <3>1 DEF TakenAsQueued
  <2> QED BY <2>1, <2>2, <2>3
<1>10. ASSUME Pick PROVE TakenAsQueued'
  <2>1. mem' = mem /\ UNCHANGED <<rejected, faults>> /\ mem[active'].state = "queued"
    BY <1>10 DEF Pick, Ready
  <2> QED BY <2>1 DEF TakenAsQueued
<1>11. ASSUME FindIdle PROVE TakenAsQueued'
  BY <1>2, <1>11 DEF FindIdle, laneVars, TakenAsQueued
<1>12. ASSUME MarkRunning \/ SaveRunning \/ SaveRunningFails \/ RefuseStep \/ SaveRefused
              \/ ExecuteTool \/ RecordResult \/ SaveResult \/ SaveResultFails \/ SaveResume
              \/ Requeue \/ Finish
       PROVE  TakenAsQueued'
  <2>1. pc # "idle" /\ rejected' = rejected
    BY <1>12 DEF MarkRunning, SaveRunning, SaveRunningFails, RefuseStep, SaveRefused,
       ExecuteTool, RecordResult, SaveResult, SaveResultFails, SaveResume, Requeue, Finish
  <2>2. pc' # "picked"
    BY <1>12 DEF MarkRunning, RunningNotPersisted, SaveRunning, SaveRunningFails, RefuseStep,
       SaveRefused, ExecuteTool, RecordResult, SaveResult, SaveResultFails, SaveResume,
       Requeue, Finish, Goto
  <2>3. \A q \in Query \ {active} : mem'[q] = mem[q]
    BY <1>1, <1>12 DEF MarkRunning, RunningNotPersisted, SaveRunning, SaveRunningFails,
       RefuseStep, SaveRefused, ExecuteTool, RecordResult, SaveResult, SaveResultFails,
       SaveResume, Requeue, Finish, SetState, queueVars
  <2>4. faults' \in {faults, faults + 1, faults + 2}
    BY <1>12 DEF MarkRunning, RunningNotPersisted, SaveRunning, SaveRunningFails, RefuseStep,
       SaveRefused, ExecuteTool, RecordResult, SaveResult, SaveResultFails, SaveResume,
       Requeue, Finish, Save
  <2>5. CASE faults' = faults
    BY <1>4, <2>1, <2>2, <2>3, <2>5
  <2>6. CASE faults' # faults
    BY <1>1, <1>3, <2>4, <2>6
  <2> QED BY <2>5, <2>6
<1>13. ASSUME Stop \/ Start PROVE TakenAsQueued'
  BY <1>13 DEF Stop, Start, laneVars, LaneShape, TakenAsQueued
<1>14. ASSUME UNCHANGED vars PROVE TakenAsQueued'
  BY <1>14 DEF vars, queueVars, laneVars, TakenAsQueued
<1> QED BY <1>5, <1>6, <1>7, <1>8, <1>9, <1>10, <1>11, <1>12, <1>13, <1>14
        DEF Next, Client, RunOnce

\* No audit append raises behind another fault, and no save of a requeue does: what can
\* make a query QUEUED in memory and leave it outside the heap.
NothingDropped ==
  /\ MaxFaults <= 1 \/ "audit" \notin Faults
  /\ MaxRequeues = 0 \/ Faults \cap {"fail", "torn"} = {}

\* Under these conditions every step keeps QUEUED queries in the heap or on the lane.
LEMMA ScheduledStep ==
  ASSUME NothingDropped, ReplayInvariant, ResultInHand, TakenAsQueued, QueuedIsScheduled,
         [Next]_vars
  PROVE  QueuedIsScheduled'
<1> USE DEF ReplayInvariant
<1> DEFINE OnWay(q) == active = q /\ pc \in {"picked", "save_result", "save_resume", "requeue"}
           InHeap(q) == \E e \in heap : e.id = q
<1>1. /\ pc # "idle" => active \in Query
      /\ pc = "idle" => active \notin Query
      /\ mem \in [Query -> Record]
      /\ \A q \in Query : requeues[q] \in Nat
      /\ faults \in Nat /\ MaxFaults \in Nat
  BY BoundAssumption DEF TypeOK
<1>2. \A q \in Query : mem[q].state = "queued" => InHeap(q) \/ OnWay(q)
  BY DEF QueuedIsScheduled
<1>3. SUFFICES ASSUME NEW q \in Query, mem'[q].state = "queued"
               PROVE  InHeap(q)' \/ OnWay(q)'
  BY DEF QueuedIsScheduled
<1>4. ASSUME heap \subseteq heap', UNCHANGED <<active, pc>>, mem[q].state = "queued"
      PROVE  InHeap(q)' \/ OnWay(q)'
  BY <1>2, <1>4
<1>5. ASSUME NEW p \in Query, Push(p) PROVE heap \subseteq heap' /\ InHeap(p)'
  <2>1. [seq |-> sequence + 1, id |-> p] \in heap'
    BY <1>5 DEF Push
  <2> QED BY <1>5, <2>1 DEF Push
<1>6. ASSUME NEW p \in Query, NEW t \in State, SetState(p, t)
      PROVE  \A r \in Query : mem'[r] = IF r = p THEN In(mem[p], t) ELSE mem[r]
  BY <1>1, <1>6 DEF SetState
<1>7. ASSUME NEW p \in Query, NEW t \in State PROVE In(mem[p], t).state = t
  BY <1>1, InType
<1>8. "audit" \in Injectable({"audit"}) => faults = 0
  BY <1>1 DEF NothingDropped, Injectable
<1>9. ASSUME NEW p \in Query, Client(p) PROVE InHeap(q)' \/ OnWay(q)'
  <2>1. ASSUME SubmitRefused(p) \/ SubmitNotSaved(p) PROVE InHeap(q)' \/ OnWay(q)'
    BY <1>3, <1>4, <2>1 DEF SubmitRefused, SubmitNotSaved, queueVars, laneVars
  <2>2. ASSUME SubmitAdmitted(p) PROVE InHeap(q)' \/ OnWay(q)'
    BY <1>1, <1>3, <1>4, <1>5, <2>2 DEF SubmitAdmitted
  <2>3. ASSUME RecordFailed(p) PROVE InHeap(q)' \/ OnWay(q)'
    <3> DEFINE r == In(IF mem[p].state = "absent" THEN Fresh ELSE mem[p], "failed")
    <3>1. r.state = "failed"
      BY <1>1, FreshTypes, InType DEF State, Terminal
    <3>2. mem' = mem \/ mem' = [mem EXCEPT ![p] = r]
      BY <2>3 DEF RecordFailed
    <3> HIDE DEF r
    <3>3. mem'[q] = mem[q]
      BY <1>1, <1>3, <3>1, <3>2
    <3>4. UNCHANGED <<heap, active, pc>>
      BY <2>3 DEF RecordFailed, laneVars
    <3> QED BY <1>3, <1>4, <3>3, <3>4
  <2> QED BY <1>9, <2>1, <2>2, <2>3 DEF Client
<1>10. ASSUME NEW p \in Query, ResolveCancel(p) PROVE InHeap(q)' \/ OnWay(q)'
  <2>1. SetState(p, "cancelled") /\ UNCHANGED <<heap, active, pc>>
    BY <1>10 DEF ResolveCancel, laneVars
  <2>2. mem'[q] = mem[q]
    BY <1>3, <1>6, <1>7, <2>1 DEF State, Terminal
  <2> QED BY <1>3, <1>4, <2>1, <2>2
<1>11. ASSUME NEW p \in Query, ResolveRequeue(p) PROVE InHeap(q)' \/ OnWay(q)'
  <2>1. SaveOutcomes = {"ok"}
    BY <1>1, <1>11 DEF NothingDropped, ResolveRequeue, SaveOutcomes, SaveFaults, Injectable
  <2>2. SetState(p, "queued") /\ Push(p) /\ UNCHANGED <<active, pc>>
    BY <1>11, <2>1 DEF ResolveRequeue, laneVars
  <2> QED BY <1>3, <1>4, <1>5, <1>6, <2>2 DEF State, Unsettled
<1>12. ASSUME Pick PROVE InHeap(q)' \/ OnWay(q)'
  <2>1. PICK e \in Ready : /\ \A d \in Ready \ {e} : Before(e, d)
                           /\ heap' = AfterPop(e) /\ active' = e.id
    BY <1>12 DEF Pick
  <2>2. mem'[q] = mem[q] /\ pc = "idle" /\ pc' = "picked"
    BY <1>12 DEF Pick, Goto
  <2>3. PICK d \in heap : d.id = q
    BY <1>1, <1>2, <1>3, <2>2
  <2>4. d \in Ready
    BY <1>3, <2>2, <2>3 DEF Ready
  <2>5. CASE d = e
    BY <2>1, <2>2, <2>3, <2>5
  <2>6. CASE d # e
    BY <2>1, <2>3, <2>4, <2>6 DEF AfterPop
  <2> QED BY <2>5, <2>6
<1>13. ASSUME FindIdle PROVE InHeap(q)' \/ OnWay(q)'
  <2>1. mem'[q] = mem[q] /\ pc = "idle" /\ Ready = {}
    BY <1>13 DEF FindIdle
  <2> QED BY <1>1, <1>2, <1>3, <2>1 DEF Ready
\* A step inside run_once leaves every other query where it is.
<1> DEFINE Inside == pc # "idle" /\ heap \subseteq heap' /\ mem'[q] = mem[q]
<1>14. ASSUME Inside, ~ OnWay(q) PROVE InHeap(q)'
  BY <1>2, <1>3, <1>14
<1>15. ASSUME Inside, q # active PROVE InHeap(q)'
  BY <1>14, <1>15
<1>16. ASSUME MarkRunning PROVE InHeap(q)' \/ OnWay(q)'
  <2>1. pc = "picked" /\ heap' = heap /\ active' = active
    BY <1>16 DEF MarkRunning
  <2>2. CASE mem' = [mem EXCEPT ![active] = RunningRecord]
    <3>1. q # active
      BY <1>1, <1>3, <1>7, <2>1, <2>2 DEF RunningRecord, State, Unsettled
    <3> QED BY <1>1, <1>15, <2>1, <2>2, <3>1
  <2>3. CASE RunningNotPersisted
    <3>1. /\ SetState(active, "queued")
          /\ pc' = "requeue" \/ "audit" \in Injectable({"audit"})
      BY <2>3 DEF RunningNotPersisted, Goto
    <3>2. CASE faults = 0
      <4>1. <<mem[active].state, "running">> \in Allowed
        BY <2>1, <3>2 DEF TakenAsQueued, Allowed
      <4>2. mem' = [mem EXCEPT ![active] = RunningRecord]
        BY <1>16, <4>1 DEF MarkRunning
      <4>3. q # active
        BY <1>1, <1>3, <1>7, <2>1, <4>2 DEF RunningRecord, State, Unsettled
      <4> QED BY <1>1, <1>15, <2>1, <4>2, <4>3
    <3>3. CASE pc' = "requeue"
      BY <1>1, <1>6, <1>15, <2>1, <3>1, <3>3 DEF State, Unsettled
    <3> QED BY <1>8, <3>1, <3>2, <3>3
  <2> QED BY <1>16, <2>2, <2>3 DEF MarkRunning
<1>17. ASSUME SaveRunning \/ SaveRefused \/ ExecuteTool PROVE InHeap(q)' \/ OnWay(q)'
  BY <1>14, <1>17 DEF SaveRunning, SaveRefused, ExecuteTool, queueVars
<1>18. ASSUME SaveRunningFails PROVE InHeap(q)' \/ OnWay(q)'
  <2>1. /\ pc = "save_running" /\ heap' = heap /\ active' = active
        /\ SetState(active, "queued") /\ pc' = "requeue"
    BY <1>1, <1>18 DEF SaveRunningFails, Goto, NothingDropped
  <2> QED BY <1>1, <1>6, <1>15, <2>1 DEF State, Unsettled
<1>19. ASSUME RefuseStep \/ SaveResultFails PROVE InHeap(q)' \/ OnWay(q)'
  <2>1. pc # "idle" /\ heap' = heap /\ SetState(active, "recovery_required")
    BY <1>19 DEF RefuseStep, SaveResultFails
  <2>2. q # active /\ mem'[q] = mem[q]
    BY <1>1, <1>3, <1>6, <1>7, <2>1 DEF State, Unsettled
  <2> QED BY <1>15, <2>1, <2>2
<1>20. ASSUME RecordResult PROVE InHeap(q)' \/ OnWay(q)'
  <2>1. pc = "executed" /\ heap' = heap /\ active' = active
    BY <1>20 DEF RecordResult
  <2> DEFINE Result(s) == [state |-> s, next_step |-> mem[active].next_step + 1]
  <2>2. PICK s : /\ mem' = [mem EXCEPT ![active] = Result(s)]
                 /\ pc' = "save_result" \/ s = "recovery_required"
    BY <1>20 DEF RecordResult, Goto
  <2>3. q = active => pc' = "save_result"
    BY <1>1, <1>3, <2>1, <2>2
  <2> QED BY <1>1, <1>15, <2>1, <2>2, <2>3
<1>21. ASSUME SaveResult PROVE InHeap(q)' \/ OnWay(q)'
  <2>1. pc = "save_result" /\ heap' = heap /\ active' = active
    BY <1>21 DEF SaveResult
  <2>2. CASE snap.state = "paused"
    <3>1. SetState(active, "queued") /\ pc' = "save_resume"
      BY <1>21, <2>2 DEF SaveResult, Goto
    <3> QED BY <1>1, <1>6, <1>15, <2>1, <3>1 DEF State, Unsettled
  <2>3. CASE snap.state # "paused"
    <3>1. mem' = mem /\ pc' = IF snap.state = "queued" THEN "requeue" ELSE "finish"
      BY <1>21, <2>3 DEF SaveResult, Goto
    <3>2. q = active => snap.state = "queued"
      BY <1>3, <2>1, <3>1 DEF ResultInHand
    <3> QED BY <1>15, <2>1, <3>1, <3>2
  <2> QED BY <2>2, <2>3
<1>22. ASSUME SaveResume PROVE InHeap(q)' \/ OnWay(q)'
  <2>1. pc = "save_resume" /\ heap' = heap /\ active' = active
    BY <1>22 DEF SaveResume
  <2>2. \/ mem' = mem /\ pc' = "requeue"
        \/ SetState(active, "paused")
    BY <1>22 DEF SaveResume, Goto
  <2>3. CASE mem' = mem /\ pc' = "requeue"
    BY <1>15, <2>1, <2>3
  <2>4. CASE SetState(active, "paused")
    <3>1. q # active /\ mem'[q] = mem[q]
      BY <1>1, <1>3, <1>6, <1>7, <2>1, <2>4 DEF State, Unsettled
    <3> QED BY <1>15, <2>1, <3>1
  <2> QED BY <2>2, <2>3, <2>4
<1>23. ASSUME Requeue PROVE InHeap(q)' \/ OnWay(q)'
  <2>1. pc = "requeue" /\ Push(active) /\ mem' = mem /\ active \in Query
    BY <1>1, <1>23 DEF Requeue
  <2> QED BY <1>5, <1>15, <2>1
<1>24. ASSUME Finish PROVE InHeap(q)' \/ OnWay(q)'
  BY <1>14, <1>24 DEF Finish, queueVars
<1>25. ~ Stop
  BY <1>3 DEF Stop, NothingInMemory, Absent
<1>26. ASSUME Start PROVE InHeap(q)' \/ OnWay(q)'
  <2>1. PICK unread \in SUBSET Present(disk), lost \in SUBSET Present(disk) :
          Restore(Present(disk) \ unread, lost)
    BY <1>26 DEF Start
  <2> DEFINE loaded == Present(disk) \ unread
             pushed == loaded \cap InState(disk, Resumable)
             Order(p) == Cardinality({r \in pushed : Rank[r] <= Rank[p]})
  <2>2. mem'[q] = IF q \in loaded THEN In(disk[q], RestoredState(loaded, q)) ELSE Absent
    BY <2>1 DEF Restore
  <2>3. disk[q] \in Record /\ RestoredState(loaded, q) \in State
    BY DEF TypeOK, RestoredState, Resumable, State, Unsettled, Terminal, Record
  <2>4. q \in loaded /\ RestoredState(loaded, q) = "queued"
    BY <1>3, <2>2, <2>3, InType DEF Absent
  <2>5. q \in pushed
    BY <2>4 DEF RestoredState, InState, Resumable
  <2>6. heap' = {[seq |-> Order(p), id |-> p] : p \in pushed}
    BY <2>1 DEF Restore
  <2> HIDE DEF pushed, Order
  <2>7. [seq |-> Order(q), id |-> q] \in heap'
    BY <2>5, <2>6
  <2> QED BY <2>7
<1>27. ASSUME UNCHANGED vars PROVE InHeap(q)' \/ OnWay(q)'
  BY <1>3, <1>4, <1>27 DEF vars, queueVars, laneVars
<1> QED
  BY <1>9, <1>10, <1>11, <1>12, <1>13, <1>16, <1>17, <1>18, <1>19, <1>20, <1>21,
     <1>22, <1>23, <1>24, <1>25, <1>26, <1>27
  DEF Next, Operator, RunOnce

\* A query that is QUEUED in memory is in the heap or on its way back there.
THEOREM NoneIsForgotten ==
  ASSUME NothingDropped
  PROVE  Spec => []QueuedIsScheduled
<1>1. Init => ResultInHand /\ TakenAsQueued /\ QueuedIsScheduled
  BY DEF Init, ResultInHand, TakenAsQueued, QueuedIsScheduled, Absent
<1>2. ReplayInvariant /\ ResultInHand /\ TakenAsQueued /\ QueuedIsScheduled /\ [Next]_vars
        => TakenAsQueued' /\ QueuedIsScheduled'
  BY TakenStep, ScheduledStep
<1> QED BY <1>1, <1>2, ResultStep, ReplayInvariantHolds, PTL DEF Spec

-----------------------------------------------------------------------------
(* The best QUEUED query runs next.                                        *)

\* Only Pick gives the lane a query.
LEMMA OnlyPickActivates ==
  ASSUME TypeOK, [Next]_vars, active' # NoQuery, active' # active
  PROVE  Pick
<1>1. ASSUME NEW q \in Query, Client(q) \/ Operator(q) PROVE active' = active
  BY <1>1 DEF Client, SubmitRefused, SubmitNotSaved, SubmitAdmitted, RecordFailed,
     Operator, ResolveCancel, ResolveRequeue, laneVars
<1>2. ASSUME RunOnce, ~ Pick PROVE active' \in {active, NoQuery}
  BY <1>2 DEF RunOnce, FindIdle, MarkRunning, SaveRunning, SaveRunningFails, RefuseStep,
     SaveRefused, ExecuteTool, RecordResult, SaveResult, SaveResultFails, SaveResume,
     Requeue, Finish, laneVars
<1>3. ASSUME Stop \/ Start \/ UNCHANGED vars PROVE active' \in {active, NoQuery}
  BY <1>3 DEF Stop, Start, vars, laneVars
<1> QED BY <1>1, <1>2, <1>3 DEF Next

\* When every QUEUED query is scheduled, the entry that is picked comes before those
\* of all other QUEUED queries.
LEMMA PickedIsFirst ==
  ASSUME TypeOK, QueuedIsScheduled, Pick
  PROVE  \E e \in Ready :
           /\ active' = e.id
           /\ \A r \in Query : mem[r].state = "queued" =>
                r = e.id \/ \E d \in Ready : d.id = r /\ Before(e, d)
<1>1. PICK e \in Ready : active' = e.id /\ \A d \in Ready \ {e} : Before(e, d)
  BY DEF Pick
<1>2. ASSUME NEW r \in Query, mem[r].state = "queued"
      PROVE  r = e.id \/ \E d \in Ready : d.id = r /\ Before(e, d)
  <2>1. pc = "idle" /\ active # r
    BY DEF Pick, TypeOK
  <2>2. PICK d \in heap : d.id = r
    BY <1>2, <2>1 DEF QueuedIsScheduled
  <2>3. d \in Ready
    BY <1>2, <2>2 DEF Ready
  <2> QED BY <1>1, <2>2, <2>3
<1> QED BY <1>1, <1>2

\* The lane never takes a query while one of a better class, or of its class and a
\* higher priority, is QUEUED.
THEOREM BestIsTakenFirst ==
  ASSUME NothingDropped
  PROVE  Spec => BestQueuedRunsNext
<1> DEFINE Best == active' # NoQuery /\ active' # active =>
                     \A r \in Query : mem[r].state = "queued" => ~ Outranks(r, active')
<1>1. TypeOK /\ QueuedIsScheduled /\ [Next]_vars => [Best]_vars
  <2> SUFFICES ASSUME TypeOK, QueuedIsScheduled, [Next]_vars,
                      active' # NoQuery, active' # active,
                      NEW r \in Query, mem[r].state = "queued"
               PROVE  ~ Outranks(r, active')
    OBVIOUS
  <2>1. PICK e \in Ready :
          /\ active' = e.id
          /\ r = e.id \/ \E d \in Ready : d.id = r /\ Before(e, d)
    BY OnlyPickActivates, PickedIsFirst
  <2>2. e.id \in Query /\ \A q \in Query : Class(q) \in Int /\ Priority[q] \in Int
    BY PriorityAssumption DEF Class, Ready, TypeOK
  <2> QED BY <2>1, <2>2 DEF Before, Outranks
<1> QED BY <1>1, NoneIsForgotten, TypesHold, PTL DEF Spec, BestQueuedRunsNext

-----------------------------------------------------------------------------
(* A lane that nothing disturbs.                                           *)

\* Files may be unreadable at a restart, but no save and no audit append raises.
OnlyReadsFail == Faults \subseteq {"read"}

Ran(q) == \E s \in Step : effects[q][s] > 0

\* A query that awaits record_failed is not in memory, nobody but the lane changes the
\* query on the lane, and what returns to the heap from there has been executed.
Undisturbed ==
  /\ \A q \in rejected : mem[q].state = "absent"
  /\ pc = "picked" => mem[active].state = "queued"
  /\ pc \in {"save_running", "ready", "executed"} => mem[active].state = "running"
  /\ pc = "save_result" => mem[active].state = snap.state
  /\ pc \in {"save_resume", "requeue"} => mem[active].state = "queued"
  /\ pc \in {"executed", "save_result", "save_resume", "requeue"} => Ran(active)

\* No step but an admission makes a query unsettled that was not.
NoneReopens ==
  up /\ (\A q \in Query : ~ SubmitAdmitted(q)) =>
    \A p \in Query : mem'[p].state \in Unsettled => mem[p].state \in Unsettled

LEMMA UndisturbedStep ==
  ASSUME OnlyReadsFail, ReplayInvariant, ResultInHand, Undisturbed, [Next]_vars
  PROVE  Undisturbed' /\ NoneReopens
<1> USE DEF ReplayInvariant
<1> DEFINE Goal == Undisturbed' /\ NoneReopens
           Settles == \A p \in Query : mem'[p].state \in Unsettled => mem[p].state \in Unsettled
           OnLane == UNCHANGED <<active, pc, snap, effects>>
<1>1. /\ pc # "idle" => active \in Query /\ mem[active].state # "absent"
      /\ mem \in [Query -> Record]
      /\ rejected \in SUBSET Query
  BY DEF TypeOK, LaneShape
<1>2. SaveFaults = {} /\ SaveOutcomes = {"ok"} /\ "audit" \notin Faults
      /\ "audit" \notin Injectable({"audit"})
  BY DEF OnlyReadsFail, SaveFaults, SaveOutcomes, Injectable
<1>3. ASSUME NEW p \in Query, NEW t \in State, SetState(p, t)
      PROVE  /\ mem'[p].state = t
             /\ \A r \in Query \ {p} : mem'[r] = mem[r]
             /\ t \in Unsettled => (mem[p].state \in Unsettled => Settles)
             /\ t \notin Unsettled => Settles
  BY <1>1, <1>3, InType DEF SetState
<1>4. Settles => NoneReopens
  BY DEF NoneReopens
<1>5. {"queued", "running", "paused", "recovery_required", "failed", "completed",
       "cancelled"} \subseteq State /\ "absent" \notin Unsettled
  BY DEF State, Unsettled, Terminal
\* Clients and the operator leave the query on the lane alone.
<1>6. ASSUME OnLane, pc # "idle" => mem'[active] = mem[active],
             \A q \in rejected' : mem'[q].state = "absent"
      PROVE  Undisturbed'
  BY <1>6 DEF Undisturbed, Ran
<1>7. ASSUME NEW q \in Query, SubmitRefused(q) PROVE Goal
  <2>1. mem' = mem /\ OnLane /\ \A r \in rejected' : mem'[r].state = "absent"
    BY <1>7 DEF SubmitRefused, Reject, IsNew, Undisturbed, queueVars, laneVars, history
  <2> QED BY <1>4, <1>6, <2>1
<1>8. ASSUME NEW q \in Query PROVE ~ SubmitNotSaved(q)
  BY <1>2 DEF SubmitNotSaved
<1>9. ASSUME NEW q \in Query, SubmitAdmitted(q) PROVE Goal
  <2>1. /\ mem' = [mem EXCEPT ![q] = Fresh] /\ OnLane /\ rejected' = rejected
        /\ mem[q].state = "absent" /\ q \notin rejected
    BY <1>2, <1>9 DEF SubmitAdmitted, IsNew, history
  <2>2. Undisturbed'
    BY <1>1, <1>6, <2>1 DEF Undisturbed
  <2> QED BY <1>9, <2>2 DEF NoneReopens
<1>10. ASSUME NEW q \in Query, RecordFailed(q) PROVE Goal
  <2> DEFINE r == In(IF mem[q].state = "absent" THEN Fresh ELSE mem[q], "failed")
  <2>1. r.state = "failed"
    BY <1>1, <1>5, FreshTypes, InType
  <2>2. /\ mem' = [mem EXCEPT ![q] = r] /\ OnLane /\ rejected' = rejected \ {q}
        /\ q \in rejected
    BY <1>2, <1>10 DEF RecordFailed, laneVars, history
  <2> HIDE DEF r
  <2>3. pc # "idle" => active # q
    BY <1>1, <2>2 DEF Undisturbed
  <2>4. Settles
    BY <1>1, <2>1, <2>2 DEF Unsettled
  <2> QED BY <1>1, <1>4, <1>6, <2>2, <2>3, <2>4 DEF Undisturbed
<1>11. ASSUME NEW q \in Query, Operator(q) PROVE Goal
  <2>1. /\ mem[q].state = "recovery_required" /\ OnLane /\ rejected' = rejected
        /\ \E t \in {"cancelled", "queued"} : SetState(q, t)
    BY <1>11 DEF Operator, ResolveCancel, ResolveRequeue, AwaitsRecovery, laneVars, history
  <2>2. Settles /\ \A r \in Query \ {q} : mem'[r] = mem[r]
    BY <1>3, <1>5, <2>1 DEF Unsettled
  <2>3. \A r \in rejected' : mem'[r].state = "absent"
    BY <1>1, <2>1, <2>2 DEF Undisturbed
  <2>4. CASE pc \in {"idle", "finish", "save_refused"}
    BY <1>4, <2>1, <2>2, <2>3, <2>4 DEF Undisturbed
  <2>5. CASE pc \notin {"idle", "finish", "save_refused"}
    <3>1. active # q
      BY <2>1, <2>5 DEF Undisturbed, ResultInHand, TypeOK, Label
    <3> QED BY <1>1, <1>4, <1>6, <2>1, <2>2, <2>3, <3>1
  <2> QED BY <2>4, <2>5
\* The lane works on one query, which nobody rejects.
<1>12. ASSUME NEW t \in Unsettled, SetState(active, t), mem[active].state \in Unsettled,
              pc # "idle", rejected' = rejected
       PROVE  /\ NoneReopens /\ mem'[active].state = t
              /\ \A r \in rejected' : mem'[r].state = "absent"
  <2>1. t \in State /\ active \in Query /\ active \notin rejected
    BY <1>1, <1>12 DEF State, Undisturbed
  <2> QED BY <1>1, <1>3, <1>4, <1>12, <2>1 DEF Undisturbed
<1>13. ASSUME Pick PROVE Goal
  <2>1. /\ mem' = mem /\ rejected' = rejected /\ pc' = "picked"
        /\ mem[active'].state = "queued"
    BY <1>13 DEF Pick, Goto, Ready
  <2> QED BY <1>4, <2>1 DEF Undisturbed
<1>14. ASSUME FindIdle \/ SaveRunning \/ SaveRefused \/ Finish PROVE Goal
  <2>1. /\ mem' = mem /\ rejected' = rejected /\ effects' = effects
        /\ \/ UNCHANGED <<pc, active>> /\ pc = "idle"
           \/ pc' = "ready" /\ pc = "save_running" /\ active' = active
           \/ pc' \in {"finish", "idle"}
    BY <1>14 DEF FindIdle, SaveRunning, SaveRefused, Finish, Goto, queueVars, laneVars, history
  <2> QED BY <1>4, <2>1 DEF Undisturbed
<1>15. ASSUME MarkRunning PROVE Goal
  <2>1. pc = "picked" /\ active' = active /\ rejected' = rejected
        /\ <<mem[active].state, "running">> \in Allowed
    BY <1>15 DEF MarkRunning, Undisturbed, Allowed
  <2>2. SetState(active, "running") /\ pc' = "save_running"
    BY <1>15, <2>1 DEF MarkRunning, SetState, RunningRecord, Goto
  <2>3. NoneReopens /\ mem'[active].state = "running"
        /\ \A r \in rejected' : mem'[r].state = "absent"
    BY <1>12, <2>1, <2>2 DEF Undisturbed, Unsettled
  <2> QED BY <2>1, <2>2, <2>3 DEF Undisturbed
<1>16. ~ SaveRunningFails /\ ~ SaveResultFails
  BY <1>2 DEF SaveRunningFails, SaveResultFails
<1>17. ASSUME RefuseStep PROVE Goal
  <2>1. /\ pc = "ready" /\ rejected' = rejected /\ pc' = "save_refused"
        /\ SetState(active, "recovery_required")
    BY <1>17 DEF RefuseStep, Goto
  <2>2. NoneReopens /\ \A r \in rejected' : mem'[r].state = "absent"
    BY <1>12, <2>1 DEF Undisturbed, Unsettled
  <2> QED BY <2>1, <2>2 DEF Undisturbed
<1>18. ASSUME ExecuteTool PROVE Goal
  <2> DEFINE s == mem[active].next_step
  <2>1. /\ pc = "ready" /\ s < Steps[active] /\ mem' = mem /\ rejected' = rejected
        /\ effects' = [effects EXCEPT ![active][s] = @ + 1]
        /\ pc' = "executed" /\ active' = active
    BY <1>18 DEF ExecuteTool, Executable, Goto, queueVars
  <2>2. active \in Query /\ s \in Step
    BY <1>1, <2>1, StepsAssumption, BoundAssumption DEF Record, Step
  <2>3. effects'[active][s] > 0
    BY <2>1, <2>2 DEF TypeOK
  <2> QED BY <1>4, <2>1, <2>2, <2>3 DEF Undisturbed, Ran
<1>19. ASSUME RecordResult PROVE Goal
  <2> DEFINE next == mem[active].next_step + 1
             target == ResultState(active, next)
             r == [state |-> target, next_step |-> next]
  <2>1. pc = "executed" /\ active' = active /\ UNCHANGED <<rejected, effects>>
    BY <1>19 DEF RecordResult, history
  <2>2. <<mem[active].state, target>> \in Allowed
    BY <2>1 DEF Undisturbed, Allowed, ResultState
  <2>3. mem' = [mem EXCEPT ![active] = r] /\ snap' = r /\ pc' = "save_result"
    BY <1>19, <2>2 DEF RecordResult, Goto
  <2> HIDE DEF r
  <2>4. mem'[active] = snap' /\ \A p \in Query \ {active} : mem'[p] = mem[p]
    BY <1>1, <2>1, <2>3
  <2>5. mem[active].state \in Unsettled /\ active \notin rejected
    BY <1>1, <2>1 DEF Undisturbed, Unsettled
  <2>6. NoneReopens
    BY <1>4, <2>4, <2>5
  <2>7. \A q \in rejected' : mem'[q].state = "absent"
    BY <1>1, <2>1, <2>4, <2>5 DEF Undisturbed
  <2> QED BY <2>1, <2>3, <2>4, <2>6, <2>7 DEF Undisturbed, Ran
<1>20. ASSUME SaveResult PROVE Goal
  <2>1. pc = "save_result" /\ active' = active /\ UNCHANGED <<rejected, effects>>
    BY <1>20 DEF SaveResult, history
  <2>2. CASE snap.state = "paused"
    <3>1. SetState(active, "queued") /\ pc' = "save_resume"
      BY <1>20, <2>2 DEF SaveResult, Goto
    <3>2. NoneReopens /\ mem'[active].state = "queued"
          /\ \A r \in rejected' : mem'[r].state = "absent"
      BY <1>12, <2>1, <2>2, <3>1 DEF Undisturbed, Unsettled
    <3> QED BY <2>1, <3>1, <3>2 DEF Undisturbed, Ran
  <2>3. CASE snap.state # "paused"
    <3>1. mem' = mem /\ pc' = IF snap.state = "queued" THEN "requeue" ELSE "finish"
      BY <1>20, <2>3 DEF SaveResult, Goto
    <3> QED BY <1>4, <2>1, <3>1 DEF Undisturbed, Ran
  <2> QED BY <2>2, <2>3
<1>21. ASSUME SaveResume PROVE Goal
  <2>1. /\ pc = "save_resume" /\ mem' = mem /\ pc' = "requeue" /\ active' = active
        /\ UNCHANGED <<rejected, effects>>
    BY <1>2, <1>21 DEF SaveResume, Goto, history
  <2> QED BY <1>4, <2>1 DEF Undisturbed, Ran
<1>22. ASSUME Requeue PROVE Goal
  <2>1. pc' = "finish" /\ mem' = mem /\ rejected' = rejected
    BY <1>22 DEF Requeue, Goto
  <2> QED BY <1>4, <2>1 DEF Undisturbed
<1>23. ASSUME Stop PROVE Goal
  BY <1>4, <1>5, <1>23 DEF Stop, NothingInMemory, Absent, Undisturbed
<1>24. ASSUME Start PROVE Goal
  BY <1>24 DEF Start, laneVars, LaneShape, Undisturbed, NoneReopens
<1>25. ASSUME UNCHANGED vars PROVE Goal
  BY <1>4, <1>6, <1>25 DEF vars, queueVars, laneVars, history, Undisturbed
<1>26. Goal
  BY <1>7, <1>8, <1>9, <1>10, <1>11, <1>13, <1>14, <1>15, <1>16, <1>17, <1>18, <1>19,
     <1>20, <1>21, <1>22, <1>23, <1>24, <1>25
  DEF Next, Client, RunOnce
<1> QED BY <1>26

-----------------------------------------------------------------------------
(* Capacity.                                                               *)

\* Only restore brings the queue above its capacity.
THEOREM CapacityIsRespected ==
  ASSUME OnlyReadsFail
  PROVE  Spec => CapacityRespected
<1> DEFINE Load == Cardinality(InState(mem, Unsettled))
<1>1. Init => ResultInHand /\ Undisturbed
  BY DEF Init, ResultInHand, Undisturbed
<1>2. ReplayInvariant /\ ResultInHand /\ Undisturbed /\ [Next]_vars => Undisturbed'
  BY UndisturbedStep
<1>3. ReplayInvariant /\ ResultInHand /\ Undisturbed /\ [Next]_vars
        => [up /\ Load' > Load => Load' <= MaxQueries]_vars
  <2> SUFFICES ASSUME ReplayInvariant, ResultInHand, Undisturbed, [Next]_vars,
                      up, Load' > Load
               PROVE  Load' <= MaxQueries
    OBVIOUS
  <2> DEFINE U == InState(mem, Unsettled)
  <2>1. /\ IsFiniteSet(U) /\ IsFiniteSet(U')
        /\ Cardinality(U) \in Nat /\ Cardinality(U') \in Nat
    BY FS_Subset, FS_CardinalityType DEF InState
  <2>2. CASE \A q \in Query : ~ SubmitAdmitted(q)
    <3>1. U' \subseteq U
      BY <2>2, UndisturbedStep DEF NoneReopens, InState
    <3> QED BY <2>1, <3>1, FS_Subset
  <2>3. ASSUME NEW q \in Query, SubmitAdmitted(q) PROVE Load' <= MaxQueries
    <3>1. /\ mem' = [mem EXCEPT ![q] = Fresh] /\ mem[q].state = "absent"
          /\ ~ AtCapacity
      BY <2>3 DEF SubmitAdmitted, IsNew
    <3>2. U' = U \cup {q} /\ q \notin U
      BY <3>1 DEF InState, Fresh, Unsettled, ReplayInvariant, TypeOK
    <3>3. Cardinality(U') = Cardinality(U) + 1
      BY <2>1, <3>2, FS_AddElement
    <3> QED BY <2>1, <3>1, <3>3, BoundAssumption DEF AtCapacity
  <2> QED BY <2>2, <2>3
<1> QED BY <1>1, <1>2, <1>3, ResultStep, ReplayInvariantHolds, PTL
        DEF Spec, CapacityRespected

-----------------------------------------------------------------------------
(* When nothing is left to run.                                            *)

\* A query the lane is done with for now: it waits for its turn, or it is over or before
\* the operator, and its file says so too.
Over      == Terminal \cup {"recovery_required"}
AtRest(q) == mem[q].state = "queued" \/ {mem[q].state, disk[q].state} \subseteq Over

\* Only the query on the lane is on its way from one rest to another.
OthersAtRest ==
  /\ \A q \in Query : q # active /\ mem[q].state # "absent" => AtRest(q)
  /\ pc = "finish" => AtRest(active)
  /\ pc = "save_refused" => mem[active].state \in Over \cup {"queued"}

\* Every step keeps it, if at most restores fail to read files.
LEMMA RestStep ==
  ASSUME OnlyReadsFail, ReplayInvariant, ResultInHand, Undisturbed, OthersAtRest,
         [Next]_vars
  PROVE  OthersAtRest'
<1> USE DEF ReplayInvariant
<1>1. /\ pc # "idle" => active \in Query /\ mem[active].state # "absent"
      /\ pc = "idle" => active \notin Query
      /\ mem \in [Query -> Record] /\ disk \in [Query -> Record]
      /\ NoQuery \notin Query
  BY DEF TypeOK, LaneShape
<1>2. SaveFaults = {} /\ SaveOutcomes = {"ok"} /\ "fail" \notin Faults
  BY DEF OnlyReadsFail, SaveFaults, SaveOutcomes, Injectable
\* Clients and the operator leave a query at rest or leave it alone.
<1>3. ASSUME UNCHANGED <<active, pc>>,
             \A p \in Query : (mem'[p] = mem[p] /\ disk'[p] = disk[p]) \/ AtRest(p)'
      PROVE  OthersAtRest'
  <2>1. ASSUME NEW p \in Query, mem'[p] = mem[p], disk'[p] = disk[p], AtRest(p)
        PROVE  AtRest(p)'
    BY <2>1 DEF AtRest
  <2>2. \A p \in Query : AtRest(p)' => mem'[p].state \in Over \cup {"queued"}
    BY DEF AtRest
  <2> QED BY <1>1, <1>3, <2>1, <2>2 DEF OthersAtRest
<1>4. ASSUME NEW q \in Query, Client(q) PROVE OthersAtRest'
  <2>1. ASSUME SubmitRefused(q) PROVE OthersAtRest'
    BY <1>3, <2>1 DEF SubmitRefused, queueVars, laneVars
  <2>2. ~ SubmitNotSaved(q)
    BY <1>2 DEF SubmitNotSaved
  <2>3. ASSUME SubmitAdmitted(q) PROVE OthersAtRest'
    <3>1. /\ mem' = [mem EXCEPT ![q] = Fresh] /\ disk' = [disk EXCEPT ![q] = Fresh]
          /\ UNCHANGED <<active, pc>>
      BY <2>3 DEF SubmitAdmitted
    <3>2. AtRest(q)'
      BY <1>1, <3>1 DEF AtRest, Fresh
    <3> QED BY <1>1, <1>3, <3>1, <3>2
  <2>4. ASSUME RecordFailed(q) PROVE OthersAtRest'
    <3> DEFINE r == In(IF mem[q].state = "absent" THEN Fresh ELSE mem[q], "failed")
    <3>1. r.state = "failed"
      BY <1>1, FreshTypes, InType DEF State, Terminal
    <3>2. /\ mem' = [mem EXCEPT ![q] = r] /\ disk' = [disk EXCEPT ![q] = r]
          /\ UNCHANGED <<active, pc>>
      BY <1>2, <2>4 DEF RecordFailed, Save, laneVars
    <3> HIDE DEF r
    <3>3. AtRest(q)'
      BY <1>1, <3>1, <3>2 DEF AtRest, Over, Terminal
    <3> QED BY <1>1, <1>3, <3>2, <3>3
  <2> QED BY <1>4, <2>1, <2>2, <2>3, <2>4 DEF Client
<1>5. ASSUME NEW q \in Query, Operator(q) PROVE OthersAtRest'
  <2>1. PICK t \in {"cancelled", "queued"} :
          /\ SetState(q, t) /\ Save(q, In(mem[q], t), "ok")
          /\ UNCHANGED <<active, pc>>
    BY <1>2, <1>5 DEF Operator, ResolveCancel, ResolveRequeue, laneVars
  <2>2. In(mem[q], t).state = t
    BY <1>1, InType DEF State, Terminal, Unsettled
  <2>3. /\ mem' = [mem EXCEPT ![q] = In(mem[q], t)]
        /\ disk' = [disk EXCEPT ![q] = In(mem[q], t)]
    BY <2>1 DEF SetState, Save
  <2>4. AtRest(q)'
    BY <1>1, <2>2, <2>3 DEF AtRest, Over, Terminal
  <2> QED BY <1>1, <1>3, <2>1, <2>3, <2>4
\* The lane works on its own query.
<1>6. ASSUME RunOnce, pc # "idle"
      PROVE  \A p \in Query : p # active /\ mem'[p].state # "absent" => AtRest(p)'
  BY <1>6, LaneTouches DEF OthersAtRest, AtRest
<1>7. ASSUME RunOnce, pc # "idle", active' = active, pc' \notin {"finish", "save_refused"}
      PROVE  OthersAtRest'
  BY <1>6, <1>7 DEF OthersAtRest
<1>8. ASSUME RunOnce, pc # "idle", active' = active, pc' = "finish", AtRest(active)'
      PROVE  OthersAtRest'
  BY <1>6, <1>8 DEF OthersAtRest
<1>9. ASSUME RunOnce, pc = "idle" PROVE OthersAtRest'
  <2>1. /\ mem' = mem /\ disk' = disk
        /\ pc' = "picked" \/ (pc' = "idle" /\ active' = active)
    BY <1>9 DEF RunOnce, Pick, FindIdle, MarkRunning, SaveRunning, SaveRunningFails,
       RefuseStep, SaveRefused, ExecuteTool, RecordResult, SaveResult, SaveResultFails,
       SaveResume, Requeue, Finish, Goto, laneVars
  <2> QED BY <1>1, <1>9, <2>1 DEF OthersAtRest, AtRest
<1>10. ASSUME MarkRunning PROVE OthersAtRest'
  <2>1. pc = "picked" /\ active' = active /\ <<mem[active].state, "running">> \in Allowed
    BY <1>10 DEF MarkRunning, Undisturbed, Allowed
  <2>2. pc' = "save_running"
    BY <1>10, <2>1 DEF MarkRunning, Goto
  <2> QED BY <1>7, <1>10, <2>1, <2>2 DEF RunOnce
<1>11. ASSUME SaveRunning \/ ExecuteTool PROVE OthersAtRest'
  <2>1. pc # "idle" /\ active' = active /\ pc' \in {"ready", "executed"}
    BY <1>11 DEF SaveRunning, ExecuteTool, Goto
  <2> QED BY <1>7, <1>11, <2>1 DEF RunOnce
<1>12. ~ SaveRunningFails /\ ~ SaveResultFails
  BY <1>2 DEF SaveRunningFails, SaveResultFails
<1>13. ASSUME RefuseStep PROVE OthersAtRest'
  <2>1. /\ pc # "idle" /\ active' = active /\ pc' = "save_refused"
        /\ SetState(active, "recovery_required")
    BY <1>13 DEF RefuseStep, Goto
  <2>2. mem'[active'].state = "recovery_required"
    BY <1>1, <2>1, InType DEF SetState, State, Unsettled
  <2> QED BY <1>6, <1>13, <2>1, <2>2 DEF OthersAtRest, Over, RunOnce
<1>14. ASSUME SaveRefused PROVE OthersAtRest'
  <2>1. /\ pc = "save_refused" /\ active' = active /\ pc' = "finish" /\ mem' = mem
        /\ disk' = [disk EXCEPT ![active] = snap] /\ snap.state = "recovery_required"
    BY <1>2, <1>14 DEF SaveRefused, Save, Goto, queueVars, EvidenceOnLane
  <2>2. AtRest(active)'
    BY <1>1, <2>1 DEF AtRest, Over, OthersAtRest
  <2> QED BY <1>8, <1>14, <2>1, <2>2 DEF RunOnce
<1>15. ASSUME RecordResult PROVE OthersAtRest'
  <2>1. pc = "executed" /\ active' = active
    BY <1>15 DEF RecordResult
  <2>2. <<mem[active].state, ResultState(active, mem[active].next_step + 1)>> \in Allowed
    BY <2>1 DEF Undisturbed, Allowed, ResultState
  <2>3. pc' = "save_result"
    BY <1>15, <2>2 DEF RecordResult, Goto
  <2> QED BY <1>7, <1>15, <2>1, <2>3 DEF RunOnce
<1>16. ASSUME SaveResult PROVE OthersAtRest'
  <2>1. /\ pc = "save_result" /\ active' = active
        /\ disk' = [disk EXCEPT ![active] = snap]
    BY <1>16 DEF SaveResult, Save
  <2>2. CASE snap.state \in {"paused", "queued"}
    <3>1. pc' \in {"save_resume", "requeue"}
      BY <1>16, <2>2 DEF SaveResult, Goto
    <3> QED BY <1>7, <1>16, <2>1, <3>1 DEF RunOnce
  <2>3. CASE snap.state \in {"failed", "completed"}
    <3>1. mem' = mem /\ pc' = "finish"
      BY <1>16, <2>3 DEF SaveResult, Goto
    <3>2. AtRest(active)'
      BY <1>1, <2>1, <2>3, <3>1 DEF AtRest, Over, Terminal, Undisturbed
    <3> QED BY <1>8, <1>16, <2>1, <3>1, <3>2 DEF RunOnce
  <2> QED BY <2>1, <2>2, <2>3 DEF ResultInHand
<1>17. ASSUME SaveResume PROVE OthersAtRest'
  <2>1. pc # "idle" /\ active' = active /\ pc' = "requeue"
    BY <1>2, <1>17 DEF SaveResume, Goto
  <2> QED BY <1>7, <1>17, <2>1 DEF RunOnce
<1>18. ASSUME Requeue PROVE OthersAtRest'
  <2>1. /\ pc = "requeue" /\ active' = active /\ pc' = "finish" /\ mem' = mem
    BY <1>18 DEF Requeue, Goto
  <2>2. AtRest(active)'
    BY <2>1 DEF AtRest, Undisturbed
  <2> QED BY <1>8, <1>18, <2>1, <2>2 DEF RunOnce
<1>19. ASSUME Finish PROVE OthersAtRest'
  <2>1. pc = "finish" /\ pc' = "idle" /\ mem' = mem /\ disk' = disk
    BY <1>19 DEF Finish, Goto, queueVars
  <2> QED BY <2>1 DEF OthersAtRest, AtRest
<1>20. ASSUME Stop PROVE OthersAtRest'
  BY <1>20 DEF Stop, NothingInMemory, Absent, OthersAtRest
<1>21. ASSUME Start PROVE OthersAtRest'
  <2>1. PICK loaded \in SUBSET Present(disk) : Restore(loaded, {})
    BY <1>2, <1>21 DEF Start
  <2>2. pc' = "idle"
    BY <1>21 DEF Start, LaneShape, laneVars
  <2>3. ASSUME NEW q \in Query, mem'[q].state # "absent" PROVE AtRest(q)'
    <3> DEFINE s == RestoredState(loaded, q)
    <3>1. q \in loaded /\ disk[q].state # "absent"
      BY <2>1, <2>3 DEF Restore, Absent, Present
    <3>2. s \in State /\ (s = "queued" \/ s = "recovery_required"
                           \/ (s = disk[q].state /\ s \in Terminal))
      BY <1>1, <3>1 DEF RestoredState, Resumable, State, Unsettled, Terminal, Record
    <3>3. /\ mem'[q] = In(disk[q], s)
          /\ disk'[q] = IF s = "recovery_required" THEN In(disk[q], s) ELSE disk[q]
      BY <2>1, <3>1 DEF Restore
    <3> HIDE DEF s
    <3>4. In(disk[q], s).state = s
      BY <1>1, <3>2, InType
    <3> QED BY <3>2, <3>3, <3>4 DEF AtRest, Over
  <2> QED BY <2>2, <2>3 DEF OthersAtRest
<1>22. ASSUME UNCHANGED vars PROVE OthersAtRest'
  BY <1>3, <1>22 DEF vars, queueVars, laneVars
<1>23. ASSUME RunOnce PROVE OthersAtRest'
  BY <1>9, <1>10, <1>11, <1>12, <1>13, <1>14, <1>15, <1>16, <1>17, <1>18, <1>19, <1>23
  DEF RunOnce, Pick, FindIdle
<1> QED BY <1>4, <1>5, <1>20, <1>21, <1>22, <1>23 DEF Next

\* When the lane is idle and nothing is ready, every query the process knows is over or
\* before the operator, in memory and on disk, whatever was preempted, refused,
\* requeued or restored.
THEOREM NothingIsLeft ==
  ASSUME OnlyReadsFail
  PROVE  Spec => []IdleMeansSettled
<1>1. Init => ResultInHand /\ Undisturbed /\ OthersAtRest
  BY DEF Init, ResultInHand, Undisturbed, OthersAtRest, Absent
<1>2. ReplayInvariant /\ ResultInHand /\ Undisturbed /\ OthersAtRest /\ [Next]_vars
        => Undisturbed' /\ OthersAtRest'
  BY UndisturbedStep, RestStep
<1>3. ReplayInvariant /\ OthersAtRest /\ QueuedIsScheduled => IdleMeansSettled
  <2> SUFFICES ASSUME ReplayInvariant, OthersAtRest, QueuedIsScheduled,
                      pc = "idle", Ready = {},
                      NEW q \in Query, mem[q].state # "absent"
               PROVE  {mem[q].state, disk[q].state} \subseteq Over
    BY DEF IdleMeansSettled, Over
  <2>1. active # q
    BY DEF ReplayInvariant, TypeOK
  <2>2. mem[q].state # "queued"
    BY <2>1 DEF QueuedIsScheduled, Ready
  <2> QED BY <2>1, <2>2 DEF OthersAtRest, AtRest
<1>4. NothingDropped
  BY DEF OnlyReadsFail, NothingDropped
<1> QED BY <1>1, <1>2, <1>3, <1>4, NoneIsForgotten, ResultStep, ReplayInvariantHolds, PTL
        DEF Spec

-----------------------------------------------------------------------------
(* First in, first out.                                                    *)

\* A behaviour with its order of admission is a behaviour of the queue.
LEMMA FifoIsQueue == FifoSpec => Spec
<1>1. FifoInit => Init
  BY DEF FifoInit
<1>2. [FifoNext]_fifoVars => [Next]_vars
  BY DEF FifoNext, fifoVars, Next, Client
<1> QED BY <1>1, <1>2, PTL DEF FifoSpec, Spec

\* What the heap holds is in memory, and so is what this process admitted; the heap
\* holds what is untouched in the order of admission.
AdmissionOrder ==
  /\ admission \in Seq(Query)
  /\ ~ up => admission = <<>>
  /\ \A e \in heap : mem[e.id].state # "absent"
  /\ \A i \in DOMAIN admission : mem[admission[i]].state # "absent"
  /\ \A i, j \in DOMAIN admission :
       i < j /\ Untouched(admission[i]) /\ Untouched(admission[j]) =>
         \A d, e \in heap : d.id = admission[i] /\ e.id = admission[j] => d.seq < e.seq

\* While the process runs, no query leaves its memory.
LEMMA NothingVanishes ==
  ASSUME ReplayInvariant, [Next]_vars, up, up'
  PROVE  \A p \in Query : mem[p].state # "absent" => mem'[p].state # "absent"
<1> DEFINE Kept == \A p \in Query : mem[p].state # "absent" => mem'[p].state # "absent"
<1>1. mem \in [Query -> Record] /\ mem' \in [Query -> Record] /\ LaneShape'
  BY ReplayStep DEF ReplayInvariant, TypeOK
<1>2. ASSUME NEW q \in Query, Client(q) PROVE Kept
  <2>1. ASSUME SubmitRefused(q) \/ SubmitNotSaved(q) PROVE Kept
    BY <2>1 DEF SubmitRefused, SubmitNotSaved, queueVars
  <2>2. ASSUME SubmitAdmitted(q) PROVE Kept
    BY <1>1, <2>2 DEF SubmitAdmitted, IsNew
  <2>3. ASSUME RecordFailed(q) PROVE Kept
    <3> DEFINE r == In(IF mem[q].state = "absent" THEN Fresh ELSE mem[q], "failed")
    <3>1. r.state = "failed"
      BY <1>1, FreshTypes, InType DEF State, Terminal
    <3>2. mem' = mem \/ mem' = [mem EXCEPT ![q] = r]
      BY <2>3 DEF RecordFailed
    <3> QED BY <1>1, <3>1, <3>2
  <2> QED BY <1>2, <2>1, <2>2, <2>3 DEF Client
<1>3. ASSUME NEW q \in Query, Operator(q) PROVE Kept
  <2>1. PICK t \in {"cancelled", "queued"} : SetState(q, t)
    BY <1>3 DEF Operator, ResolveCancel, ResolveRequeue
  <2> QED BY <1>1, <2>1, InType DEF SetState, State, Unsettled, Terminal
<1>4. ASSUME RunOnce PROVE Kept
  <2>1. CASE pc = "idle" \/ Finish
    BY <1>4, <2>1, LaneTouches DEF Finish, queueVars
  <2>2. CASE pc # "idle" /\ ~ Finish
    <3>1. active' = active /\ pc' # "idle"
      BY <1>4, <2>2 DEF RunOnce, Pick, FindIdle, MarkRunning, RunningNotPersisted,
         SaveRunning, SaveRunningFails, RefuseStep, SaveRefused, ExecuteTool,
         RecordResult, SaveResult, SaveResultFails, SaveResume, Requeue, Goto
    <3>2. mem'[active].state # "absent"
      BY <1>1, <3>1 DEF LaneShape
    <3> QED BY <1>4, <3>2, LaneTouches
  <2> QED BY <2>1, <2>2
<1>5. ~ Stop /\ ~ Start
  BY DEF Stop, Start
<1>6. ASSUME UNCHANGED vars PROVE Kept
  BY <1>6 DEF vars, queueVars
<1> QED BY <1>2, <1>3, <1>4, <1>5, <1>6 DEF Next

\* What was touched stays touched.
LEMMA TouchedForGood ==
  ASSUME ReplayInvariant, [Next]_vars
  PROVE  \A q \in Query : Untouched(q)' => Untouched(q)
<1> DEFINE Kept == \A q \in Query : Untouched(q)' => Untouched(q)
<1>1. requeues \in [Query -> Nat] /\ effects \in [Query -> [Step -> Nat]]
  BY DEF ReplayInvariant, TypeOK
<1>2. ASSUME UNCHANGED <<effects, requeues>> PROVE Kept
  BY <1>2 DEF Untouched
<1>3. ASSUME ExecuteTool PROVE Kept
  <2> DEFINE s == mem[active].next_step
  <2>1. /\ requeues' = requeues /\ effects' = [effects EXCEPT ![active][s] = @ + 1]
    BY <1>3 DEF ExecuteTool
  <2>2. \A q \in Query, t \in Step : effects'[q][t] = 0 => effects[q][t] = 0
    BY <1>1, <2>1
  <2> QED BY <2>1, <2>2 DEF Untouched
<1>4. ASSUME NEW q \in Query, ResolveRequeue(q) PROVE Kept
  <2>1. requeues' = [requeues EXCEPT ![q] = @ + 1] /\ effects' = effects
    BY <1>4 DEF ResolveRequeue, history
  <2>2. \A p \in Query : requeues'[p] = 0 => requeues[p] = 0
    BY <1>1, <2>1
  <2> QED BY <2>1, <2>2 DEF Untouched
<1>5. ASSUME Start PROVE UNCHANGED <<effects, requeues>>
  BY <1>5 DEF Start, history
<1> QED BY <1>2, <1>3, <1>4, <1>5, OneFileAtMost

\* On a lane that nothing disturbs, whatever enters the heap is admitted or touched.
LEMMA OnlyTouchedReturn ==
  ASSUME ReplayInvariant, Undisturbed, [Next]_vars, up, up',
         \A q \in Query : ~ SubmitAdmitted(q)
  PROVE  \A e \in heap' :
           e \in heap \/ (~ Untouched(e.id)' /\ mem[e.id].state # "absent")
<1> DEFINE Old == heap' \subseteq heap
           New(q) == /\ heap' = heap \cup {[seq |-> sequence + 1, id |-> q]}
                     /\ ~ Untouched(q)' /\ mem[q].state # "absent"
<1>1. ASSUME NEW q \in Query, SubmitRefused(q) \/ SubmitNotSaved(q) \/ RecordFailed(q)
                              \/ ResolveCancel(q)
      PROVE  Old
  BY <1>1 DEF SubmitRefused, SubmitNotSaved, RecordFailed, ResolveCancel, queueVars
<1>2. ASSUME NEW q \in Query, ResolveRequeue(q) PROVE Old \/ New(q)
  <2>1. requeues' = [requeues EXCEPT ![q] = @ + 1] /\ mem[q].state # "absent"
        /\ (Push(q) \/ heap' = heap)
    BY <1>2 DEF ResolveRequeue, AwaitsRecovery
  <2>2. requeues'[q] # 0
    BY <2>1 DEF ReplayInvariant, TypeOK
  <2> QED BY <2>1, <2>2 DEF Push, Untouched
<1>3. ASSUME Requeue PROVE \E q \in Query : New(q)
  <2>1. pc = "requeue" /\ Push(active) /\ effects' = effects
    BY <1>3 DEF Requeue, history
  <2>2. PICK q \in Query : q = active /\ mem[q].state # "absent"
    BY <2>1 DEF ReplayInvariant, TypeOK, LaneShape
  <2>3. PICK s \in Step : effects[q][s] > 0
    BY <2>1, <2>2 DEF Undisturbed, Ran
  <2>4. ~ Untouched(q)'
    BY <2>1, <2>3 DEF Untouched
  <2> QED BY <2>1, <2>2, <2>4 DEF Push
<1>4. ASSUME RunOnce, ~ Requeue PROVE Old
  BY <1>4 DEF RunOnce, Pick, AfterPop, FindIdle, MarkRunning, SaveRunning,
     SaveRunningFails, RefuseStep, SaveRefused, ExecuteTool, RecordResult, SaveResult,
     SaveResultFails, SaveResume, Finish, queueVars
<1>5. ~ Stop /\ ~ Start
  BY DEF Stop, Start
<1>6. ASSUME UNCHANGED vars PROVE Old
  BY <1>6 DEF vars, queueVars
<1>7. Old \/ \E q \in Query : New(q)
  BY <1>1, <1>2, <1>3, <1>4, <1>5, <1>6 DEF Next, Client, Operator
<1> QED BY <1>7 DEF Untouched


\* Only Stop takes the process down, and while it is down nothing but Start happens.
LEMMA UpAndDown ==
  ASSUME Next
  PROVE  /\ ~ up => Start
         /\ ~ up' => Stop
<1> DEFINE Alive == up /\ up'
<1>1. ASSUME NEW q \in Query, Client(q) \/ Operator(q) PROVE Alive
  BY <1>1 DEF Client, SubmitRefused, SubmitNotSaved, SubmitAdmitted, RecordFailed,
     Operator, ResolveCancel, ResolveRequeue
<1>2. ASSUME RunOnce PROVE Alive
  BY <1>2 DEF RunOnce, Pick, FindIdle, MarkRunning, SaveRunning, SaveRunningFails,
     RefuseStep, SaveRefused, ExecuteTool, RecordResult, SaveResult, SaveResultFails,
     SaveResume, Requeue, Finish
<1>3. (Start => ~ up /\ up') /\ (Stop => up /\ ~ up')
  BY DEF Start, Stop
<1> QED BY <1>1, <1>2, <1>3 DEF Next

\* On such a lane every step keeps the order of admission.
LEMMA AdmissionStep ==
  ASSUME OnlyReadsFail, ReplayInvariant, ResultInHand, Undisturbed, HeapOrdered,
         AdmissionOrder, [FifoNext]_fifoVars
  PROVE  AdmissionOrder'
<1> DEFINE Listed == DOMAIN admission
           InMemory == /\ \A e \in heap : mem[e.id].state # "absent"
                       /\ \A i \in DOMAIN admission : mem[admission[i]].state # "absent"
           InOrder ==
             \A i, j \in DOMAIN admission :
               i < j /\ Untouched(admission[i]) /\ Untouched(admission[j]) =>
                 \A d, e \in heap : d.id = admission[i] /\ e.id = admission[j] => d.seq < e.seq
<1>1. /\ heap \subseteq Entry /\ sequence \in Nat /\ mem \in [Query -> Record]
      /\ admission \in Seq(Query) /\ InMemory /\ InOrder
      /\ \A e \in heap : e.seq <= sequence
  BY DEF ReplayInvariant, TypeOK, Entry, AdmissionOrder, HeapOrdered
<1>2. ASSUME UNCHANGED fifoVars PROVE AdmissionOrder'
  BY <1>2 DEF fifoVars, vars, queueVars, history, AdmissionOrder, Untouched
<1>3. ASSUME Stop, admission' = <<>> PROVE AdmissionOrder'
  BY <1>3 DEF Stop, NothingInMemory, AdmissionOrder
<1>4. ASSUME Start, admission' = admission PROVE AdmissionOrder'
  <2>1. admission' = <<>> /\ up'
    BY <1>4 DEF Start, AdmissionOrder
  <2>2. PICK unread \in SUBSET Present(disk), lost \in SUBSET Present(disk) :
          Restore(Present(disk) \ unread, lost)
    BY <1>4 DEF Start
  <2> DEFINE loaded == Present(disk) \ unread
             pushed == loaded \cap InState(disk, Resumable)
             Order(q) == Cardinality({r \in pushed : Rank[r] <= Rank[q]})
  <2>3. /\ heap' = {[seq |-> Order(q), id |-> q] : q \in pushed}
        /\ \A q \in loaded : mem'[q] = In(disk[q], RestoredState(loaded, q))
    BY <2>2 DEF Restore, Present
  <2>4. \A q \in pushed : /\ disk[q] \in Record
                          /\ RestoredState(loaded, q) \in {"queued", "recovery_required"}
    BY DEF RestoredState, InState, ReplayInvariant, TypeOK
  <2>5. ASSUME NEW q \in pushed PROVE mem'[q].state # "absent"
    <3>1. In(disk[q], RestoredState(loaded, q)).state = RestoredState(loaded, q)
      BY <2>4, InType DEF State, Unsettled
    <3> QED BY <2>3, <2>4, <3>1
  <2> HIDE DEF pushed, Order
  <2>6. \A e \in heap' : mem'[e.id].state # "absent"
    BY <2>3, <2>5
  <2> QED BY <2>1, <2>6 DEF AdmissionOrder
\* An ordinary step brings no untouched query into the heap.
<1>5. ASSUME Next, up, up', \A q \in Query : ~ SubmitAdmitted(q), admission' = admission
      PROVE  AdmissionOrder'
  <2>1. \A q \in Query : /\ mem[q].state # "absent" => mem'[q].state # "absent"
                         /\ Untouched(q)' => Untouched(q)
    BY <1>5, NothingVanishes, TouchedForGood
  <2>2. \A e \in heap' : /\ mem[e.id].state # "absent" /\ e.id \in Query
                         /\ Untouched(e.id)' => e \in heap
    <3>1. heap' \subseteq [seq : Nat, id : Query]
      BY <1>5, ReplayStep DEF ReplayInvariant, TypeOK
    <3> QED BY <1>1, <1>5, <3>1, OnlyTouchedReturn
  <2>3. \A i \in Listed : admission[i] \in Query
    BY <1>1
  <2>4. InMemory'
    BY <1>1, <1>5, <2>1, <2>2, <2>3
  <2>5. ASSUME NEW i \in Listed, NEW j \in Listed, i < j,
               Untouched(admission[i])', Untouched(admission[j])',
               NEW d \in heap', NEW e \in heap',
               d.id = admission[i], e.id = admission[j]
        PROVE  d.seq < e.seq
    <3>1. d \in heap /\ e \in heap
      BY <1>5, <2>2, <2>5
    <3>2. Untouched(admission[i]) /\ Untouched(admission[j])
      BY <1>5, <2>1, <2>3, <2>5
    <3> QED BY <1>1, <2>5, <3>1, <3>2
  <2>6. InOrder'
    BY <1>5, <2>5
  <2> QED BY <1>1, <1>5, <2>4, <2>6 DEF AdmissionOrder
\* A query that is admitted goes behind everything in the heap.
<1>6. ASSUME NEW q \in Query, SubmitAdmitted(q), admission' = Append(admission, q)
      PROVE  AdmissionOrder'
  <2> DEFINE new == [seq |-> sequence + 1, id |-> q]
  <2>1. /\ heap' = heap \cup {new} /\ mem[q].state = "absent"
        /\ mem' = [mem EXCEPT ![q] = Fresh] /\ up /\ up'
        /\ UNCHANGED <<effects, requeues>>
    BY <1>6 DEF SubmitAdmitted, IsNew, Push, history
  <2>2. /\ admission' \in Seq(Query) /\ Listed' = Listed \cup {Len(admission) + 1}
        /\ Listed = 1..Len(admission) /\ Len(admission) \in Nat
        /\ admission'[Len(admission) + 1] = q
        /\ \A i \in Listed : admission'[i] = admission[i] /\ admission[i] \in Query
    BY <1>1, <1>6
  <2>3. InMemory'
    BY <1>1, <2>1, <2>2 DEF Fresh, Entry
  <2>4. \A p \in Query : Untouched(p)' <=> Untouched(p)
    BY <2>1 DEF Untouched
  <2>5. ASSUME NEW i \in Listed', NEW j \in Listed', i < j,
               Untouched(admission'[i]), Untouched(admission'[j]),
               NEW d \in heap', NEW e \in heap',
               d.id = admission'[i], e.id = admission'[j]
        PROVE  d.seq < e.seq
    <3>1. i \in Listed /\ d.id # q /\ d \in heap
      BY <1>1, <2>1, <2>2, <2>5
    <3>2. CASE j \in Listed
      <4>1. e \in heap
        BY <1>1, <2>1, <2>2, <2>5, <3>2
      <4> QED BY <1>1, <2>2, <2>5, <3>1, <3>2, <4>1
    <3>3. CASE j \notin Listed
      <4>1. e = new
        BY <1>1, <2>1, <2>2, <2>5, <3>3
      <4> QED BY <1>1, <3>1, <4>1 DEF Entry
    <3> QED BY <3>2, <3>3
  <2>6. InOrder'
    BY <2>2, <2>4, <2>5
  <2> QED BY <2>1, <2>2, <2>3, <2>6 DEF AdmissionOrder
<1>7. ASSUME Next, \A q \in Query : ~ SubmitAdmitted(q),
             admission' = IF up' THEN admission ELSE <<>>
      PROVE  AdmissionOrder'
  BY <1>3, <1>4, <1>5, <1>7, UpAndDown DEF ReplayInvariant, TypeOK
<1> QED BY <1>2, <1>6, <1>7 DEF FifoNext

\* Equal queries run in the order in which this process admitted them: no query that is
\* taken for the first time overtakes an equal one that is QUEUED and was never run.
THEOREM EqualsRunInOrder ==
  ASSUME OnlyReadsFail
  PROVE  FifoSpec => FifoAdmissionOrder
<1> DEFINE InTurn == active' # NoQuery /\ active' # active /\ Untouched(active') =>
                       \A r \in Query :
                         mem[r].state = "queued" /\ Untouched(r) /\ AdmittedBefore(r, active')
                           => Outranks(active', r)
           Invariant == /\ ReplayInvariant /\ ResultInHand /\ Undisturbed
                        /\ HeapOrdered /\ QueuedIsScheduled /\ AdmissionOrder
<1>1. FifoInit => Invariant
  <2> SUFFICES ASSUME FifoInit PROVE Invariant
    OBVIOUS
  <2>1. Init /\ admission = <<>>
    BY DEF FifoInit
  <2>2. ReplayInvariant
    BY <2>1, ReplayInit
  <2> QED BY <2>1, <2>2, FS_EmptySet
          DEF Init, ResultInHand, Undisturbed, HeapOrdered, QueuedIsScheduled,
              AdmissionOrder, Absent
<1>2. Invariant /\ [FifoNext]_fifoVars => Invariant'
  <2> SUFFICES ASSUME Invariant, [FifoNext]_fifoVars PROVE Invariant'
    OBVIOUS
  <2>1. [Next]_vars
    BY DEF FifoNext, fifoVars, Next, Client
  <2>2. NothingDropped /\ TakenAsQueued
    BY DEF NothingDropped, OnlyReadsFail, TakenAsQueued, Undisturbed
  <2>3. ReplayInvariant' /\ ResultInHand' /\ Undisturbed' /\ QueuedIsScheduled'
    BY <2>1, <2>2, ReplayStep, ResultStep, UndisturbedStep, ScheduledStep
  <2>4. HeapOrdered'
    BY <2>1, HeapStep DEF ReplayInvariant
  <2>5. AdmissionOrder'
    BY AdmissionStep
  <2> QED BY <2>3, <2>4, <2>5
<1>3. Invariant /\ [FifoNext]_fifoVars => [InTurn]_fifoVars
  <2> SUFFICES ASSUME Invariant, [FifoNext]_fifoVars,
                      active' # NoQuery, active' # active, Untouched(active'),
                      NEW r \in Query, mem[r].state = "queued", Untouched(r),
                      AdmittedBefore(r, active')
               PROVE  Outranks(active', r)
    OBVIOUS
  <2>1. TypeOK /\ [Next]_vars
    BY DEF FifoNext, fifoVars, Next, Client, ReplayInvariant
  <2>2. PICK e \in Ready :
          /\ active' = e.id
          /\ r = e.id \/ \E d \in Ready : d.id = r /\ Before(e, d)
    BY <2>1, OnlyPickActivates, PickedIsFirst
  <2>3. PICK i, j \in DOMAIN admission : i < j /\ admission[i] = r /\ admission[j] = e.id
    BY <2>2 DEF AdmittedBefore
  <2>4. \A d \in heap : d.id = r => d.seq < e.seq
    BY <2>2, <2>3 DEF AdmissionOrder, Ready
  <2>5. PICK d \in Ready : d.id = r /\ Before(e, d)
    BY <2>1, <2>2, <2>4 DEF Ready, TypeOK
  <2> QED BY <2>1, <2>2, <2>4, <2>5 DEF Before, Ready, TypeOK
<1> QED BY <1>1, <1>2, <1>3, PTL DEF FifoSpec, FifoAdmissionOrder

=============================================================================
