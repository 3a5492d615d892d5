--------------------------- MODULE QueryQueueProofs ---------------------------
(***************************************************************************)
(* Theorems about QueryQueue, for all queries, identities, fault kinds and *)
(* bounds.                                                                 *)
(***************************************************************************)
EXTENDS QueryQueue, FiniteSetTheorems, TLAPS

USE QueryAssumption, CallAssumption

-----------------------------------------------------------------------------
(* Types.                                                                  *)

\* The record Query.new makes and the absence of one are both records.
LEMMA FreshTypes == Fresh \in Record /\ Absent \in Record
BY BoundAssumption DEF Fresh, Absent, Record, State, Unsettled, Terminal

\* A transition (Query.transition) changes the state of a record and nothing else.
LEMMA InType ==
  ASSUME NEW r \in Record, NEW s \in State
  PROVE  /\ In(r, s) \in Record
         /\ In(r, s).state = s /\ In(r, s).next_step = r.next_step
BY DEF In, Record

\* Whatever its outcome, a save of a record (atomic_write_bytes) keeps the store
\* and the fault counter in their types.
LEMMA SaveType ==
  ASSUME TypeOK, NEW q \in Query, NEW r \in Record, NEW o, Save(q, r, o)
  PROVE  disk' \in [Query -> Record] /\ faults' \in Nat
BY DEF Save, TypeOK

\* A save changes one file, if any, to the record that is saved.
LEMMA SaveWrites ==
  ASSUME TypeOK, NEW q \in Query, NEW r \in Record, NEW o, Save(q, r, o)
  PROVE  /\ \A p \in Query : disk'[p] = disk[p] \/ (p = q /\ disk'[p] = r)
         /\ o # "fail" => disk'[q] = r
<1>1. disk \in [Query -> Record]
  BY DEF TypeOK
<1>2. CASE o = "fail"
  BY <1>2 DEF Save
<1>3. CASE o # "fail"
  <2>1. disk' = [disk EXCEPT ![q] = r]
    BY <1>3 DEF Save
  <2> QED BY <1>1, <1>3, <2>1
<1> QED BY <1>2, <1>3

\* Pushing a query keeps the heap and the sequence counter in their types.
LEMMA PushType ==
  ASSUME TypeOK, NEW q \in Query, Push(q)
  PROVE  sequence' \in Nat /\ heap' \subseteq [seq : Nat, id : Query]
BY DEF Push, TypeOK

\* What restore rebuilds from readable files has the types of a running queue.
LEMMA RestoreType ==
  ASSUME TypeOK, NEW loaded \in SUBSET Query, NEW lost, Restore(loaded, lost)
  PROVE  /\ mem' \in [Query -> Record] /\ disk' \in [Query -> Record]
         /\ heap' \subseteq [seq : Nat, id : Query] /\ sequence' \in Nat
         /\ ext' \in [Call -> Query \cup {NoQuery}]
<1> DEFINE pushed == loaded \cap InState(disk, Resumable)
           Restored(q) == In(disk[q], RestoredState(loaded, q))
<1>1. \A q \in Query : Restored(q) \in Record
  <2> SUFFICES ASSUME NEW q \in Query PROVE Restored(q) \in Record
    OBVIOUS
  <2>1. RestoredState(loaded, q) \in State
    BY DEF RestoredState, Resumable, State, Unsettled, Terminal, TypeOK, Record
  <2> QED BY <2>1, InType DEF TypeOK
<1>2. \A S \in SUBSET pushed : Cardinality(S) \in Nat
  BY FS_Subset, FS_CardinalityType DEF InState
<1>3. mem' \in [Query -> Record]
  BY <1>1, FreshTypes DEF Restore
<1>4. disk' \in [Query -> Record]
  BY <1>1 DEF Restore, TypeOK
<1>5. heap' \subseteq [seq : Nat, id : Query] /\ sequence' \in Nat
  <2> DEFINE Order(q) == Cardinality({r \in pushed : Rank[r] <= Rank[q]})
  <2>1. \A q \in pushed : Order(q) \in Nat
    BY <1>2
  <2>2. heap' = {[seq |-> Order(q), id |-> q] : q \in pushed}
    BY DEF Restore
  <2>3. sequence' = Cardinality(pushed)
    BY DEF Restore
  <2> HIDE DEF pushed, Order
  <2>4. pushed \subseteq Query
    BY DEF pushed
  <2>5. heap' \subseteq [seq : Nat, id : Query]
    BY <2>1, <2>2, <2>4
  <2> QED BY <1>2, <2>3, <2>5
<1>6. ext' \in [Call -> Query \cup {NoQuery}]
  BY DEF Restore
<1> QED BY <1>3, <1>4, <1>5, <1>6

\* Every step keeps every variable in its type.
LEMMA TypeStep == TypeOK /\ LaneShape /\ [Next]_vars => TypeOK'
<1> SUFFICES ASSUME TypeOK, LaneShape, [Next]_vars PROVE TypeOK'
  OBVIOUS
<1> USE FreshTypes
<1>1. ASSUME NEW q \in Query, SubmitRefused(q) PROVE TypeOK'
  BY <1>1 DEF SubmitRefused, Reject, TypeOK, queueVars, laneVars, history
<1>2. ASSUME NEW q \in Query, SubmitNotSaved(q) PROVE TypeOK'
  BY <1>2, SaveType DEF SubmitNotSaved, Reject, TypeOK, queueVars, laneVars, history
<1>3. ASSUME NEW q \in Query, SubmitAdmitted(q) PROVE TypeOK'
  <2>1. sequence' \in Nat /\ heap' \subseteq [seq : Nat, id : Query]
    BY <1>3, PushType DEF SubmitAdmitted
  <2>2. disk' \in [Query -> Record] /\ mem' \in [Query -> Record]
    BY <1>3 DEF SubmitAdmitted, TypeOK
  <2>3. ext' \in [Call -> Query \cup {NoQuery}]
    BY <1>3, KeyAssumption DEF SubmitAdmitted, TypeOK, Keyed
  <2>4. preempt' \in BOOLEAN
    BY <1>3 DEF SubmitAdmitted, TypeOK
  <2>5. faults' \in Nat /\ rejected' \in SUBSET Query
    BY <1>3 DEF SubmitAdmitted, TypeOK, Reject
  <2> QED BY <1>3, <2>1, <2>2, <2>3, <2>4, <2>5 DEF SubmitAdmitted, TypeOK, history
<1>4. ASSUME NEW q \in Query, RecordFailed(q) PROVE TypeOK'
  <2> DEFINE r == In(IF mem[q].state = "absent" THEN Fresh ELSE mem[q], "failed")
  <2>1. r \in Record
    BY InType DEF TypeOK, State, Terminal
  <2>2. PICK o : Save(q, r, o) /\ mem' = IF o # "ok" /\ mem[q].state = "absent"
                                         THEN mem ELSE [mem EXCEPT ![q] = r]
    BY <1>4 DEF RecordFailed
  <2>3. disk' \in [Query -> Record] /\ faults' \in Nat
    BY <2>1, <2>2, SaveType
  <2>4. mem' \in [Query -> Record]
    BY <2>1, <2>2 DEF TypeOK
  <2> QED BY <1>4, <2>3, <2>4 DEF RecordFailed, TypeOK, laneVars, history
<1>5. CASE Pick
  BY <1>5 DEF Pick, AfterPop, Ready, Goto, TypeOK, Label, history
<1>6. CASE FindIdle
  BY <1>6 DEF FindIdle, TypeOK, laneVars, history
<1> DEFINE Active == active \in Query /\ mem[active] \in Record
<1>7. pc # "idle" => Active
  BY DEF TypeOK
<1>8. ASSUME Active, NEW s \in State, SetState(active, s)
      PROVE  mem' \in [Query -> Record]
  BY <1>8, InType DEF SetState, TypeOK
<1>9. CASE MarkRunning
  <2>1. Active
    BY <1>7, <1>9 DEF MarkRunning
  <2>4. RunningRecord \in Record
    BY <2>1, InType DEF RunningRecord, State, Unsettled
  <2>2. CASE <<mem[active].state, "running">> \in Allowed
    <3>1. /\ mem' = [mem EXCEPT ![active] = RunningRecord]
          /\ snap' = RunningRecord /\ pc' = "save_running" /\ faults' = faults
      BY <1>9, <2>2 DEF MarkRunning, Goto
    <3>2. mem' \in [Query -> Record] /\ snap' \in Record
      BY <2>4, <3>1 DEF TypeOK
    <3> QED BY <1>9, <3>1, <3>2 DEF MarkRunning, TypeOK, Label, history
  <2>3. CASE RunningNotPersisted /\ UNCHANGED snap
    <3>1. mem' \in [Query -> Record]
      BY <1>8, <2>1, <2>3 DEF RunningNotPersisted, State, Unsettled
    <3> QED BY <1>9, <2>3, <3>1 DEF MarkRunning, RunningNotPersisted, Goto, TypeOK, Label, history
  <2> QED BY <1>9, <2>2, <2>3 DEF MarkRunning
<1>10. CASE SaveRunning
  <2>1. disk' \in [Query -> Record] /\ faults' \in Nat
    BY <1>7, <1>10, SaveType DEF SaveRunning, TypeOK
  <2> QED BY <1>10, <2>1 DEF SaveRunning, Goto, TypeOK, Label, queueVars, history
<1>11. CASE SaveRunningFails
  <2>1. mem' \in [Query -> Record]
    BY <1>7, <1>8, <1>11 DEF SaveRunningFails, State, Unsettled
  <2>2. disk' \in [Query -> Record] /\ faults' \in Nat
    BY <1>7, <1>11, SaveType DEF SaveRunningFails, TypeOK
  <2> QED BY <1>11, <2>1, <2>2 DEF SaveRunningFails, Goto, TypeOK, Label, history
<1>12. CASE RefuseStep
  <2>1. mem' \in [Query -> Record]
    BY <1>7, <1>8, <1>12 DEF RefuseStep, State, Unsettled
  <2>2. snap' \in Record
    BY <1>7, <1>12, InType DEF RefuseStep, State, Unsettled
  <2> QED BY <1>12, <2>1, <2>2 DEF RefuseStep, Goto, TypeOK, Label, history
<1>13. CASE SaveRefused
  <2>1. disk' \in [Query -> Record] /\ faults' \in Nat
    BY <1>7, <1>13, SaveType DEF SaveRefused, TypeOK
  <2> QED BY <1>13, <2>1 DEF SaveRefused, Goto, TypeOK, Label, queueVars, history
<1>14. CASE ExecuteTool
  <2> DEFINE s == mem[active].next_step
  <2>1. active \in Query /\ s \in Step
    BY <1>7, <1>14, StepsAssumption, BoundAssumption
    DEF ExecuteTool, Executable, Record, Step
  <2>2. effects' \in [Query -> [Step -> Nat]]
    BY <1>14, <2>1 DEF ExecuteTool, TypeOK
  <2>3. unsuccessful' \in [Query -> SUBSET Step] /\ outcome' \in BOOLEAN
    BY <1>14, <2>1 DEF ExecuteTool, TypeOK
  <2> QED BY <1>14, <2>2, <2>3 DEF ExecuteTool, Goto, TypeOK, Label, queueVars
<1>15. CASE RecordResult
  <2> DEFINE next == mem[active].next_step + 1
             Advanced(t) == [state |-> t, next_step |-> next]
  <2>1. active \in Query /\ next \in 0..MaxSteps
    BY <1>7, <1>15, StepsAssumption, BoundAssumption DEF RecordResult, LaneShape, Record
  <2>2. \A t \in State : Advanced(t) \in Record
    BY <2>1 DEF Record
  <2>3. ResultState(active, next) \in State /\ "recovery_required" \in State
    BY DEF ResultState, State, Terminal, Unsettled
  <2>4. mem' \in [Query -> Record] /\ snap' \in Record
    BY <1>15, <2>1, <2>2, <2>3 DEF RecordResult, TypeOK
  <2>5. pc' \in Label \ {"idle"}
    BY <1>15 DEF RecordResult, Goto, Label
  <2> QED BY <1>15, <2>4, <2>5 DEF RecordResult, TypeOK, history
<1>16. CASE SaveResult
  <2>1. disk' \in [Query -> Record] /\ faults' \in Nat
    BY <1>7, <1>16, SaveType DEF SaveResult, TypeOK
  <2>2. mem' \in [Query -> Record]
    BY <1>7, <1>8, <1>16 DEF SaveResult, State, Unsettled, TypeOK
  <2>3. snap' \in Record
    BY <1>7, <1>16, InType DEF SaveResult, State, Unsettled, TypeOK
  <2> QED BY <1>16, <2>1, <2>2, <2>3 DEF SaveResult, Goto, TypeOK, Label, history
<1>17. CASE SaveResultFails
  <2>1. disk' \in [Query -> Record] /\ faults' \in Nat
    BY <1>7, <1>17, SaveType DEF SaveResultFails, TypeOK
  <2>2. mem' \in [Query -> Record]
    BY <1>7, <1>8, <1>17 DEF SaveResultFails, State, Unsettled
  <2> QED BY <1>17, <2>1, <2>2 DEF SaveResultFails, Goto, TypeOK, Label, history
<1>18. CASE SaveResume
  <2>1. disk' \in [Query -> Record] /\ faults' \in Nat
    BY <1>7, <1>18, SaveType DEF SaveResume, TypeOK
  <2>2. mem' \in [Query -> Record]
    BY <1>7, <1>8, <1>18 DEF SaveResume, State, Unsettled, TypeOK
  <2> QED BY <1>18, <2>1, <2>2 DEF SaveResume, Goto, TypeOK, Label, history
<1>19. CASE Requeue
  BY <1>7, <1>19, PushType DEF Requeue, Goto, TypeOK, Label, history
<1>20. CASE Finish
  BY <1>20 DEF Finish, Goto, TypeOK, Label, queueVars, history
<1>21. ASSUME NEW q \in Query, ResolveCancel(q) PROVE TypeOK'
  <2>1. In(mem[q], "cancelled") \in Record
    BY InType DEF TypeOK, State, Terminal
  <2>2. disk' \in [Query -> Record] /\ faults' \in Nat
    BY <1>21, <2>1, SaveType DEF ResolveCancel
  <2>3. mem' \in [Query -> Record]
    BY <1>21, <2>1 DEF ResolveCancel, SetState, TypeOK
  <2> QED BY <1>21, <2>2, <2>3 DEF ResolveCancel, TypeOK, laneVars, history
<1>22. ASSUME NEW q \in Query, ResolveRequeue(q) PROVE TypeOK'
  <2>1. In(mem[q], "queued") \in Record
    BY InType DEF TypeOK, State, Unsettled
  <2>2. disk' \in [Query -> Record] /\ faults' \in Nat
    BY <1>22, <2>1, SaveType DEF ResolveRequeue
  <2>3. mem' \in [Query -> Record]
    BY <1>22, <2>1 DEF ResolveRequeue, SetState, TypeOK
  <2>4. sequence' \in Nat /\ heap' \subseteq [seq : Nat, id : Query]
    <3>1. CASE Push(q)
      BY <3>1, PushType
    <3>2. CASE UNCHANGED <<sequence, heap>>
      BY <3>2 DEF TypeOK
    <3> QED BY <1>22, <3>1, <3>2 DEF ResolveRequeue
  <2>5. /\ requeues' \in [Query -> Nat]
        /\ UNCHANGED <<up, accepted, ext, laneVars, rejected, history, stops>>
    BY <1>22 DEF ResolveRequeue, TypeOK
  <2> QED BY <2>2, <2>3, <2>4, <2>5 DEF TypeOK, laneVars, history
<1>23. CASE Stop
  <2>1. mem' \in [Query -> Record] /\ snap' \in Record
    BY <1>23 DEF Stop, NothingInMemory
  <2>2. /\ heap' \subseteq [seq : Nat, id : Query] /\ sequence' \in Nat
        /\ ext' \in [Call -> Query \cup {NoQuery}]
    BY <1>23 DEF Stop, NothingInMemory
  <2>3. /\ active' = NoQuery /\ pc' = "idle" /\ preempt' = FALSE
        /\ outcome' = TRUE /\ rejected' = {} /\ up' = FALSE /\ stops' = stops + 1
        /\ UNCHANGED <<accepted, disk, history, requeues, faults>>
    BY <1>23 DEF Stop
  <2>4. /\ up' \in BOOLEAN /\ preempt' \in BOOLEAN /\ outcome' \in BOOLEAN
        /\ rejected' \in SUBSET Query
    BY <2>3, Zenon
  <2>6. pc' \in Label /\ stops' \in Nat
    BY <2>3 DEF TypeOK, Label
  <2>5. /\ accepted' \in SUBSET Query /\ disk' \in [Query -> Record]
        /\ effects' \in [Query -> [Step -> Nat]]
        /\ unsuccessful' \in [Query -> SUBSET Step]
        /\ requeues' \in [Query -> Nat] /\ faults' \in Nat
    BY <2>3 DEF TypeOK, history
  <2> QED BY <2>1, <2>2, <2>3, <2>4, <2>5, <2>6 DEF TypeOK
<1>24. CASE Start
  <2>1. PICK unread \in SUBSET Present(disk), lost \in SUBSET Present(disk) :
          /\ faults' = faults + Cardinality(unread) + Cardinality(lost)
          /\ Restore(Present(disk) \ unread, lost)
    BY <1>24 DEF Start
  <2>2. Present(disk) \ unread \in SUBSET Query
    BY DEF Present
  <2>3. faults' \in Nat
    BY <2>1, FS_Subset, FS_CardinalityType DEF Present, TypeOK
  <2> QED BY <1>24, <2>1, <2>2, <2>3, RestoreType, RegistriesAssumption
          DEF Start, TypeOK, laneVars, history
<1>25. CASE UNCHANGED vars
  BY <1>25 DEF vars, queueVars, laneVars, history, TypeOK
<1> QED
  BY <1>1, <1>2, <1>3, <1>4, <1>5, <1>6, <1>9, <1>10, <1>11, <1>12, <1>13,
     <1>14, <1>15, <1>16, <1>17, <1>18, <1>19, <1>20, <1>21, <1>22, <1>23,
     <1>24, <1>25
  DEF Next, Client, Operator, RunOnce

-----------------------------------------------------------------------------
(* No automatic replay.                                                    *)

\* Every step of client, lane, operator, stop and restart keeps the inductive
\* invariant: no record that could start a step again has that effect behind it.
LEMMA ReplayStep == ReplayInvariant /\ [Next]_vars => ReplayInvariant'
<1> SUFFICES ASSUME ReplayInvariant, [Next]_vars PROVE ReplayInvariant'
  OBVIOUS
<1> DEFINE Evidence == /\ NoAutomaticReplay /\ LaneShape
                       /\ EvidenceOnDisk /\ EvidenceInMemory /\ EvidenceOnLane
<1> USE DEF ReplayInvariant
<1>0. TypeOK'
  BY TypeStep
<1> DEFINE Same == UNCHANGED <<up, mem, disk, active, pc, snap, effects, requeues>>
<1>2. ASSUME Same, up \/ UNCHANGED rejected PROVE Evidence'
  <2>1. NoAutomaticReplay'
    BY <1>2 DEF NoAutomaticReplay
  <2>2. LaneShape'
    BY <1>2 DEF LaneShape
  <2>3. EvidenceOnDisk' /\ EvidenceInMemory'
    BY <1>2 DEF EvidenceOnDisk, EvidenceInMemory, Unspent, CleanFrom
  <2>4. EvidenceOnLane'
    BY <1>2 DEF EvidenceOnLane, Unspent, CleanFrom
  <2> QED BY <2>1, <2>2, <2>3, <2>4
<1>3. ASSUME NEW q \in Query, SubmitRefused(q) PROVE Evidence'
  BY <1>2, <1>3 DEF SubmitRefused, queueVars, laneVars, history
<1>4. ASSUME NEW q \in Query, SubmitNotSaved(q) PROVE Evidence'
  <2>1. \A r \in Query : disk'[r] = disk[r] \/ (r = q /\ disk'[r] = Fresh)
    BY <1>4, SaveWrites, FreshTypes DEF SubmitNotSaved
  <2>2. disk[q].state = "absent" /\ mem[q].state = "absent"
    BY <1>4 DEF SubmitNotSaved, IsNew
  <2>3. UNCHANGED <<up, mem, active, pc, snap, effects, requeues>> /\ up
    BY <1>4 DEF SubmitNotSaved, queueVars, history, laneVars
  <2>4. NoAutomaticReplay' /\ EvidenceInMemory'
    BY <2>3 DEF NoAutomaticReplay, EvidenceInMemory, Unspent, CleanFrom
  <2>5. EvidenceOnDisk'
    BY <2>1, <2>2, <2>3 DEF EvidenceOnDisk, Unspent, CleanFrom, Fresh, Startable
  <2>6. LaneShape'
    BY <2>3 DEF LaneShape
  <2>7. pc # "idle" => active \in Query /\ disk'[active] = disk[active]
    BY <2>1, <2>2 DEF LaneShape, TypeOK
  <2>8. EvidenceOnLane'
    BY <2>3, <2>7 DEF EvidenceOnLane, Unspent, CleanFrom
  <2> QED BY <2>4, <2>5, <2>6, <2>8
<1>5. ASSUME NEW q \in Query, SubmitAdmitted(q) PROVE Evidence'
  <2>1. /\ mem' = [mem EXCEPT ![q] = Fresh] /\ disk' = [disk EXCEPT ![q] = Fresh]
        /\ UNCHANGED <<up, active, pc, snap, effects, requeues>> /\ up
    BY <1>5 DEF SubmitAdmitted, history
  <2>2. disk[q].state = "absent" /\ mem[q].state = "absent"
    BY <1>5 DEF SubmitAdmitted, IsNew
  <2>3. CleanFrom(q, 0)
    BY <2>2 DEF EvidenceOnDisk, Unspent, Startable
  <2>4. NoAutomaticReplay'
    BY <2>1 DEF NoAutomaticReplay
  <2>5. EvidenceOnDisk' /\ EvidenceInMemory'
    BY <2>1, <2>3 DEF EvidenceOnDisk, EvidenceInMemory, Unspent, CleanFrom, Fresh, TypeOK
  <2>6. pc # "idle" => /\ active \in Query /\ disk'[active] = disk[active]
                       /\ mem'[active] = mem[active]
    BY <2>1, <2>2 DEF LaneShape, TypeOK
  <2>7. LaneShape'
    BY <2>1, <2>6 DEF LaneShape
  <2>8. EvidenceOnLane'
    BY <2>1, <2>6 DEF EvidenceOnLane, Unspent, CleanFrom
  <2> QED BY <2>4, <2>5, <2>7, <2>8
<1>6. ASSUME NEW q \in Query, RecordFailed(q) PROVE Evidence'
  <2> DEFINE r == In(IF mem[q].state = "absent" THEN Fresh ELSE mem[q], "failed")
  <2>1. /\ r \in Record /\ r.state = "failed"
        /\ mem[q].state # "absent" => r.next_step = mem[q].next_step
    BY InType, FreshTypes DEF TypeOK, State, Terminal
  <2>2. PICK o : Save(q, r, o) /\ mem' = IF o # "ok" /\ mem[q].state = "absent"
                                         THEN mem ELSE [mem EXCEPT ![q] = r]
    BY <1>6 DEF RecordFailed
  <2>3. UNCHANGED <<up, active, pc, snap, effects, requeues>> /\ up
    BY <1>6 DEF RecordFailed, laneVars, history
  <2>4. \A p \in Query : disk'[p] = disk[p] \/ (p = q /\ disk'[p] = r)
    BY <2>1, <2>2, SaveWrites
  <2>5. \A p \in Query : mem'[p] = mem[p] \/ (p = q /\ mem'[p] = r)
    BY <2>2 DEF TypeOK
  <2> HIDE DEF r
  <2>6. NoAutomaticReplay'
    BY <2>3 DEF NoAutomaticReplay
  <2>7. EvidenceOnDisk' /\ EvidenceInMemory'
    BY <2>1, <2>3, <2>4, <2>5 DEF EvidenceOnDisk, EvidenceInMemory, Unspent, CleanFrom, Startable
  <2>8. pc # "idle" =>
          /\ active \in Query /\ mem[active].state # "absent"
          /\ mem'[active].next_step = mem[active].next_step
          /\ mem'[active].state = mem[active].state \/ mem'[active].state = "failed"
          /\ disk'[active].state = disk[active].state \/ disk'[active].state = "failed"
    BY <2>1, <2>4, <2>5 DEF LaneShape, TypeOK
  <2>9. LaneShape'
    BY <2>3, <2>8 DEF LaneShape
  <2>10. EvidenceOnLane'
    BY <2>3, <2>8 DEF EvidenceOnLane, Unspent, CleanFrom, Startable
  <2> QED BY <2>6, <2>7, <2>9, <2>10
<1>7. ASSUME Pick PROVE Evidence'
  <2>1. PICK e \in Ready : active' = e.id
    BY <1>7 DEF Pick
  <2>2. e.id \in Query /\ mem[e.id].state = "queued"
    BY <2>1 DEF Ready, TypeOK
  <2>3. UNCHANGED <<up, mem, disk, snap, effects, requeues>> /\ pc' = "picked" /\ up
    BY <1>7 DEF Pick, Goto, history
  <2>4. CleanFrom(active', mem[active'].next_step)
    BY <2>1, <2>2 DEF EvidenceInMemory, Unspent, Startable
  <2>5. NoAutomaticReplay' /\ LaneShape'
    BY <2>1, <2>2, <2>3 DEF NoAutomaticReplay, LaneShape
  <2>6. EvidenceOnDisk' /\ EvidenceInMemory'
    BY <2>3 DEF EvidenceOnDisk, EvidenceInMemory, Unspent, CleanFrom
  <2>7. EvidenceOnLane'
    BY <2>3, <2>4 DEF EvidenceOnLane, CleanFrom
  <2> QED BY <2>5, <2>6, <2>7
<1>8. ASSUME FindIdle PROVE Evidence'
  BY <1>2, <1>8 DEF FindIdle, laneVars, history
\* From here on the lane is in run_once: what it may do to memory and disk.
<1> DEFINE Lane == /\ up /\ pc # "idle" /\ UNCHANGED <<up, active, effects, requeues>>
           Held == /\ active \in Query /\ mem[active] \in Record /\ snap \in Record
                   /\ mem[active].state # "absent"
           Clean == CleanFrom(active, mem[active].next_step)
<1>9. up /\ pc # "idle" => Held
  BY DEF TypeOK, LaneShape
<1>10. ASSUME Lane, NEW t \in State \ {"absent"},
              t \in Startable => Clean,
              mem' = [mem EXCEPT ![active] = In(mem[active], t)]
       PROVE  /\ NoAutomaticReplay' /\ EvidenceInMemory'
              /\ mem'[active].state = t
              /\ mem'[active].next_step = mem[active].next_step
  <2>1. Held
    BY <1>9, <1>10
  <2>2. In(mem[active], t).state = t /\ In(mem[active], t).next_step = mem[active].next_step
    BY <2>1, InType
  <2>3. \A p \in Query : mem'[p] = IF p = active THEN In(mem[active], t) ELSE mem[p]
    BY <1>10 DEF TypeOK
  <2>4. NoAutomaticReplay'
    BY <1>10 DEF NoAutomaticReplay
  <2>5. EvidenceInMemory'
    BY <1>10, <2>1, <2>2, <2>3 DEF EvidenceInMemory, Unspent, CleanFrom
  <2>6. mem'[active] = In(mem[active], t)
    BY <2>1, <2>3
  <2> QED BY <2>2, <2>4, <2>5, <2>6
<1>11. ASSUME Lane, UNCHANGED mem PROVE NoAutomaticReplay' /\ EvidenceInMemory'
  <2>1. NoAutomaticReplay'
    BY <1>11 DEF NoAutomaticReplay
  <2>2. EvidenceInMemory'
    BY <1>11 DEF EvidenceInMemory, Unspent, CleanFrom
  <2> QED BY <2>1, <2>2
<1>12. ASSUME Lane, UNCHANGED disk PROVE EvidenceOnDisk'
  BY <1>12 DEF EvidenceOnDisk, Unspent, CleanFrom
<1>13. ASSUME Lane, NEW o, Save(active, snap, o), Unspent(active, snap), snap.state # "absent"
       PROVE  EvidenceOnDisk'
  <2>1. \A p \in Query : disk'[p] = disk[p] \/ (p = active /\ disk'[p] = snap)
    BY <1>9, <1>13, SaveWrites
  <2> QED BY <1>9, <1>13, <2>1 DEF EvidenceOnDisk, Unspent, CleanFrom
<1>14. ASSUME MarkRunning PROVE Evidence'
  <2>1. Lane /\ Held /\ Clean /\ pc = "picked" /\ UNCHANGED disk
    BY <1>9, <1>14 DEF MarkRunning, history, EvidenceOnLane
  <2>2. CASE <<mem[active].state, "running">> \in Allowed
    <3>1. /\ mem' = [mem EXCEPT ![active] = In(mem[active], "running")]
          /\ snap' = In(mem[active], "running") /\ pc' = "save_running"
      BY <1>14, <2>2 DEF MarkRunning, RunningRecord, Goto
    <3>2. "running" \in State \ {"absent"} /\ "running" \notin Startable
      BY DEF State, Unsettled, Startable
    <3>3. snap'.state = "running"
      BY <2>1, <3>1, <3>2, InType
    <3> QED BY <1>10, <1>12, <2>1, <3>1, <3>2, <3>3
            DEF LaneShape, EvidenceOnLane, CleanFrom
  <2>3. CASE RunningNotPersisted
    <3>1. /\ mem' = [mem EXCEPT ![active] = In(mem[active], "queued")]
          /\ pc' \in {"requeue", "finish"}
      BY <2>3 DEF RunningNotPersisted, SetState, Goto
    <3>2. "queued" \in State \ {"absent"}
      BY DEF State, Unsettled
    <3> QED BY <1>10, <1>12, <2>1, <3>1, <3>2 DEF LaneShape, EvidenceOnLane
  <2> QED BY <1>14, <2>2, <2>3 DEF MarkRunning
<1>15. ASSUME SaveRunning PROVE Evidence'
  <2>1. /\ Lane /\ Held /\ Clean /\ snap.state = "running"
        /\ pc' = "ready" /\ UNCHANGED mem
        /\ mem[active].state \in {"running", "failed"}
        /\ Save(active, snap, "ok")
    BY <1>9, <1>15 DEF SaveRunning, Goto, queueVars, history, EvidenceOnLane
  <2>2. EvidenceOnDisk'
    BY <1>13, <2>1 DEF Unspent, Startable
  <2>3. disk'[active] = snap
    BY <2>1, SaveWrites
  <2>4. EvidenceOnLane'
    BY <2>1, <2>3 DEF EvidenceOnLane, CleanFrom, Startable
  <2> QED BY <1>11, <2>1, <2>2, <2>4 DEF LaneShape
<1>16. ASSUME SaveRunningFails PROVE Evidence'
  <2>1. /\ Lane /\ Held /\ Clean /\ snap.state = "running"
        /\ mem' = [mem EXCEPT ![active] = In(mem[active], "queued")]
        /\ pc' \in {"requeue", "finish"}
    BY <1>9, <1>16 DEF SaveRunningFails, SetState, Goto, history, EvidenceOnLane
  <2>2. \A p \in Query : disk'[p] = disk[p] \/ (p = active /\ disk'[p] = snap)
    BY <1>16, <2>1, SaveWrites DEF SaveRunningFails, TypeOK
  <2>3. EvidenceOnDisk'
    BY <2>1, <2>2 DEF EvidenceOnDisk, Unspent, CleanFrom, Startable
  <2>4. "queued" \in State \ {"absent"}
    BY DEF State, Unsettled
  <2> QED BY <1>10, <2>1, <2>3, <2>4 DEF LaneShape, EvidenceOnLane
<1>17. ASSUME RefuseStep PROVE Evidence'
  <2>1. /\ Lane /\ Held /\ UNCHANGED disk
        /\ mem' = [mem EXCEPT ![active] = In(mem[active], "recovery_required")]
        /\ snap' = In(mem[active], "recovery_required")
        /\ pc' = "save_refused"
    BY <1>9, <1>17 DEF RefuseStep, SetState, Goto, history
  <2>2. "recovery_required" \in State \ {"absent"} /\ "recovery_required" \notin Startable
    BY DEF State, Unsettled, Startable
  <2>3. snap'.state = "recovery_required"
    BY <2>1, <2>2, InType
  <2> QED BY <1>10, <1>12, <2>1, <2>2, <2>3 DEF LaneShape, EvidenceOnLane
<1>18. ASSUME SaveRefused PROVE Evidence'
  <2>1. /\ Lane /\ Held /\ snap.state = "recovery_required"
        /\ pc' = "finish" /\ UNCHANGED mem
    BY <1>9, <1>18 DEF SaveRefused, Goto, queueVars, history, EvidenceOnLane
  <2>2. EvidenceOnDisk'
    BY <1>13, <1>18, <2>1 DEF SaveRefused, Unspent, Startable
  <2> QED BY <1>11, <2>1, <2>2 DEF LaneShape, EvidenceOnLane
<1>19. ASSUME ExecuteTool PROVE Evidence'
  <2> DEFINE s == mem[active].next_step
  <2>1. /\ up /\ pc = "ready" /\ Held /\ Clean /\ Executable(active)
        /\ UNCHANGED <<up, mem, disk, active, requeues>> /\ pc' = "executed"
        /\ effects' = [effects EXCEPT ![active][s] = @ + 1]
    BY <1>9, <1>19 DEF ExecuteTool, Goto, queueVars, EvidenceOnLane
  <2>2. s \in Step
    BY <2>1, StepsAssumption, BoundAssumption DEF Executable, Record, Step
  <2>3. /\ \A q \in Query \ {active} : effects'[q] = effects[q]
        /\ \A n \in Step : effects'[active][n] =
             IF n = s THEN effects[active][s] + 1 ELSE effects[active][n]
    BY <2>1, <2>2 DEF TypeOK
  <2>4. effects[active][s] <= requeues[active]
    BY <2>1, <2>2 DEF CleanFrom, Step
  <2>5. NoAutomaticReplay'
    BY <2>1, <2>2, <2>3, <2>4 DEF NoAutomaticReplay, TypeOK, Step
  <2>6. /\ mem[active].state \in {"running", "failed"}
        /\ disk[active].state \notin Startable
    BY <2>1 DEF EvidenceOnLane
  <2>7. EvidenceOnDisk' /\ EvidenceInMemory'
    BY <2>1, <2>3, <2>6
    DEF EvidenceOnDisk, EvidenceInMemory, Unspent, CleanFrom, Startable
  <2>8. CleanFrom(active, s + 1)'
    BY <2>1, <2>2, <2>3 DEF CleanFrom, Step
  <2>9. EvidenceOnLane'
    BY <2>1, <2>6, <2>8 DEF EvidenceOnLane
  <2>10. LaneShape'
    BY <2>1 DEF LaneShape, Executable
  <2> QED BY <2>5, <2>7, <2>9, <2>10
<1>20. ASSUME RecordResult PROVE Evidence'
  <2> DEFINE next == mem[active].next_step + 1
             Advanced(t) == [state |-> t, next_step |-> next]
  <2>1. /\ Lane /\ Held /\ UNCHANGED disk /\ CleanFrom(active, next)
    BY <1>9, <1>20 DEF RecordResult, history, EvidenceOnLane
  <2>2. ResultState(active, next) \in State \ {"absent"}
    BY DEF ResultState, State, Terminal, Unsettled
  <2>3. PICK t \in State \ {"absent"} :
          /\ mem' = [mem EXCEPT ![active] = Advanced(t)]
          /\ \/ snap' = Advanced(t) /\ pc' = "save_result"
             \/ pc' = "finish"
    <3>1. "recovery_required" \in State \ {"absent"}
      BY DEF State, Unsettled
    <3> QED BY <1>20, <2>2, <3>1 DEF RecordResult, Goto
  <2>4. \A p \in Query : mem'[p] = IF p = active THEN Advanced(t) ELSE mem[p]
    BY <2>3 DEF TypeOK
  <2>5. mem'[active] = Advanced(t)
    BY <2>1, <2>4
  <2> HIDE DEF next
  <2>6. NoAutomaticReplay' /\ EvidenceOnDisk'
    BY <1>12, <2>1 DEF NoAutomaticReplay
  <2>7. EvidenceInMemory'
    BY <2>1, <2>4 DEF EvidenceInMemory, Unspent, CleanFrom
  <2>8. EvidenceOnLane'
    BY <2>1, <2>3, <2>5 DEF EvidenceOnLane, Unspent, CleanFrom
  <2>9. LaneShape'
    BY <2>1, <2>3, <2>5 DEF LaneShape
  <2> QED BY <2>6, <2>7, <2>8, <2>9
<1>21. ASSUME SaveResult PROVE Evidence'
  <2>1. /\ Lane /\ Held /\ Clean /\ snap.state # "absent" /\ Unspent(active, snap)
        /\ Save(active, snap, "ok")
    BY <1>9, <1>21 DEF SaveResult, history, EvidenceOnLane
  <2>2. EvidenceOnDisk'
    BY <1>13, <2>1
  <2>3. "queued" \in State \ {"absent"}
    BY DEF State, Unsettled
  <2>4. CASE snap.state = "paused"
    <3>1. /\ mem' = [mem EXCEPT ![active] = In(mem[active], "queued")]
          /\ snap' = In(mem[active], "queued") /\ pc' = "save_resume"
      BY <1>21, <2>4 DEF SaveResult, SetState, Goto
    <3>2. snap'.state = "queued" /\ snap'.next_step = mem[active].next_step
      BY <2>1, <2>3, <3>1, InType
    <3>3. NoAutomaticReplay' /\ EvidenceInMemory' /\ mem'[active].state = "queued"
          /\ mem'[active].next_step = mem[active].next_step
      BY <1>10, <2>1, <2>3, <3>1
    <3>4. EvidenceOnLane'
      BY <2>1, <3>1, <3>2, <3>3 DEF EvidenceOnLane, Unspent, CleanFrom
    <3>5. LaneShape'
      BY <2>1, <3>1, <3>3 DEF LaneShape
    <3> QED BY <2>2, <3>3, <3>4, <3>5
  <2>5. CASE snap.state # "paused"
    <3>1. UNCHANGED mem /\ pc' \in {"requeue", "finish"}
      BY <1>21, <2>5 DEF SaveResult, Goto
    <3> QED BY <1>11, <2>1, <2>2, <3>1 DEF EvidenceOnLane, LaneShape
  <2> QED BY <2>4, <2>5
<1>22. ASSUME SaveResultFails PROVE Evidence'
  <2>1. /\ Lane /\ Held /\ snap.state # "absent" /\ Unspent(active, snap)
        /\ mem' = [mem EXCEPT ![active] = In(mem[active], "recovery_required")]
        /\ pc' = "finish"
    BY <1>9, <1>22 DEF SaveResultFails, SetState, Goto, history, EvidenceOnLane
  <2>2. EvidenceOnDisk'
    BY <1>13, <1>22, <2>1 DEF SaveResultFails
  <2>3. "recovery_required" \in State \ {"absent"} /\ "recovery_required" \notin Startable
    BY DEF State, Unsettled, Startable
  <2> QED BY <1>10, <2>1, <2>2, <2>3 DEF LaneShape, EvidenceOnLane
<1>23. ASSUME SaveResume PROVE Evidence'
  <2>1. Lane /\ Held /\ Clean /\ snap.state # "absent" /\ Unspent(active, snap)
    BY <1>9, <1>23 DEF SaveResume, history, EvidenceOnLane
  <2>2. EvidenceOnDisk'
    BY <1>13, <1>23, <2>1 DEF SaveResume
  <2>3. PICK o \in SaveOutcomes :
          /\ Save(active, snap, o)
          /\ IF o = "ok" THEN UNCHANGED mem /\ Goto("requeue")
             ELSE SetState(active, "paused") /\ Goto("finish")
    BY <1>23 DEF SaveResume
  <2>4. pc' \in {"requeue", "finish"}
    BY <2>3 DEF Goto
  <2>5. "paused" \in State \ {"absent"}
    BY DEF State, Unsettled
  <2>6. NoAutomaticReplay' /\ EvidenceInMemory' /\ mem'[active].state # "absent"
    <3>1. CASE o = "ok"
      BY <1>11, <2>1, <2>3, <3>1
    <3>2. CASE o # "ok"
      BY <1>10, <2>1, <2>3, <2>5, <3>2 DEF SetState
    <3> QED BY <3>1, <3>2
  <2> QED BY <2>1, <2>2, <2>4, <2>6 DEF LaneShape, EvidenceOnLane
<1>24. ASSUME Requeue PROVE Evidence'
  <2>1. Lane /\ Held /\ UNCHANGED <<mem, disk>> /\ pc' = "finish"
    BY <1>9, <1>24 DEF Requeue, Goto, history
  <2> QED BY <1>11, <1>12, <2>1 DEF LaneShape, EvidenceOnLane
<1>25. ASSUME Finish PROVE Evidence'
  <2>1. UNCHANGED <<up, mem, disk, effects, requeues>> /\ pc' = "idle" /\ up
    BY <1>25 DEF Finish, Goto, queueVars, history
  <2>2. NoAutomaticReplay' /\ LaneShape'
    BY <2>1 DEF NoAutomaticReplay, LaneShape
  <2>3. EvidenceOnDisk' /\ EvidenceInMemory' /\ EvidenceOnLane'
    BY <2>1 DEF EvidenceOnDisk, EvidenceInMemory, EvidenceOnLane, Unspent, CleanFrom
  <2> QED BY <2>2, <2>3
<1>26. ASSUME NEW q \in Query, ResolveCancel(q) PROVE Evidence'
  <2> DEFINE r == In(mem[q], "cancelled")
  <2>1. r \in Record /\ r.state = "cancelled" /\ r.next_step = mem[q].next_step
    BY InType DEF TypeOK, State, Terminal
  <2>2. /\ mem[q].state = "recovery_required" /\ mem' = [mem EXCEPT ![q] = r] /\ up
        /\ UNCHANGED <<up, active, pc, snap, effects, requeues>>
    BY <1>26 DEF ResolveCancel, AwaitsRecovery, SetState, laneVars, history
  <2>3. \A p \in Query : disk'[p] = disk[p] \/ (p = q /\ disk'[p] = r)
    BY <1>26, <2>1, SaveWrites DEF ResolveCancel
  <2>4. \A p \in Query : mem'[p] = IF p = q THEN r ELSE mem[p]
    BY <2>2 DEF TypeOK
  <2> HIDE DEF r
  <2>5. NoAutomaticReplay' /\ EvidenceOnDisk' /\ EvidenceInMemory'
    BY <2>1, <2>2, <2>3, <2>4 DEF NoAutomaticReplay, EvidenceOnDisk, EvidenceInMemory,
       Unspent, CleanFrom, Startable
  <2>6. pc # "idle" => /\ active \in Query /\ mem[active].state # "absent"
                       /\ mem'[active].next_step = mem[active].next_step
                       /\ mem'[active].state # "absent"
                       /\ active = q => mem[active].state = "recovery_required"
                       /\ active # q => /\ mem'[active] = mem[active]
                                        /\ disk'[active] = disk[active]
    BY <2>1, <2>2, <2>3, <2>4 DEF LaneShape, TypeOK
  <2>7. LaneShape'
    BY <2>2, <2>6 DEF LaneShape
  <2>8. EvidenceOnLane'
    BY <2>2, <2>6 DEF EvidenceOnLane, Unspent, CleanFrom
  <2> QED BY <2>5, <2>7, <2>8
<1>27. ASSUME NEW q \in Query, ResolveRequeue(q) PROVE Evidence'
  <2> DEFINE r == In(mem[q], "queued")
  <2>1. r \in Record /\ r.state = "queued" /\ r.next_step = mem[q].next_step
    BY InType DEF TypeOK, State, Unsettled
  <2>2. /\ mem[q].state = "recovery_required" /\ mem' = [mem EXCEPT ![q] = r] /\ up
        /\ requeues' = [requeues EXCEPT ![q] = @ + 1]
        /\ UNCHANGED <<up, active, pc, snap, effects>>
    BY <1>27 DEF ResolveRequeue, AwaitsRecovery, SetState, laneVars, history
  <2>3. \A p \in Query : disk'[p] = disk[p] \/ (p = q /\ disk'[p] = r)
    BY <1>27, <2>1, SaveWrites DEF ResolveRequeue
  <2>4. /\ \A p \in Query : mem'[p] = IF p = q THEN r ELSE mem[p]
        /\ \A p \in Query : requeues'[p] = IF p = q THEN requeues[p] + 1 ELSE requeues[p]
        /\ requeues \in [Query -> Nat] /\ effects \in [Query -> [Step -> Nat]]
    BY <2>2 DEF TypeOK
  <2> HIDE DEF r
  \* One more requeue makes room for one more execution of every step.
  <2>5. \A s \in Step : effects'[q][s] <= requeues'[q]
    BY <2>2, <2>4 DEF NoAutomaticReplay
  <2>6. NoAutomaticReplay'
    BY <2>2, <2>4 DEF NoAutomaticReplay
  <2>7. \A p \in Query \ {q} : effects'[p] = effects[p] /\ requeues'[p] = requeues[p]
    BY <2>2, <2>4
  <2>8. EvidenceOnDisk' /\ EvidenceInMemory'
    BY <2>1, <2>2, <2>3, <2>4, <2>5, <2>7
    DEF EvidenceOnDisk, EvidenceInMemory, Unspent, CleanFrom
  <2>9. pc # "idle" => /\ active \in Query /\ mem[active].state # "absent"
                       /\ mem'[active].next_step = mem[active].next_step
                       /\ mem'[active].state # "absent"
                       /\ active = q => mem[active].state = "recovery_required"
                       /\ active # q => /\ mem'[active] = mem[active]
                                        /\ disk'[active] = disk[active]
    BY <2>1, <2>2, <2>3, <2>4 DEF LaneShape, TypeOK
  <2>10. LaneShape'
    BY <2>2, <2>9 DEF LaneShape
  <2>11. EvidenceOnLane'
    <3>1. CASE pc = "idle"
      BY <2>2, <3>1 DEF EvidenceOnLane
    <3>2. CASE pc # "idle" /\ active = q
      BY <2>2, <2>5, <2>9, <3>2 DEF EvidenceOnLane, Unspent, CleanFrom
    <3>3. CASE pc # "idle" /\ active # q
      BY <2>2, <2>7, <2>9, <3>3 DEF EvidenceOnLane, Unspent, CleanFrom
    <3> QED BY <3>1, <3>2, <3>3
  <2> QED BY <2>6, <2>8, <2>10, <2>11
<1>28. ASSUME Stop PROVE Evidence'
  <2>1. /\ mem' = [q \in Query |-> Absent] /\ pc' = "idle" /\ rejected' = {}
        /\ UNCHANGED <<disk, effects, requeues>>
    BY <1>28 DEF Stop, NothingInMemory, history
  <2>2. NoAutomaticReplay' /\ LaneShape' /\ EvidenceOnLane'
    BY <2>1 DEF NoAutomaticReplay, LaneShape, EvidenceOnLane
  <2>3. EvidenceOnDisk' /\ EvidenceInMemory'
    BY <2>1 DEF EvidenceOnDisk, EvidenceInMemory, Unspent, CleanFrom, Absent
  <2> QED BY <2>2, <2>3
<1>29. ASSUME Start PROVE Evidence'
  <2>1. PICK unread \in SUBSET Present(disk), lost \in SUBSET Present(disk) :
          Restore(Present(disk) \ unread, lost)
    BY <1>29 DEF Start
  <2> DEFINE loaded == Present(disk) \ unread
             Restored(q) == In(disk[q], RestoredState(loaded, q))
  <2>2. \A q \in loaded : /\ q \in Query /\ disk[q].state # "absent"
                          /\ Restored(q).state = RestoredState(loaded, q)
                          /\ Restored(q).next_step = disk[q].next_step
    <3> SUFFICES ASSUME NEW q \in loaded PROVE
          /\ q \in Query /\ disk[q].state # "absent"
          /\ Restored(q).state = RestoredState(loaded, q)
          /\ Restored(q).next_step = disk[q].next_step
      OBVIOUS
    <3>1. q \in Query /\ disk[q] \in Record /\ disk[q].state # "absent"
      BY DEF Present, TypeOK
    <3>2. RestoredState(loaded, q) \in State
      BY <3>1 DEF RestoredState, Resumable, State, Unsettled, Terminal, Record
    <3> QED BY <3>1, <3>2, InType
  <2>3. \A q \in loaded : /\ RestoredState(loaded, q) # "absent"
                          /\ RestoredState(loaded, q) \in Startable => disk[q].state \in Startable
    BY <2>2 DEF RestoredState, Resumable, Startable
  <2>4. /\ mem' = [q \in Query |-> IF q \in loaded THEN Restored(q) ELSE Absent]
        /\ \A q \in Query : disk'[q] = disk[q] \/ (q \in loaded /\ disk'[q] = Restored(q))
    BY <2>1 DEF Restore
  <2>5. UNCHANGED <<active, pc, rejected, effects, requeues>> /\ pc = "idle" /\ rejected = {}
    BY <1>29 DEF Start, laneVars, history, LaneShape
  <2> HIDE DEF loaded, Restored
  <2>6. EvidenceInMemory'
    BY <2>2, <2>3, <2>4, <2>5 DEF EvidenceInMemory, EvidenceOnDisk, Unspent, CleanFrom, Absent
  <2>7. EvidenceOnDisk'
    BY <2>2, <2>3, <2>4, <2>5 DEF EvidenceOnDisk, Unspent, CleanFrom
  <2>8. NoAutomaticReplay' /\ LaneShape' /\ EvidenceOnLane'
    BY <2>5 DEF NoAutomaticReplay, LaneShape, EvidenceOnLane
  <2> QED BY <2>6, <2>7, <2>8
<1>30. ASSUME UNCHANGED vars PROVE Evidence'
  BY <1>2, <1>30 DEF vars, queueVars, laneVars, history
<1> HIDE DEF Evidence
<1>31. Evidence'
  BY <1>3, <1>4, <1>5, <1>6, <1>7, <1>8, <1>14, <1>15, <1>16, <1>17, <1>18,
     <1>19, <1>20, <1>21, <1>22, <1>23, <1>24, <1>25, <1>26, <1>27, <1>28,
     <1>29, <1>30
  DEF Next, Client, Operator, RunOnce
<1> QED BY <1>0, <1>31 DEF Evidence

\* An empty root with no query satisfies the inductive invariant.
LEMMA ReplayInit == Init => ReplayInvariant
<1> SUFFICES ASSUME Init PROVE ReplayInvariant
  OBVIOUS
<1>1. /\ up = TRUE /\ accepted \in SUBSET Query
      /\ mem = [q \in Query |-> Absent] /\ disk = [q \in Query |-> Absent]
      /\ heap = {} /\ sequence = 0 /\ ext = [k \in Call |-> NoQuery]
      /\ active = NoQuery /\ preempt = FALSE /\ pc = "idle"
      /\ snap = Absent /\ outcome = TRUE /\ rejected = {}
      /\ effects = [q \in Query |-> [s \in Step |-> 0]]
      /\ unsuccessful = [q \in Query |-> {}]
      /\ requeues = [q \in Query |-> 0] /\ faults = 0 /\ stops = 0
  BY RegistriesAssumption DEF Init
<1>2. up \in BOOLEAN /\ preempt \in BOOLEAN /\ outcome \in BOOLEAN
  BY <1>1, Zenon
<1>3. TypeOK
  BY <1>1, <1>2, FreshTypes DEF TypeOK, Label
<1>4. LaneShape /\ NoAutomaticReplay
  BY <1>1 DEF LaneShape, NoAutomaticReplay
<1>5. EvidenceOnDisk /\ EvidenceInMemory /\ EvidenceOnLane
  BY <1>1 DEF EvidenceOnDisk, EvidenceInMemory, EvidenceOnLane, Unspent, CleanFrom, Absent
<1> QED BY <1>3, <1>4, <1>5 DEF ReplayInvariant

\* The inductive invariant holds in every behaviour of the queue: records in
\* memory, on disk and on the lane never invite an effect that already happened.
THEOREM ReplayInvariantHolds == Spec => []ReplayInvariant
BY ReplayInit, ReplayStep, PTL DEF Spec

\* Every variable of the queue, its store and its history has its type.
THEOREM TypesHold == Spec => []TypeOK
<1>1. ReplayInvariant => TypeOK
  BY DEF ReplayInvariant
<1> QED BY <1>1, ReplayInvariantHolds, PTL

\* Whatever the queries, the interleaving of clients, lane and operator, the
\* faults of the store and the audit log, and the stops and restarts: a step is
\* executed at most once more than the operator requeued its query.
THEOREM NeverReplayed == Spec => []NoAutomaticReplay
<1>1. ReplayInvariant => NoAutomaticReplay
  BY DEF ReplayInvariant
<1> QED BY <1>1, ReplayInvariantHolds, PTL

\* Under the same conditions the durable record of a query never invites a
\* restart to run a step that was executed beyond the operator's requeues.
THEOREM EffectsStayEvident == Spec => []EffectIsEvident
<1>1. ReplayInvariant => EffectIsEvident
  <2> SUFFICES ASSUME ReplayInvariant, NEW q \in Query, NEW s \in Step,
                      effects[q][s] > requeues[q], disk[q].state \in Startable,
                      ~ disk[q].next_step > s
               PROVE  FALSE
    BY DEF EffectIsEvident, Startable
  <2>1. disk[q].next_step \in Int /\ s \in Int
    BY BoundAssumption DEF ReplayInvariant, TypeOK, Record, Step
  <2>2. effects[q][s] <= requeues[q]
    BY <2>1 DEF ReplayInvariant, EvidenceOnDisk, Unspent, CleanFrom
  <2>3. effects[q][s] \in Nat /\ requeues[q] \in Nat
    BY DEF ReplayInvariant, TypeOK
  <2> QED BY <2>2, <2>3
<1> QED BY <1>1, ReplayInvariantHolds, PTL

-----------------------------------------------------------------------------
(* Checkpoints only advance.                                               *)

\* Memory is never behind the file, what the lane is about to write is level
\* with memory, and a rejected query that never got into memory has no progress.
CheckpointOrder ==
  /\ \A q \in Query : mem[q].state # "absent" => disk[q].next_step <= mem[q].next_step
  /\ \A q \in rejected : mem[q].state = "absent" => disk[q].next_step = 0
  /\ pc \in {"save_running", "save_refused", "save_result", "save_resume"}
       => snap.next_step = mem[active].next_step

Advances == \A q \in Query : disk'[q].next_step >= disk[q].next_step

\* One step keeps CheckpointOrder and takes no durable checkpoint back.
LEMMA CheckpointStep ==
  ReplayInvariant /\ CheckpointOrder /\ [Next]_vars => CheckpointOrder' /\ Advances
<1> SUFFICES ASSUME ReplayInvariant, CheckpointOrder, [Next]_vars
             PROVE  CheckpointOrder' /\ Advances
  OBVIOUS
<1> USE DEF ReplayInvariant
<1> DEFINE Goal == CheckpointOrder' /\ Advances
<1>0. \A q \in Query : mem[q] \in Record /\ disk[q] \in Record
                       /\ mem[q].next_step \in Nat /\ disk[q].next_step \in Nat
  BY BoundAssumption DEF TypeOK, Record
<1>1. ASSUME UNCHANGED <<mem, disk, active, pc, snap, rejected>> PROVE Goal
  BY <1>0, <1>1 DEF CheckpointOrder, Advances
<1>2. ASSUME NEW q \in Query, SubmitRefused(q) PROVE Goal
  <2>1. disk[q].next_step = 0
    BY <1>2 DEF SubmitRefused, IsNew, EvidenceOnDisk
  <2> QED BY <1>0, <1>2, <2>1
          DEF SubmitRefused, Reject, CheckpointOrder, Advances, queueVars, laneVars
<1>3. ASSUME NEW q \in Query, SubmitNotSaved(q) PROVE Goal
  <2>1. \A p \in Query : disk'[p] = disk[p] \/ (p = q /\ disk'[p] = Fresh)
    BY <1>3, SaveWrites, FreshTypes DEF SubmitNotSaved
  <2>2. disk[q].next_step = 0 /\ mem[q].state = "absent"
    BY <1>3 DEF SubmitNotSaved, IsNew, EvidenceOnDisk
  <2>3. /\ UNCHANGED <<mem, active, pc, snap>> /\ rejected' \subseteq rejected \cup {q}
        /\ rejected \subseteq Query
    BY <1>3 DEF SubmitNotSaved, Reject, queueVars, laneVars, TypeOK
  <2>4. \A p \in Query : disk'[p].next_step = disk[p].next_step
    BY <2>1, <2>2 DEF Fresh
  <2> QED BY <1>0, <2>2, <2>3, <2>4 DEF CheckpointOrder, Advances
<1>4. ASSUME NEW q \in Query, SubmitAdmitted(q) PROVE Goal
  <2>1. /\ mem' = [mem EXCEPT ![q] = Fresh] /\ disk' = [disk EXCEPT ![q] = Fresh]
        /\ UNCHANGED <<active, pc, snap>>
        /\ rejected \subseteq Query /\ rejected' \subseteq rejected \cup {q}
    BY <1>4 DEF SubmitAdmitted, Reject, TypeOK
  <2>2. disk[q].next_step = 0 /\ mem[q].state = "absent"
    BY <1>4 DEF SubmitAdmitted, IsNew, EvidenceOnDisk
  <2>3. \A p \in Query : /\ disk'[p].next_step = disk[p].next_step
                         /\ mem'[p] = IF p = q THEN Fresh ELSE mem[p]
    BY <2>1, <2>2 DEF Fresh, TypeOK
  <2>4. pc # "idle" => mem'[active] = mem[active]
    BY <2>2, <2>3 DEF LaneShape, TypeOK
  <2> QED BY <1>0, <2>1, <2>2, <2>3, <2>4 DEF CheckpointOrder, Advances, Fresh
<1>5. ASSUME NEW q \in Query, RecordFailed(q) PROVE Goal
  <2> DEFINE r == In(IF mem[q].state = "absent" THEN Fresh ELSE mem[q], "failed")
  <2>1. /\ r \in Record /\ r.state = "failed"
        /\ r.next_step = IF mem[q].state = "absent" THEN 0 ELSE mem[q].next_step
    BY <1>0, InType, FreshTypes DEF State, Terminal, Fresh
  <2>2. PICK o : Save(q, r, o) /\ mem' = IF o # "ok" /\ mem[q].state = "absent"
                                         THEN mem ELSE [mem EXCEPT ![q] = r]
    BY <1>5 DEF RecordFailed
  <2>3. /\ UNCHANGED <<active, pc, snap>> /\ q \in rejected /\ rejected' = rejected \ {q}
        /\ rejected \subseteq Query
    BY <1>5 DEF RecordFailed, laneVars, TypeOK
  <2>4. \A p \in Query : disk'[p] = disk[p] \/ (p = q /\ disk'[p] = r)
    BY <2>1, <2>2, SaveWrites
  <2>5. \A p \in Query : mem'[p] = mem[p] \/ (p = q /\ mem'[p] = r)
    BY <2>2 DEF TypeOK
  <2>6. mem[q].state = "absent" => mem' = mem \/ disk'[q] = r
    BY <2>1, <2>2, SaveWrites
  <2> HIDE DEF r
  <2>7. Advances
    BY <1>0, <2>1, <2>3, <2>4 DEF Advances, CheckpointOrder
  <2>8. pc # "idle" => mem'[active].next_step = mem[active].next_step
    BY <2>1, <2>5 DEF LaneShape, TypeOK
  <2>9. \A p \in Query : mem'[p].state # "absent" => disk'[p].next_step <= mem'[p].next_step
    BY <1>0, <2>1, <2>3, <2>4, <2>5, <2>6 DEF CheckpointOrder
  <2>10. \A p \in rejected' : mem'[p].state = "absent" => disk'[p].next_step = 0
    BY <2>3, <2>4, <2>5 DEF CheckpointOrder
  <2> QED BY <2>3, <2>7, <2>8, <2>9, <2>10 DEF CheckpointOrder
\* A step of the lane changes at most the active query, to records no older.
<1>6. ASSUME active \in Query, mem[active].state # "absent",
             UNCHANGED rejected,
             \A p \in Query \ {active} : mem'[p] = mem[p] /\ disk'[p] = disk[p],
             mem'[active].next_step \in Nat,
             mem'[active].next_step >= mem[active].next_step,
             mem'[active].state # "absent",
             disk'[active] = disk[active] \/ (disk'[active] = snap
                                            /\ snap.next_step = mem[active].next_step)
      PROVE  /\ Advances
             /\ \A q \in Query : mem'[q].state # "absent"
                                   => disk'[q].next_step <= mem'[q].next_step
             /\ \A q \in rejected' : mem'[q].state = "absent" => disk'[q].next_step = 0
  <2>1. rejected \subseteq Query
    BY DEF TypeOK
  <2> QED BY <1>0, <1>6, <2>1 DEF CheckpointOrder, Advances
<1> DEFINE Held == /\ active \in Query /\ mem[active] \in Record /\ snap \in Record
                   /\ mem[active].state # "absent"
           Level(r) == r.next_step = mem[active].next_step
<1>7. up /\ pc # "idle" => Held
  BY DEF TypeOK, LaneShape
<1>8. ASSUME Held, NEW t \in State, SetState(active, t)
      PROVE  /\ \A p \in Query \ {active} : mem'[p] = mem[p]
             /\ mem'[active].state = t /\ Level(mem'[active])
  <2>1. \A p \in Query : mem'[p] = IF p = active THEN In(mem[active], t) ELSE mem[p]
    BY <1>8 DEF SetState, TypeOK
  <2> QED BY <1>8, <2>1, InType
<1>9. ASSUME Held, Level(snap), NEW o, Save(active, snap, o)
      PROVE  /\ \A p \in Query \ {active} : disk'[p] = disk[p]
             /\ disk'[active] = disk[active] \/ disk'[active] = snap
  BY <1>9, SaveWrites
<1>10. /\ "queued" \in State /\ "running" \in State /\ "paused" \in State
       /\ "recovery_required" \in State
  BY DEF State, Unsettled
<1>11. ASSUME Pick PROVE Goal
  BY <1>0, <1>11 DEF Pick, Goto, CheckpointOrder, Advances
<1>12. ASSUME FindIdle PROVE Goal
  BY <1>1, <1>12 DEF FindIdle, laneVars
<1>13. ASSUME MarkRunning PROVE Goal
  <2>1. Held /\ UNCHANGED <<disk, active, rejected>>
    BY <1>7, <1>13 DEF MarkRunning
  <2>2. CASE <<mem[active].state, "running">> \in Allowed
    <3>1. SetState(active, "running") /\ snap' = In(mem[active], "running")
      BY <1>13, <2>2 DEF MarkRunning, RunningRecord, SetState
    <3>2. Level(snap')
      BY <1>10, <2>1, <3>1, InType
    <3> QED BY <1>0, <1>6, <1>8, <1>10, <2>1, <3>1, <3>2 DEF CheckpointOrder
  <2>3. CASE RunningNotPersisted
    <3>1. SetState(active, "queued") /\ pc' \in {"requeue", "finish"}
      BY <2>3 DEF RunningNotPersisted, Goto
    <3> QED BY <1>0, <1>6, <1>8, <1>10, <2>1, <3>1 DEF CheckpointOrder
  <2> QED BY <1>13, <2>2, <2>3 DEF MarkRunning
<1>14. ASSUME SaveRunning PROVE Goal
  <2>1. /\ Held /\ Level(snap) /\ UNCHANGED <<mem, snap, active, rejected>> /\ pc' = "ready"
        /\ Save(active, snap, "ok")
    BY <1>7, <1>14 DEF SaveRunning, Goto, CheckpointOrder, queueVars
  <2> QED BY <1>0, <1>6, <1>9, <2>1 DEF CheckpointOrder
<1>15. ASSUME SaveRunningFails PROVE Goal
  <2>1. /\ Held /\ Level(snap) /\ UNCHANGED <<snap, active, rejected>>
        /\ pc' \in {"requeue", "finish"} /\ SetState(active, "queued")
    BY <1>7, <1>15 DEF SaveRunningFails, Goto, CheckpointOrder
  <2>2. \A p \in Query : disk'[p] = disk[p] \/ (p = active /\ disk'[p] = snap)
    BY <1>15, <2>1, SaveWrites DEF SaveRunningFails, TypeOK
  <2> QED BY <1>0, <1>6, <1>8, <1>10, <2>1, <2>2 DEF CheckpointOrder
<1>16. ASSUME RefuseStep PROVE Goal
  <2>1. /\ Held /\ UNCHANGED <<disk, active, rejected>>
        /\ SetState(active, "recovery_required")
        /\ snap' = In(mem[active], "recovery_required")
    BY <1>7, <1>16 DEF RefuseStep
  <2>2. Level(snap')
    BY <1>10, <2>1, InType
  <2> QED BY <1>0, <1>6, <1>8, <1>10, <2>1, <2>2 DEF CheckpointOrder
<1>17. ASSUME SaveRefused PROVE Goal
  <2>1. /\ Held /\ Level(snap) /\ UNCHANGED <<mem, snap, active, rejected>> /\ pc' = "finish"
        /\ \E o : Save(active, snap, o)
    BY <1>7, <1>17 DEF SaveRefused, Goto, CheckpointOrder, queueVars
  <2> QED BY <1>0, <1>6, <1>9, <2>1 DEF CheckpointOrder
<1>18. ASSUME ExecuteTool PROVE Goal
  <2>1. UNCHANGED <<mem, disk, active, snap, rejected>> /\ pc' = "executed"
    BY <1>18 DEF ExecuteTool, Goto, queueVars
  <2> QED BY <1>0, <2>1 DEF CheckpointOrder, Advances
<1>19. ASSUME RecordResult PROVE Goal
  <2> DEFINE next == mem[active].next_step + 1
             Advanced(t) == [state |-> t, next_step |-> next]
  <2>1. Held /\ UNCHANGED <<disk, active, rejected>>
    BY <1>7, <1>19 DEF RecordResult
  <2>2. ResultState(active, next) \in State \ {"absent"}
    BY DEF ResultState, State, Terminal, Unsettled
  <2>3. PICK t \in State \ {"absent"} :
          /\ mem' = [mem EXCEPT ![active] = Advanced(t)]
          /\ \/ snap' = Advanced(t) /\ pc' = "save_result"
             \/ pc' = "finish"
    <3>1. "recovery_required" \in State \ {"absent"}
      BY DEF State, Unsettled
    <3> QED BY <1>19, <2>2, <3>1 DEF RecordResult, Goto
  <2>4. \A p \in Query : mem'[p] = IF p = active THEN Advanced(t) ELSE mem[p]
    BY <2>3 DEF TypeOK
  <2>5. mem'[active].state = t /\ mem'[active].next_step = next
    BY <2>1, <2>4
  <2>6. next \in Nat /\ next >= mem[active].next_step
    BY <1>0, <2>1
  <2>7. pc' = "save_result" => snap'.next_step = next
    BY <2>3
  <2> HIDE DEF next
  <2> QED BY <1>6, <2>1, <2>3, <2>4, <2>5, <2>6, <2>7 DEF CheckpointOrder
<1>20. ASSUME SaveResult PROVE Goal
  <2>1. Held /\ Level(snap) /\ UNCHANGED <<active, rejected>> /\ Save(active, snap, "ok")
    BY <1>7, <1>20 DEF SaveResult, CheckpointOrder
  <2>2. CASE snap.state = "paused"
    <3>1. SetState(active, "queued") /\ snap' = In(mem[active], "queued")
      BY <1>20, <2>2 DEF SaveResult
    <3>2. Level(snap')
      BY <1>10, <2>1, <3>1, InType
    <3> QED BY <1>0, <1>6, <1>8, <1>9, <1>10, <2>1, <3>1, <3>2 DEF CheckpointOrder
  <2>3. CASE snap.state # "paused"
    <3>1. UNCHANGED mem /\ pc' \in {"requeue", "finish"}
      BY <1>20, <2>3 DEF SaveResult, Goto
    <3> QED BY <1>0, <1>6, <1>9, <2>1, <3>1 DEF CheckpointOrder
  <2> QED BY <2>2, <2>3
<1>21. ASSUME SaveResultFails PROVE Goal
  <2>1. /\ Held /\ Level(snap) /\ UNCHANGED <<active, rejected>> /\ pc' = "finish"
        /\ SetState(active, "recovery_required") /\ \E o : Save(active, snap, o)
    BY <1>7, <1>21 DEF SaveResultFails, Goto, CheckpointOrder
  <2> QED BY <1>0, <1>6, <1>8, <1>9, <1>10, <2>1 DEF CheckpointOrder
<1>22. ASSUME SaveResume PROVE Goal
  <2>1. /\ Held /\ Level(snap) /\ UNCHANGED <<active, rejected>>
    BY <1>7, <1>22 DEF SaveResume, CheckpointOrder
  <2>2. /\ \E o : Save(active, snap, o)
        /\ UNCHANGED mem \/ SetState(active, "paused")
        /\ pc' \in {"requeue", "finish"}
    BY <1>22 DEF SaveResume, Goto
  <2>3. /\ \A p \in Query \ {active} : mem'[p] = mem[p]
        /\ mem'[active].state # "absent" /\ Level(mem'[active])
    BY <1>8, <1>10, <2>1, <2>2
  <2> QED BY <1>0, <1>6, <1>9, <2>1, <2>2, <2>3 DEF CheckpointOrder
<1>23. ASSUME Requeue PROVE Goal
  BY <1>0, <1>23 DEF Requeue, Goto, CheckpointOrder, Advances
<1>24. ASSUME Finish PROVE Goal
  BY <1>0, <1>24 DEF Finish, Goto, CheckpointOrder, Advances, queueVars
<1>25. ASSUME NEW q \in Query, Operator(q) PROVE Goal
  <2>1. PICK t \in State \ {"absent"} :
          SetState(q, t) /\ \E o : Save(q, In(mem[q], t), o)
    BY <1>25 DEF Operator, ResolveCancel, ResolveRequeue, State, Terminal, Unsettled
  <2> DEFINE r == In(mem[q], t)
  <2>2. r \in Record /\ r.state = t /\ r.next_step = mem[q].next_step
    BY <1>0, InType
  <2>3. /\ mem[q].state = "recovery_required"
        /\ UNCHANGED <<active, pc, snap, rejected>> /\ rejected \subseteq Query
    BY <1>25 DEF Operator, ResolveCancel, ResolveRequeue, AwaitsRecovery, laneVars, TypeOK
  <2>4. \A p \in Query : disk'[p] = disk[p] \/ (p = q /\ disk'[p] = r)
    BY <2>1, <2>2, SaveWrites
  <2>5. \A p \in Query : mem'[p] = IF p = q THEN r ELSE mem[p]
    BY <2>1 DEF SetState, TypeOK
  <2> HIDE DEF r
  <2>6. Advances
    BY <1>0, <2>2, <2>3, <2>4 DEF Advances, CheckpointOrder
  <2>7. pc # "idle" => mem'[active].next_step = mem[active].next_step
    BY <2>2, <2>5 DEF TypeOK
  <2>8. \A p \in Query : mem'[p].state # "absent" => disk'[p].next_step <= mem'[p].next_step
    BY <1>0, <2>2, <2>3, <2>4, <2>5 DEF CheckpointOrder
  <2>9. \A p \in rejected' : mem'[p].state = "absent" => disk'[p].next_step = 0
    BY <2>2, <2>3, <2>4, <2>5 DEF CheckpointOrder
  <2> QED BY <2>3, <2>6, <2>7, <2>8, <2>9 DEF CheckpointOrder
<1>26. ASSUME Stop PROVE Goal
  BY <1>0, <1>26 DEF Stop, NothingInMemory, Absent, CheckpointOrder, Advances
<1>27. ASSUME Start PROVE Goal
  <2>1. PICK unread \in SUBSET Present(disk), lost \in SUBSET Present(disk) :
          Restore(Present(disk) \ unread, lost)
    BY <1>27 DEF Start
  <2> DEFINE loaded == Present(disk) \ unread
             Restored(q) == In(disk[q], RestoredState(loaded, q))
  <2>2. \A q \in loaded : q \in Query /\ Restored(q).next_step = disk[q].next_step
    <3> SUFFICES ASSUME NEW q \in loaded
                 PROVE  q \in Query /\ Restored(q).next_step = disk[q].next_step
      OBVIOUS
    <3>1. q \in Query /\ disk[q] \in Record
      BY <1>0 DEF Present
    <3>2. RestoredState(loaded, q) \in State
      BY <3>1 DEF RestoredState, Resumable, State, Unsettled, Terminal, Record
    <3> QED BY <3>1, <3>2, InType
  <2>3. /\ mem' = [q \in Query |-> IF q \in loaded THEN Restored(q) ELSE Absent]
        /\ \A q \in Query : disk'[q] = disk[q] \/ (q \in loaded /\ disk'[q] = Restored(q))
    BY <2>1 DEF Restore
  <2>4. UNCHANGED <<active, pc, rejected>> /\ pc = "idle" /\ rejected = {}
    BY <1>27 DEF Start, laneVars, LaneShape
  <2> HIDE DEF loaded, Restored
  <2>5. \A q \in Query : disk'[q].next_step = disk[q].next_step
    BY <2>2, <2>3
  <2>6. \A q \in Query : mem'[q].state # "absent" => mem'[q].next_step = disk[q].next_step
    BY <2>2, <2>3 DEF Absent
  <2> QED BY <1>0, <2>4, <2>5, <2>6 DEF CheckpointOrder, Advances
<1>28. ASSUME UNCHANGED vars PROVE Goal
  BY <1>1, <1>28 DEF vars, queueVars, laneVars
<1> HIDE DEF Goal
<1>29. Goal
  BY <1>2, <1>3, <1>4, <1>5, <1>11, <1>12, <1>13, <1>14, <1>15, <1>16, <1>17,
     <1>18, <1>19, <1>20, <1>21, <1>22, <1>23, <1>24, <1>25, <1>26, <1>27, <1>28
  DEF Next, Client, RunOnce
<1> QED BY <1>29 DEF Goal

\* No save of any actor, and no restart, takes a durable checkpoint back: a query
\* resumes from a step that is at least the last one recorded.
THEOREM CheckpointsAdvance == Spec => CheckpointNeverRegresses
<1>1. Init => CheckpointOrder
  BY DEF Init, CheckpointOrder, Absent
<1>2. CheckpointOrder /\ ReplayInvariant /\ [Next]_vars => CheckpointOrder'
  BY CheckpointStep
<1>3. CheckpointOrder /\ ReplayInvariant /\ [Next]_vars
        => [\A q \in Query : disk'[q].next_step >= disk[q].next_step]_vars
  BY CheckpointStep DEF Advances
<1> QED BY <1>1, <1>2, <1>3, ReplayInvariantHolds, PTL DEF Spec, CheckpointNeverRegresses

-----------------------------------------------------------------------------
(* RUNNING is durable before the effect.                                   *)

\* From the snapshot of RUNNING to the call of the tool, snapshot, file and memory
\* agree, unless record_failed has overruled the query in memory.
RunningIsDurable ==
  mem[active].state = "running" =>
    /\ pc = "save_running" => snap = mem[active]
    /\ pc = "ready" => disk[active] = mem[active]

\* One step keeps RunningIsDurable, and calls a tool only on a durable RUNNING.
LEMMA RunningStep ==
  ASSUME ReplayInvariant, RunningIsDurable, [Next]_vars
  PROVE  /\ RunningIsDurable'
         /\ \A q \in Query, s \in Step :
              effects'[q][s] # effects[q][s] /\ mem[q].state = "running"
                => disk[q] = [state |-> "running", next_step |-> s]
<1> USE DEF ReplayInvariant
<1> DEFINE DurableFirst ==
             \A q \in Query, s \in Step :
               effects'[q][s] # effects[q][s] /\ mem[q].state = "running"
                 => disk[q] = [state |-> "running", next_step |-> s]
           Goal == RunningIsDurable' /\ DurableFirst
           Lane == /\ active \in Query /\ mem[active] \in Record
                   /\ mem[active].state # "absent"
<1>0. rejected \subseteq Query /\ (up /\ pc # "idle" => Lane)
  BY DEF TypeOK, LaneShape
<1>1. ASSUME UNCHANGED <<mem, disk, active, pc, snap, rejected, effects>> PROVE Goal
  BY <1>1 DEF RunningIsDurable
<1>2. ASSUME NEW q \in Query, SubmitRefused(q) PROVE Goal
  BY <1>2 DEF SubmitRefused, Reject, IsNew, RunningIsDurable, queueVars, laneVars, history
<1>3. ASSUME NEW q \in Query, SubmitNotSaved(q) PROVE Goal
  <2>1. \A p \in Query : disk'[p] = disk[p] \/ (p = q /\ disk'[p] = Fresh)
    BY <1>3, SaveWrites, FreshTypes DEF SubmitNotSaved
  <2>2. /\ mem[q].state = "absent" /\ rejected' \subseteq rejected \cup {q}
        /\ UNCHANGED <<mem, active, pc, snap, effects>>
    BY <1>3 DEF SubmitNotSaved, IsNew, Reject, queueVars, laneVars, history
  <2>3. pc # "idle" => disk'[active] = disk[active]
    BY <2>1, <2>2 DEF LaneShape, TypeOK
  <2> QED BY <2>2, <2>3 DEF RunningIsDurable
<1>4. ASSUME NEW q \in Query, SubmitAdmitted(q) PROVE Goal
  <2>1. /\ mem' = [mem EXCEPT ![q] = Fresh] /\ disk' = [disk EXCEPT ![q] = Fresh]
        /\ mem[q].state = "absent"
        /\ UNCHANGED <<active, pc, snap, effects>>
    BY <1>4 DEF SubmitAdmitted, IsNew, history
  <2>2. \A p \in Query \ {q} : mem'[p] = mem[p] /\ disk'[p] = disk[p]
    BY <2>1
  <2>3. pc # "idle" => active \in Query \ {q}
    BY <2>1 DEF LaneShape, TypeOK
  <2> QED BY <1>0, <2>1, <2>2, <2>3 DEF RunningIsDurable
<1>5. ASSUME NEW q \in Query, RecordFailed(q) PROVE Goal
  <2> DEFINE r == In(IF mem[q].state = "absent" THEN Fresh ELSE mem[q], "failed")
  <2>1. r \in Record
    BY InType, FreshTypes DEF State, Terminal, TypeOK
  <2>2. PICK o : Save(q, r, o) /\ mem' = IF o # "ok" /\ mem[q].state = "absent"
                                         THEN mem ELSE [mem EXCEPT ![q] = r]
    BY <1>5 DEF RecordFailed
  <2>3. UNCHANGED <<active, pc, snap, effects>>
    BY <1>5 DEF RecordFailed, laneVars, history
  <2>4. \A p \in Query \ {q} : mem'[p] = mem[p] /\ disk'[p] = disk[p]
    BY <2>1, <2>2, SaveWrites
  <2>5. CASE pc # "idle" /\ q = active
    <3>1. r.state = "failed" /\ mem'[q] = r
      BY <2>1, <2>2, <2>5, InType, FreshTypes
      DEF LaneShape, State, Terminal, TypeOK
    <3> QED BY <2>3, <2>5, <3>1 DEF RunningIsDurable
  <2>6. CASE pc # "idle" /\ q # active
    BY <1>0, <2>3, <2>4, <2>6 DEF RunningIsDurable, TypeOK
  <2>7. CASE pc = "idle"
    BY <2>3, <2>7 DEF RunningIsDurable
  <2> QED BY <2>5, <2>6, <2>7
\* A step of the lane that leaves "save_running" and "ready" behind.
<1>6. ASSUME Lane, UNCHANGED <<rejected, effects>>,
             \A p \in Query \ {active} : mem'[p] = mem[p],
             pc' \notin {"save_running", "ready"}
      PROVE  Goal
  BY <1>0, <1>6 DEF RunningIsDurable
<1>7. ASSUME Lane, NEW t \in State, SetState(active, t)
      PROVE  \A p \in Query \ {active} : mem'[p] = mem[p]
  BY <1>7 DEF SetState, TypeOK
<1>8. /\ "queued" \in State /\ "running" \in State /\ "paused" \in State
      /\ "recovery_required" \in State /\ "cancelled" \in State
  BY DEF State, Unsettled, Terminal
<1>9. ASSUME Pick PROVE Goal
  BY <1>9 DEF Pick, Goto, RunningIsDurable, history
<1>10. ASSUME FindIdle PROVE Goal
  BY <1>1, <1>10 DEF FindIdle, laneVars, history
<1>11. ASSUME MarkRunning PROVE Goal
  <2>1. Lane /\ UNCHANGED <<active, rejected, effects>>
    BY <1>0, <1>11 DEF MarkRunning, history
  <2>2. CASE <<mem[active].state, "running">> \in Allowed
    <3>1. /\ mem' = [mem EXCEPT ![active] = In(mem[active], "running")]
          /\ snap' = In(mem[active], "running") /\ pc' = "save_running"
      BY <1>11, <2>2 DEF MarkRunning, RunningRecord, Goto
    <3>2. mem'[active] = snap' /\ snap'.state = "running"
      BY <1>8, <2>1, <3>1, InType DEF TypeOK
    <3>3. \A p \in Query \ {active} : mem'[p] = mem[p]
      BY <3>1 DEF TypeOK
    <3> QED BY <1>0, <2>1, <3>1, <3>2, <3>3 DEF RunningIsDurable
  <2>3. CASE RunningNotPersisted
    BY <1>6, <1>7, <1>8, <2>1, <2>3 DEF RunningNotPersisted, Goto
  <2> QED BY <1>11, <2>2, <2>3 DEF MarkRunning
<1>12. ASSUME SaveRunning PROVE Goal
  <2>1. /\ Lane /\ snap \in Record /\ Save(active, snap, "ok") /\ pc = "save_running"
        /\ pc' = "ready"
        /\ UNCHANGED <<mem, active, rejected, effects>>
    BY <1>0, <1>12 DEF SaveRunning, Goto, queueVars, history, TypeOK
  <2>2. disk'[active] = snap
    BY <2>1, SaveWrites
  <2> QED BY <2>1, <2>2 DEF RunningIsDurable
<1>13. ASSUME SaveRunningFails PROVE Goal
  BY <1>0, <1>6, <1>7, <1>8, <1>13 DEF SaveRunningFails, Goto, history
<1>14. ASSUME RefuseStep PROVE Goal
  BY <1>0, <1>6, <1>7, <1>8, <1>14 DEF RefuseStep, Goto, history
<1>15. ASSUME SaveRefused PROVE Goal
  BY <1>0, <1>6, <1>15 DEF SaveRefused, Goto, queueVars, history
<1>16. ASSUME ExecuteTool PROVE Goal
  <2> DEFINE i == mem[active].next_step
  <2>1. /\ Lane /\ pc = "ready" /\ pc' = "executed" /\ UNCHANGED <<mem, rejected>>
        /\ effects' = [effects EXCEPT ![active][i] = @ + 1]
    BY <1>0, <1>16 DEF ExecuteTool, Goto, queueVars
  <2>2. \A q \in Query, s \in Step : effects'[q][s] # effects[q][s] => q = active /\ s = i
    BY <2>1 DEF TypeOK
  <2>3. mem[active].state = "running"
          => disk[active] = [state |-> "running", next_step |-> i]
    BY <2>1 DEF RunningIsDurable, Record
  <2>4. RunningIsDurable'
    BY <2>1 DEF RunningIsDurable
  <2> QED BY <2>2, <2>3, <2>4
<1>17. ASSUME RecordResult PROVE Goal
  <2>1. Lane /\ UNCHANGED <<rejected, effects>> /\ pc' \notin {"save_running", "ready"}
    BY <1>0, <1>17 DEF RecordResult, Goto, history
  <2>2. PICK r : mem' = [mem EXCEPT ![active] = r]
    BY <1>17 DEF RecordResult
  <2>3. \A p \in Query \ {active} : mem'[p] = mem[p]
    BY <2>2 DEF TypeOK
  <2> QED BY <1>6, <2>1, <2>3
<1>18. ASSUME SaveResult PROVE Goal
  <2>1. Lane /\ UNCHANGED <<rejected, effects>> /\ pc' \notin {"save_running", "ready"}
    BY <1>0, <1>18 DEF SaveResult, Goto, history
  <2>2. UNCHANGED mem \/ SetState(active, "queued")
    BY <1>18 DEF SaveResult
  <2> QED BY <1>6, <1>7, <1>8, <2>1, <2>2
<1>19. ASSUME SaveResultFails PROVE Goal
  BY <1>0, <1>6, <1>7, <1>8, <1>19 DEF SaveResultFails, Goto, history
<1>20. ASSUME SaveResume PROVE Goal
  <2>1. Lane /\ UNCHANGED <<rejected, effects>> /\ pc' \notin {"save_running", "ready"}
    BY <1>0, <1>20 DEF SaveResume, Goto, history
  <2>2. UNCHANGED mem \/ SetState(active, "paused")
    BY <1>20 DEF SaveResume
  <2> QED BY <1>6, <1>7, <1>8, <2>1, <2>2
<1>21. ASSUME Requeue PROVE Goal
  BY <1>0, <1>6, <1>21 DEF Requeue, Goto, history
<1>22. ASSUME Finish PROVE Goal
  BY <1>22 DEF Finish, Goto, RunningIsDurable, queueVars, history
<1>23. ASSUME NEW q \in Query, Operator(q) PROVE Goal
  <2>1. PICK t \in State \ {"absent"} :
          SetState(q, t) /\ \E o : Save(q, In(mem[q], t), o)
    BY <1>23 DEF Operator, ResolveCancel, ResolveRequeue, State, Terminal, Unsettled
  <2>2. /\ mem[q].state = "recovery_required" /\ In(mem[q], t) \in Record
        /\ UNCHANGED <<active, pc, snap, rejected, effects>>
    BY <1>23, InType DEF Operator, ResolveCancel, ResolveRequeue, AwaitsRecovery,
       laneVars, history, TypeOK
  <2>3. \A p \in Query \ {q} : mem'[p] = mem[p] /\ disk'[p] = disk[p]
    BY <2>1, <2>2, SaveWrites DEF SetState
  <2>4. pc \in {"save_running", "ready"} => active \in Query \ {q}
    BY <2>2 DEF EvidenceOnLane, TypeOK
  <2> QED BY <1>0, <2>2, <2>3, <2>4 DEF RunningIsDurable
<1>24. ASSUME Stop PROVE Goal
  BY <1>24 DEF Stop, RunningIsDurable, history
<1>25. ASSUME Start PROVE Goal
  BY <1>25 DEF Start, LaneShape, RunningIsDurable, laneVars, history
<1>26. ASSUME UNCHANGED vars PROVE Goal
  BY <1>1, <1>26 DEF vars, queueVars, laneVars, history
<1> HIDE DEF Goal
<1>27. Goal
  BY <1>2, <1>3, <1>4, <1>5, <1>9, <1>10, <1>11, <1>12, <1>13, <1>14, <1>15,
     <1>16, <1>17, <1>18, <1>19, <1>20, <1>21, <1>22, <1>23, <1>24, <1>25, <1>26
  DEF Next, Client, RunOnce
<1> QED BY <1>27 DEF Goal

\* Whatever fails: when run_once calls a tool, the file of its query says RUNNING at
\* exactly the step that is called, unless record_failed has overruled the query.
THEOREM RunningBeforeEffect == Spec => DurableRunningBeforeEffect
<1>1. Init => RunningIsDurable
  BY DEF Init, RunningIsDurable
<1>2. ReplayInvariant /\ RunningIsDurable /\ [Next]_vars => RunningIsDurable'
  BY RunningStep
<1>3. ReplayInvariant /\ RunningIsDurable /\ [Next]_vars
        => [\A q \in Query, s \in Step :
              effects'[q][s] # effects[q][s] /\ mem[q].state = "running"
                => disk[q] = [state |-> "running", next_step |-> s]]_vars
  BY RunningStep
<1> QED BY <1>1, <1>2, <1>3, ReplayInvariantHolds, PTL DEF Spec, DurableRunningBeforeEffect

-----------------------------------------------------------------------------
(* QueryQueue implements DurableEffect.                                    *)

\* Apart from a tool call, a requeue and a restart, a step of the queue has no effect
\* and writes one file at most.
LEMMA OneFileAtMost ==
  ASSUME ReplayInvariant, [Next]_vars, ~ ExecuteTool, ~ Start,
         \A q \in Query : ~ ResolveRequeue(q)
  PROVE  /\ UNCHANGED <<effects, requeues>>
         /\ \/ disk' = disk
            \/ \E q \in Query : \A p \in Query \ {q} : disk'[p] = disk[p]
<1> DEFINE OneFile ==
             \/ disk' = disk
             \/ \E q \in Query : \A p \in Query \ {q} : disk'[p] = disk[p]
           Goal == UNCHANGED <<effects, requeues>> /\ OneFile
<1> USE DEF ReplayInvariant
<1>1. disk' = disk => OneFile
  BY DEF OneFile
<1>2. ASSUME NEW q \in Query, \A p \in Query \ {q} : disk'[p] = disk[p]
      PROVE  OneFile
  BY <1>2
<1>3. ASSUME NEW q \in Query, NEW r, NEW o, Save(q, r, o) PROVE OneFile
  <2>1. \A p \in Query \ {q} : disk'[p] = disk[p]
    BY <1>3 DEF Save, TypeOK
  <2> QED BY <1>2, <2>1
<1>4. pc # "idle" => active \in Query
  BY DEF TypeOK
<1> HIDE DEF OneFile
<1>5. ASSUME NEW q \in Query, Client(q) PROVE Goal
  <2>1. ASSUME SubmitRefused(q) PROVE Goal
    BY <1>1, <2>1 DEF SubmitRefused, history
  <2>2. ASSUME SubmitNotSaved(q) PROVE Goal
    BY <1>3, <2>2 DEF SubmitNotSaved, history
  <2>3. ASSUME SubmitAdmitted(q) PROVE Goal
    BY <1>2, <2>3 DEF SubmitAdmitted, history, TypeOK
  <2>4. ASSUME RecordFailed(q) PROVE Goal
    BY <1>3, <2>4 DEF RecordFailed, history
  <2> QED BY <1>5, <2>1, <2>2, <2>3, <2>4 DEF Client
<1>6. ASSUME RunOnce PROVE Goal
  <2>1. ASSUME Pick \/ FindIdle \/ MarkRunning \/ RefuseStep \/ RecordResult
               \/ Requeue \/ Finish
        PROVE  Goal
    BY <1>1, <2>1 DEF Pick, FindIdle, MarkRunning, RefuseStep, RecordResult, Requeue,
       Finish, history
  <2>2. ASSUME SaveRunning \/ SaveRefused \/ SaveResult \/ SaveResultFails \/ SaveResume
        PROVE  Goal
    BY <1>3, <1>4, <2>2 DEF SaveRunning, SaveRefused, SaveResult, SaveResultFails,
       SaveResume, history
  <2>3. ASSUME SaveRunningFails PROVE Goal
    <3>1. active \in Query /\ UNCHANGED <<effects, requeues>>
      BY <1>4, <2>3 DEF SaveRunningFails, history
    <3>2. PICK o : \/ Save(active, snap, o)
                   \/ disk' = IF o = "fail" THEN disk ELSE [disk EXCEPT ![active] = snap]
      BY <2>3 DEF SaveRunningFails
    <3> QED BY <1>2, <1>3, <3>1, <3>2 DEF TypeOK
  <2> QED BY <1>6, <2>1, <2>2, <2>3 DEF RunOnce
<1>7. ASSUME NEW q \in Query, ResolveCancel(q) PROVE Goal
  BY <1>3, <1>7 DEF ResolveCancel, history
<1>8. ASSUME Stop \/ UNCHANGED vars PROVE Goal
  BY <1>1, <1>8 DEF Stop, vars, history
<1>9. Goal
  BY <1>5, <1>6, <1>7, <1>8 DEF Next, Operator
<1> QED BY <1>9 DEF OneFile

\* A step of the queue is a step of DurableEffect or a stutter.
LEMMA RefinementStep ==
  ReplayInvariant /\ [Next]_vars => [Durable!EffectNext]_(Durable!effectVars)
<1> SUFFICES ASSUME ReplayInvariant, [Next]_vars
             PROVE  Durable!EffectNext \/ UNCHANGED Durable!effectVars
  OBVIOUS
<1> DEFINE start == [q \in Query |-> StartOf(q)]
           MayOpen(q, grants) == {n \in 0..MaxSteps : \A s \in Step : s >= n => effects[q][s] <= grants}
<1>1. ReplayInvariant'
  BY ReplayStep
<1>2. /\ TypeOK /\ TypeOK' /\ NoAutomaticReplay /\ LaneShape
      /\ EvidenceOnDisk /\ EvidenceOnDisk' /\ EvidenceOnLane
  BY <1>1 DEF ReplayInvariant
\* A file that is open is open in front of unspent steps.
<1>3. ASSUME NEW q \in Query, disk'[q].state \in Startable, UNCHANGED effects
      PROVE  start'[q] = disk'[q].next_step /\ start'[q] \in MayOpen(q, requeues'[q])
  BY <1>2, <1>3 DEF StartOf, EvidenceOnDisk, Unspent, CleanFrom, TypeOK, Record
<1>4. \A q \in Query : disk'[q].state \notin Startable => start'[q] = Durable!Closed
  BY DEF StartOf, Durable!Closed
\* One file is written and nothing else happens.
<1>5. ASSUME NEW q \in Query, \A p \in Query \ {q} : disk'[p] = disk[p],
             UNCHANGED <<effects, requeues>>
      PROVE  Durable!Close({q}) \/ Durable!Open(q)
  <2>1. \A p \in Query \ {q} : start'[p] = start[p]
    BY <1>5 DEF StartOf
  <2>2. CASE disk'[q].state \in Startable
    <3>1. start' = [start EXCEPT ![q] = start'[q]]
      BY <2>1
    <3> QED BY <1>3, <1>5, <2>2, <3>1 DEF Durable!Open, Durable!MayOpen, Durable!Step, Step
  <2>3. CASE disk'[q].state \notin Startable
    <3>1. start' = [p \in Query |-> IF p \in {q} THEN Durable!Closed ELSE start[p]]
      BY <1>4, <2>1, <2>3
    <3> QED BY <1>5, <3>1 DEF Durable!Close
  <2> QED BY <2>2, <2>3
<1>6. ASSUME UNCHANGED <<disk, effects, requeues>> PROVE UNCHANGED Durable!effectVars
  BY <1>6 DEF StartOf, Durable!effectVars
\* The tool is called behind a closed file, at a step that is not spent.
<1>7. ASSUME ExecuteTool PROVE Durable!EffectNext
  <2> DEFINE s == mem[active].next_step
  <2>1. /\ pc = "ready" /\ s < Steps[active] /\ UNCHANGED <<disk, requeues>>
        /\ effects' = [effects EXCEPT ![active][s] = @ + 1]
    BY <1>7 DEF ExecuteTool, Executable
  <2>2. active \in Query /\ s \in Step
    BY <1>2, <2>1, StepsAssumption, BoundAssumption DEF TypeOK, Record, Step
  <2>3. start[active] = Durable!Closed /\ effects[active][s] <= requeues[active]
    BY <1>2, <2>1, <2>2 DEF EvidenceOnLane, CleanFrom, StartOf, Durable!Closed, Step
  <2>4. start' = start
    BY <2>1 DEF StartOf
  <2>5. Durable!Run(active, s)
    BY <2>1, <2>3, <2>4 DEF Durable!Run
  <2> QED BY <2>2, <2>5 DEF Durable!EffectNext, Durable!Step, Step
\* A requeue grants one more run of each step.
<1>8. ASSUME NEW q \in Query, ResolveRequeue(q) PROVE Durable!Grant(q)
  <2>1. /\ requeues' = [requeues EXCEPT ![q] = @ + 1] /\ UNCHANGED effects
        /\ \E o : Save(q, In(mem[q], "queued"), o)
    BY <1>8 DEF ResolveRequeue, history
  <2>2. In(mem[q], "queued") \in Record /\ In(mem[q], "queued").state = "queued"
    BY <1>2, InType DEF TypeOK, State, Unsettled
  <2>3. /\ \A p \in Query \ {q} : disk'[p] = disk[p]
        /\ disk'[q] = disk[q] \/ disk'[q].state \in Startable
    BY <1>2, <2>1, <2>2, SaveWrites DEF Startable
  <2>4. start' = [start EXCEPT ![q] = start'[q]]
    BY <2>3 DEF StartOf
  <2>5. start'[q] \in MayOpen(q, requeues[q] + 1) \cup {start[q]}
    <3>1. CASE disk'[q] = disk[q]
      BY <3>1 DEF StartOf
    <3>2. CASE disk'[q].state \in Startable
      BY <1>2, <1>3, <2>1, <3>2 DEF TypeOK
    <3> QED BY <2>3, <3>1, <3>2
  <2> QED BY <2>1, <2>4, <2>5 DEF Durable!Grant, Durable!MayOpen, Durable!Step, Step
\* A restart closes the files of the queries it finds ambiguous.
<1>9. ASSUME Start PROVE Durable!EffectNext
  <2>1. PICK unread \in SUBSET Present(disk), lost \in SUBSET Present(disk) :
          Restore(Present(disk) \ unread, lost)
    BY <1>9 DEF Start
  <2> DEFINE loaded == Present(disk) \ unread
             S == {q \in loaded \ lost : RestoredState(loaded, q) = "recovery_required"}
  <2>2. \A q \in Query : disk'[q] = IF q \in S THEN In(disk[q], "recovery_required")
                                   ELSE disk[q]
    BY <2>1 DEF Restore
  <2>3. \A q \in Query : q \in S => disk'[q].state \notin Startable
    BY <1>2, <2>2, InType DEF Startable, State, Unsettled, TypeOK
  <2>4. start' = [q \in Query |-> IF q \in S THEN Durable!Closed ELSE start[q]]
    BY <1>4, <2>2, <2>3 DEF StartOf
  <2>5. S \in SUBSET Query /\ UNCHANGED <<effects, requeues>>
    BY <1>9 DEF Start, history, Present
  <2>6. Durable!Close(S)
    BY <2>4, <2>5 DEF Durable!Close
  <2> QED BY <2>5, <2>6 DEF Durable!EffectNext
<1>10. ASSUME ~ ExecuteTool, ~ Start, \A q \in Query : ~ ResolveRequeue(q)
       PROVE  Durable!EffectNext \/ UNCHANGED Durable!effectVars
  <2>1. /\ UNCHANGED <<effects, requeues>>
        /\ \/ disk' = disk
           \/ \E q \in Query : \A p \in Query \ {q} : disk'[p] = disk[p]
    BY <1>10, OneFileAtMost
  <2> QED BY <1>5, <1>6, <2>1 DEF Durable!EffectNext
<1> QED BY <1>7, <1>8, <1>9, <1>10 DEF Durable!EffectNext

\* With lane, clients, operator, faults and restarts, for any number of queries and
\* steps, the queue does to files and effects only what DurableEffect allows.
THEOREM QueueImplementsDurableEffect == Spec => ImplementsDurableEffect
<1>1. Init => Durable!EffectInit
  BY DEF Init, Durable!EffectInit, StartOf, Absent, Startable, Durable!Step, Step
<1>2. ReplayInvariant /\ [Next]_vars => [Durable!EffectNext]_(Durable!effectVars)
  BY RefinementStep
<1> QED BY <1>1, <1>2, ReplayInvariantHolds, PTL
        DEF Spec, ImplementsDurableEffect, Durable!EffectSpec
=============================================================================
