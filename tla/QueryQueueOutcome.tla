-------------------------- MODULE QueryQueueOutcome --------------------------
(***************************************************************************)
(* What the outcome of a query is worth: theorems about COMPLETED, about   *)
(* final files and about identities in QueryQueue, for any queries, steps, *)
(* faults, stops and decisions of the operator.                            *)
(***************************************************************************)
EXTENDS QueryQueueProofs, WellFoundedInduction

USE QueryAssumption, CallAssumption

-----------------------------------------------------------------------------
(* COMPLETED means that every step succeeded.                              *)

\* Every step before n was executed, and its latest execution reported "ok".
Succeeded(q, n) ==
  \A s \in Step : s < n => effects[q][s] > 0 /\ s \notin unsuccessful[q]

\* The states a query passes through while nothing has gone wrong.
Regular == {"queued", "paused", "running", "completed"}

\* A record in such a state has only successful steps behind it, and all of them if
\* it is COMPLETED, unless the operator requeued the query.
Earned(q, r) ==
  requeues[q] = 0 /\ r.state \in Regular =>
    /\ Succeeded(q, r.next_step)
    /\ r.state = "completed" => r.next_step = Steps[q]

\* So it is with every record in memory, on disk and in the hand of the lane; and
\* the lane starts from successful steps even where record_failed overrules it.
OutcomeInvariant ==
  /\ \A q \in Query : Earned(q, disk[q]) /\ Earned(q, mem[q])
  /\ pc \in {"save_running", "save_result", "save_resume"} => Earned(active, snap)
  /\ pc = "save_resume" => snap.state = "queued"
  /\ pc \in {"picked", "save_running", "ready", "executed"} /\ requeues[active] = 0
       => Succeeded(active, mem[active].next_step)
  /\ pc = "executed" /\ outcome /\ requeues[active] = 0
       => Succeeded(active, mem[active].next_step + 1)

\* Every step of client, lane, operator, stop and restart keeps it.
LEMMA OutcomeStep ==
  ReplayInvariant /\ CheckpointOrder /\ OutcomeInvariant /\ [Next]_vars
    => OutcomeInvariant'
<1> SUFFICES ASSUME ReplayInvariant, CheckpointOrder, OutcomeInvariant, [Next]_vars
             PROVE  OutcomeInvariant'
  OBVIOUS
<1> USE DEF ReplayInvariant
<1> DEFINE Quiet == /\ UNCHANGED history
                    /\ \A q \in Query : requeues'[q] = 0 => requeues[q] = 0
           Stores == \A q \in Query : /\ disk'[q] = disk[q] \/ Earned(q, disk'[q])
                                      /\ mem'[q] = mem[q] \/ Earned(q, mem'[q])
           OnLane == /\ UNCHANGED <<active, pc, snap, outcome>>
                     /\ pc # "idle" => mem'[active].next_step = mem[active].next_step
           Held == /\ active \in Query /\ mem[active] \in Record /\ snap \in Record
                   /\ mem[active].state # "absent"
           Level == snap.next_step = mem[active].next_step
           Rest == {"requeue", "finish", "idle", "save_refused"}
<1>0. /\ up /\ pc # "idle" => Held
      /\ \A q \in Query : mem[q] \in Record /\ disk[q] \in Record
  BY DEF TypeOK, LaneShape
<1>1. ASSUME Quiet, Stores
      PROVE  \A q \in Query : Earned(q, disk[q])' /\ Earned(q, mem[q])'
  BY <1>1 DEF OutcomeInvariant, Earned, Succeeded, history
\* A client or the operator leaves the lane where it is.
<1>2. ASSUME Quiet, Stores, OnLane PROVE OutcomeInvariant'
  <2>1. pc # "idle" => active \in Query
    BY DEF TypeOK
  <2>2. pc \in {"save_running", "save_result", "save_resume"} => Earned(active, snap)'
    BY <1>2, <2>1 DEF OutcomeInvariant, Earned, Succeeded, history
  <2>3. pc \in {"picked", "save_running", "ready", "executed"} /\ requeues'[active] = 0
          => Succeeded(active, mem[active].next_step)'
    BY <1>2, <2>1 DEF OutcomeInvariant, Succeeded, history
  <2>4. pc = "executed" /\ outcome /\ requeues'[active] = 0
          => Succeeded(active, mem[active].next_step + 1)'
    BY <1>2, <2>1 DEF OutcomeInvariant, Succeeded, history
  <2> QED BY <1>1, <1>2, <2>2, <2>3, <2>4 DEF OutcomeInvariant
\* The lane is done with the query, or about to push it.
<1>3. ASSUME Quiet, Stores, pc' \in Rest PROVE OutcomeInvariant'
  BY <1>1, <1>3 DEF OutcomeInvariant
<1>4. Fresh.state = "queued" /\ Fresh.next_step = 0
      /\ \A q \in Query : Earned(q, Fresh) /\ Earned(q, Absent)
  BY StepsAssumption, BoundAssumption
  DEF Fresh, Absent, Earned, Succeeded, Regular, Step
<1>5. ASSUME NEW q \in Query, NEW t \in State
      PROVE  /\ In(mem[q], t).state = t /\ In(mem[q], t).next_step = mem[q].next_step
             /\ t \notin Regular => Earned(q, In(mem[q], t))
  BY <1>0, InType DEF Earned
<1>6. /\ "queued" \in State /\ "running" \in State /\ "paused" \in State
      /\ {"recovery_required", "failed", "cancelled"} \subseteq State \ Regular
  BY DEF State, Unsettled, Terminal, Regular
<1>7. ASSUME NEW q \in Query, SubmitRefused(q) PROVE OutcomeInvariant'
  BY <1>2, <1>7 DEF SubmitRefused, queueVars, laneVars
<1>8. ASSUME NEW q \in Query, SubmitNotSaved(q) PROVE OutcomeInvariant'
  <2>1. \A p \in Query : disk'[p] = disk[p] \/ (p = q /\ disk'[p] = Fresh)
    BY <1>8, SaveWrites, FreshTypes DEF SubmitNotSaved
  <2> QED BY <1>2, <1>4, <1>8, <2>1 DEF SubmitNotSaved, queueVars, laneVars
<1>9. ASSUME NEW q \in Query, SubmitAdmitted(q) PROVE OutcomeInvariant'
  <2>1. /\ mem' = [mem EXCEPT ![q] = Fresh] /\ disk' = [disk EXCEPT ![q] = Fresh]
        /\ UNCHANGED <<active, pc, snap, outcome, history, requeues>>
        /\ mem[q].state = "absent" /\ up
    BY <1>9 DEF SubmitAdmitted, IsNew
  <2>2. /\ \A p \in Query \ {q} : mem'[p] = mem[p] /\ disk'[p] = disk[p]
        /\ mem'[q] = Fresh /\ disk'[q] = Fresh
    BY <2>1 DEF TypeOK
  <2>3. pc # "idle" => mem'[active] = mem[active]
    BY <1>0, <2>1, <2>2
  <2> QED BY <1>2, <1>4, <2>1, <2>2, <2>3
<1>10. ASSUME NEW q \in Query, RecordFailed(q) PROVE OutcomeInvariant'
  <2> DEFINE r == In(IF mem[q].state = "absent" THEN Fresh ELSE mem[q], "failed")
  <2>1. /\ r \in Record /\ r.state = "failed" /\ Earned(q, r)
        /\ mem[q].state # "absent" => r.next_step = mem[q].next_step
    BY <1>0, <1>6, InType, FreshTypes DEF Earned
  <2>2. PICK o : Save(q, r, o) /\ mem' = IF o # "ok" /\ mem[q].state = "absent"
                                         THEN mem ELSE [mem EXCEPT ![q] = r]
    BY <1>10 DEF RecordFailed
  <2>3. \A p \in Query : disk'[p] = disk[p] \/ (p = q /\ disk'[p] = r)
    BY <2>1, <2>2, SaveWrites
  <2>4. \A p \in Query : mem'[p] = mem[p] \/ (p = q /\ mem'[p] = r)
    BY <2>2 DEF TypeOK
  <2>5. up /\ UNCHANGED <<active, pc, snap, outcome, history, requeues>>
    BY <1>10 DEF RecordFailed, laneVars
  <2> HIDE DEF r
  <2>6. pc # "idle" => mem'[active].next_step = mem[active].next_step
    BY <1>0, <2>1, <2>4, <2>5
  <2> QED BY <1>2, <2>1, <2>3, <2>4, <2>5, <2>6
<1>11. ASSUME NEW q \in Query, Operator(q) PROVE OutcomeInvariant'
  <2>1. PICK t \in {"cancelled", "queued"} :
          /\ SetState(q, t) /\ \E o : Save(q, In(mem[q], t), o)
          /\ t = "queued" => requeues' = [requeues EXCEPT ![q] = @ + 1]
          /\ t = "cancelled" => requeues' = requeues
    BY <1>11 DEF Operator, ResolveCancel, ResolveRequeue
  <2> DEFINE r == In(mem[q], t)
  <2>2. r \in Record /\ r.state = t /\ r.next_step = mem[q].next_step
    <3>1. t \in State /\ mem[q] \in Record
      BY <1>0, <2>1 DEF State, Unsettled, Terminal
    <3> QED BY <3>1, InType
  <2>3. /\ UNCHANGED <<active, pc, snap, outcome, history>>
        /\ requeues \in [Query -> Nat]
    BY <1>11 DEF Operator, ResolveCancel, ResolveRequeue, laneVars, TypeOK
  <2>4. \A p \in Query : disk'[p] = disk[p] \/ (p = q /\ disk'[p] = r)
    BY <2>1, <2>2, SaveWrites
  <2>5. \A p \in Query : mem'[p] = IF p = q THEN r ELSE mem[p]
    BY <2>1 DEF SetState, TypeOK
  <2> HIDE DEF r
  <2>6. pc # "idle" => active \in Query /\ mem'[active].next_step = mem[active].next_step
    BY <2>2, <2>5 DEF TypeOK
  <2>7. CASE t = "cancelled"
    <3>1. Earned(q, r)
      BY <1>6, <2>2, <2>7 DEF Earned
    <3> QED BY <1>2, <2>1, <2>3, <2>4, <2>5, <2>6, <2>7, <3>1
  \* From here on nothing is promised of the query.
  <2>8. CASE t = "queued"
    <3>1. /\ requeues'[q] # 0
          /\ \A p \in Query \ {q} : requeues'[p] = requeues[p]
      BY <2>1, <2>3, <2>8
    <3>2. \A p \in Query : Earned(p, disk[p])' /\ Earned(p, mem[p])'
      BY <2>3, <2>4, <2>5, <3>1 DEF OutcomeInvariant, Earned, Succeeded, history
    <3>3. pc \in {"save_running", "save_result", "save_resume"} => Earned(active, snap)'
      BY <2>3, <2>6, <3>1 DEF OutcomeInvariant, Earned, Succeeded, history
    <3>4. pc \in {"picked", "save_running", "ready", "executed"} /\ requeues'[active] = 0
            => Succeeded(active, mem[active].next_step)'
      BY <2>3, <2>6, <3>1 DEF OutcomeInvariant, Succeeded, history
    <3>5. pc = "executed" /\ outcome /\ requeues'[active] = 0
            => Succeeded(active, mem[active].next_step + 1)'
      BY <2>3, <2>6, <3>1 DEF OutcomeInvariant, Succeeded, history
    <3> QED BY <2>3, <3>2, <3>3, <3>4, <3>5 DEF OutcomeInvariant
  <2> QED BY <2>1, <2>7, <2>8
\* A step of the lane changes the active query only.
<1>12. ASSUME Held, NEW t \in State, SetState(active, t)
       PROVE  \A p \in Query : mem'[p] = mem[p] \/ (p = active /\ mem'[p] = In(mem[active], t))
  BY <1>12 DEF SetState, TypeOK
<1>13. ASSUME Held, NEW o, Save(active, snap, o)
       PROVE  \A p \in Query : disk'[p] = disk[p] \/ (p = active /\ disk'[p] = snap)
  BY <1>13, SaveWrites
<1>14. ASSUME Held, NEW t \in {"queued", "running", "paused"},
              requeues[active] = 0 => Succeeded(active, mem[active].next_step)
       PROVE  Earned(active, In(mem[active], t))
  BY <1>5, <1>6, <1>14 DEF Earned
<1>15. ASSUME Pick PROVE OutcomeInvariant'
  <2>1. PICK e \in Ready : active' = e.id
    BY <1>15 DEF Pick
  <2>2. e.id \in Query /\ mem[e.id].state = "queued"
    BY <2>1 DEF Ready, TypeOK
  <2>3. UNCHANGED <<mem, disk, snap, outcome, history, requeues>> /\ pc' = "picked"
    BY <1>15 DEF Pick, Goto
  <2>4. requeues[active'] = 0 => Succeeded(active', mem[active'].next_step)
    BY <2>1, <2>2 DEF OutcomeInvariant, Earned, Regular
  <2>5. requeues'[active'] = 0 => Succeeded(active, mem[active].next_step)'
    BY <2>3, <2>4 DEF Succeeded, history
  <2> QED BY <1>1, <2>3, <2>5 DEF OutcomeInvariant
<1>16. ASSUME FindIdle PROVE OutcomeInvariant'
  BY <1>2, <1>16 DEF FindIdle, laneVars
<1>17. ASSUME MarkRunning PROVE OutcomeInvariant'
  <2>1. /\ Held /\ UNCHANGED <<disk, active, history, requeues>>
        /\ requeues[active] = 0 => Succeeded(active, mem[active].next_step)
    BY <1>0, <1>17 DEF MarkRunning, OutcomeInvariant
  <2>2. CASE <<mem[active].state, "running">> \in Allowed
    <3>1. /\ mem' = [mem EXCEPT ![active] = In(mem[active], "running")]
          /\ snap' = In(mem[active], "running") /\ pc' = "save_running"
      BY <1>17, <2>2 DEF MarkRunning, RunningRecord, Goto
    <3>2. Earned(active, snap') /\ snap'.next_step = mem[active].next_step
      BY <1>5, <1>6, <1>14, <2>1, <3>1
    <3>3. mem'[active] = snap' /\ \A p \in Query \ {active} : mem'[p] = mem[p]
      BY <2>1, <3>1 DEF TypeOK
    <3>4. \A q \in Query : Earned(q, disk[q])' /\ Earned(q, mem[q])'
      BY <1>1, <2>1, <3>2, <3>3
    <3>5. Earned(active, snap)'
      BY <2>1, <3>2 DEF Earned, Succeeded, history
    <3>6. requeues'[active'] = 0 => Succeeded(active, mem[active].next_step)'
      BY <2>1, <3>2, <3>3 DEF Succeeded, history
    <3> QED BY <3>1, <3>4, <3>5, <3>6 DEF OutcomeInvariant
  <2>3. CASE RunningNotPersisted
    <3>1. SetState(active, "queued") /\ pc' \in Rest
      BY <2>3 DEF RunningNotPersisted, Goto
    <3>2. Earned(active, In(mem[active], "queued"))
      BY <1>14, <2>1
    <3> QED BY <1>3, <1>6, <1>12, <2>1, <3>1, <3>2
  <2> QED BY <1>17, <2>2, <2>3 DEF MarkRunning
<1>18. ASSUME SaveRunning PROVE OutcomeInvariant'
  <2>1. /\ Held /\ UNCHANGED <<mem, active, history, requeues>> /\ pc' = "ready"
        /\ Save(active, snap, "ok") /\ Earned(active, snap)
        /\ requeues[active] = 0 => Succeeded(active, mem[active].next_step)
    BY <1>0, <1>18 DEF SaveRunning, Goto, queueVars, OutcomeInvariant
  <2>2. \A q \in Query : Earned(q, disk[q])' /\ Earned(q, mem[q])'
    BY <1>1, <1>13, <2>1
  <2>3. requeues'[active'] = 0 => Succeeded(active, mem[active].next_step)'
    BY <2>1 DEF Succeeded, history
  <2> QED BY <2>1, <2>2, <2>3 DEF OutcomeInvariant
<1>19. ASSUME SaveRunningFails PROVE OutcomeInvariant'
  <2>1. /\ Held /\ UNCHANGED <<active, history, requeues>> /\ pc' \in Rest
        /\ SetState(active, "queued") /\ Earned(active, snap)
        /\ requeues[active] = 0 => Succeeded(active, mem[active].next_step)
    BY <1>0, <1>19 DEF SaveRunningFails, Goto, OutcomeInvariant
  <2>2. \A p \in Query : disk'[p] = disk[p] \/ (p = active /\ disk'[p] = snap)
    BY <1>19, <2>1, SaveWrites DEF SaveRunningFails, TypeOK
  <2>3. Earned(active, In(mem[active], "queued"))
    BY <1>14, <2>1
  <2> QED BY <1>3, <1>6, <1>12, <2>1, <2>2, <2>3
<1>20. ASSUME RefuseStep PROVE OutcomeInvariant'
  <2>1. /\ Held /\ UNCHANGED <<disk, history, requeues>> /\ pc' \in Rest
        /\ SetState(active, "recovery_required")
    BY <1>0, <1>20 DEF RefuseStep, Goto
  <2> QED BY <1>3, <1>5, <1>6, <1>12, <2>1
<1>21. ASSUME SaveRefused PROVE OutcomeInvariant'
  <2>1. /\ Held /\ UNCHANGED <<mem, history, requeues>> /\ pc' \in Rest
        /\ snap.state = "recovery_required" /\ \E o : Save(active, snap, o)
    BY <1>0, <1>21 DEF SaveRefused, Goto, queueVars, EvidenceOnLane
  <2>2. Earned(active, snap)
    BY <1>6, <2>1 DEF Earned
  <2> QED BY <1>3, <1>13, <2>1, <2>2
<1>22. ASSUME ExecuteTool PROVE OutcomeInvariant'
  <2> DEFINE s == mem[active].next_step
  <2>1. /\ Held /\ pc = "ready" /\ pc' = "executed" /\ Executable(active)
        /\ UNCHANGED <<mem, disk, active, requeues>>
        /\ effects' = [effects EXCEPT ![active][s] = @ + 1]
        /\ unsuccessful' = [unsuccessful EXCEPT
                             ![active] = IF outcome' THEN @ \ {s} ELSE @ \cup {s}]
    BY <1>0, <1>22 DEF ExecuteTool, Goto, queueVars
  <2>2. s \in Step
    BY <2>1, StepsAssumption, BoundAssumption DEF Executable, Record, Step
  <2>3. /\ \A q \in Query \ {active} : /\ effects'[q] = effects[q]
                                       /\ unsuccessful'[q] = unsuccessful[q]
        /\ \A n \in Step \ {s} :
             /\ effects'[active][n] = effects[active][n]
             /\ n \in unsuccessful'[active] <=> n \in unsuccessful[active]
        /\ effects'[active][s] > 0
        /\ outcome' => s \notin unsuccessful'[active]
    BY <2>1, <2>2 DEF TypeOK
  <2>4. \A q \in Query, n \in 0..MaxSteps :
          (q = active => n <= s) /\ Succeeded(q, n) => Succeeded(q, n)'
    BY <2>1, <2>2, <2>3 DEF Succeeded, Step
  \* No file is ahead of memory, so none claims the step that was just executed.
  <2>5. disk[active].next_step <= s
    BY <2>1 DEF CheckpointOrder
  <2>6. \A q \in Query : Earned(q, disk[q])' /\ Earned(q, mem[q])'
    <3> SUFFICES ASSUME NEW q \in Query PROVE Earned(q, disk[q])' /\ Earned(q, mem[q])'
      OBVIOUS
    <3>1. disk[q].next_step \in 0..MaxSteps /\ mem[q].next_step \in 0..MaxSteps
      BY <1>0 DEF Record
    <3>2. q = active => disk[q].next_step <= s /\ mem[q].next_step <= s
      BY <2>2, <2>5 DEF Step
    <3>3. Earned(q, disk[q]) /\ Earned(q, mem[q])
      BY DEF OutcomeInvariant
    <3> QED BY <2>1, <2>4, <3>1, <3>2, <3>3 DEF Earned
  <2>7. requeues'[active'] = 0 => Succeeded(active, mem[active].next_step)'
    <3>1. requeues[active] = 0 => Succeeded(active, s)
      BY <2>1 DEF OutcomeInvariant
    <3>2. s \in 0..MaxSteps /\ s <= s
      BY <2>2, BoundAssumption DEF Step
    <3> QED BY <2>1, <2>4, <3>1, <3>2
  <2>8. outcome' /\ requeues'[active'] = 0 => Succeeded(active, mem[active].next_step + 1)'
    BY <2>1, <2>2, <2>3, <2>7 DEF Succeeded, Step
  <2> QED BY <2>1, <2>6, <2>7, <2>8 DEF OutcomeInvariant
<1>23. ASSUME RecordResult PROVE OutcomeInvariant'
  <2> DEFINE next == mem[active].next_step + 1
             Advanced(t) == [state |-> t, next_step |-> next]
  <2>1. /\ Held /\ UNCHANGED <<disk, active, history, requeues>>
        /\ outcome /\ requeues[active] = 0 => Succeeded(active, next)
    BY <1>0, <1>23 DEF RecordResult, OutcomeInvariant
  <2>2. Earned(active, Advanced(ResultState(active, next)))
    BY <2>1 DEF Earned, ResultState, Regular
  <2>3. Earned(active, Advanced("recovery_required"))
    BY DEF Earned, Regular
  <2>4. PICK t : /\ mem' = [mem EXCEPT ![active] = Advanced(t)] /\ Earned(active, Advanced(t))
                 /\ \/ snap' = Advanced(t) /\ pc' = "save_result"
                    \/ pc' = "finish"
    BY <1>23, <2>2, <2>3 DEF RecordResult, Goto
  <2>5. \A p \in Query : mem'[p] = mem[p] \/ (p = active /\ mem'[p] = Advanced(t))
    BY <2>4 DEF TypeOK
  <2> HIDE DEF Advanced
  <2>6. \A q \in Query : Earned(q, disk[q])' /\ Earned(q, mem[q])'
    BY <1>1, <2>1, <2>4, <2>5
  <2>7. pc' = "save_result" => Earned(active, snap)'
    BY <2>1, <2>4 DEF Earned, Succeeded, history
  <2> QED BY <2>4, <2>6, <2>7 DEF OutcomeInvariant
<1>24. ASSUME SaveResult PROVE OutcomeInvariant'
  <2>1. /\ Held /\ Level /\ UNCHANGED <<active, history, requeues>>
        /\ Save(active, snap, "ok") /\ Earned(active, snap)
    BY <1>0, <1>24 DEF SaveResult, OutcomeInvariant, CheckpointOrder
  <2>2. CASE snap.state = "paused"
    <3>1. /\ SetState(active, "queued") /\ snap' = In(mem[active], "queued")
          /\ pc' = "save_resume"
      BY <1>24, <2>2 DEF SaveResult, Goto
    <3>2. requeues[active] = 0 => Succeeded(active, mem[active].next_step)
      BY <2>1, <2>2 DEF Earned, Regular
    <3>3. Earned(active, snap') /\ snap'.state = "queued"
      BY <1>5, <1>6, <1>14, <2>1, <3>1, <3>2
    <3>4. \A q \in Query : Earned(q, disk[q])' /\ Earned(q, mem[q])'
      BY <1>1, <1>6, <1>12, <1>13, <2>1, <3>1, <3>3
    <3>5. Earned(active, snap)'
      BY <2>1, <3>3 DEF Earned, Succeeded, history
    <3> QED BY <3>1, <3>3, <3>4, <3>5 DEF OutcomeInvariant
  <2>3. CASE snap.state # "paused"
    <3>1. UNCHANGED mem /\ pc' \in Rest
      BY <1>24, <2>3 DEF SaveResult, Goto
    <3> QED BY <1>3, <1>13, <2>1, <3>1
  <2> QED BY <2>2, <2>3
<1>25. ASSUME SaveResultFails PROVE OutcomeInvariant'
  <2>1. /\ Held /\ UNCHANGED <<active, history, requeues>> /\ pc' \in Rest
        /\ SetState(active, "recovery_required") /\ Earned(active, snap)
        /\ \E o : Save(active, snap, o)
    BY <1>0, <1>25 DEF SaveResultFails, Goto, OutcomeInvariant
  <2> QED BY <1>3, <1>5, <1>6, <1>12, <1>13, <2>1
<1>26. ASSUME SaveResume PROVE OutcomeInvariant'
  <2>1. /\ Held /\ Level /\ UNCHANGED <<active, history, requeues>> /\ pc' \in Rest
        /\ Earned(active, snap) /\ snap.state = "queued"
    BY <1>0, <1>26 DEF SaveResume, Goto, OutcomeInvariant, CheckpointOrder
  <2>2. UNCHANGED mem \/ SetState(active, "paused")
    BY <1>26 DEF SaveResume
  <2>3. \E o : Save(active, snap, o)
    BY <1>26 DEF SaveResume
  <2>4. Earned(active, In(mem[active], "paused"))
    BY <1>14, <2>1 DEF Earned, Regular
  <2> QED BY <1>3, <1>6, <1>12, <1>13, <2>1, <2>2, <2>3, <2>4
<1>27. ASSUME Requeue PROVE OutcomeInvariant'
  BY <1>3, <1>27 DEF Requeue, Goto
<1>28. ASSUME Finish PROVE OutcomeInvariant'
  BY <1>3, <1>28 DEF Finish, Goto, queueVars
<1>29. ASSUME Stop PROVE OutcomeInvariant'
  BY <1>3, <1>4, <1>29 DEF Stop, NothingInMemory
<1>30. ASSUME Start PROVE OutcomeInvariant'
  <2>1. PICK unread \in SUBSET Present(disk), lost \in SUBSET Present(disk) :
          Restore(Present(disk) \ unread, lost)
    BY <1>30 DEF Start
  <2> DEFINE loaded == Present(disk) \ unread
             Restored(q) == In(disk[q], RestoredState(loaded, q))
  <2>2. \A q \in loaded : q \in Query /\ Earned(q, Restored(q))
    <3> SUFFICES ASSUME NEW q \in loaded PROVE q \in Query /\ Earned(q, Restored(q))
      OBVIOUS
    <3>1. q \in Query /\ disk[q] \in Record
      BY <1>0 DEF Present
    <3>2. RestoredState(loaded, q) \in State
      BY <3>1 DEF RestoredState, Resumable, State, Unsettled, Terminal, Record
    <3>3. /\ Restored(q).state = RestoredState(loaded, q)
          /\ Restored(q).next_step = disk[q].next_step
      BY <3>1, <3>2, InType
    <3>4. RestoredState(loaded, q) \in Regular =>
            /\ disk[q].state \in Regular
            /\ RestoredState(loaded, q) = "completed" => disk[q].state = "completed"
      BY DEF RestoredState, Resumable, Regular
    <3>5. Earned(q, disk[q])
      BY <3>1 DEF OutcomeInvariant
    <3> QED BY <3>1, <3>3, <3>4, <3>5 DEF Earned
  <2>3. /\ mem' = [q \in Query |-> IF q \in loaded THEN Restored(q) ELSE Absent]
        /\ \A q \in Query : disk'[q] = disk[q] \/ (q \in loaded /\ disk'[q] = Restored(q))
    BY <2>1 DEF Restore
  <2>4. UNCHANGED <<pc, history, requeues>> /\ pc = "idle"
    BY <1>30 DEF Start, laneVars, LaneShape
  <2> HIDE DEF loaded, Restored
  <2> QED BY <1>3, <1>4, <2>2, <2>3, <2>4
<1>31. ASSUME UNCHANGED vars PROVE OutcomeInvariant'
  BY <1>2, <1>31 DEF vars, queueVars, laneVars
<1> QED
  BY <1>7, <1>8, <1>9, <1>10, <1>11, <1>15, <1>16, <1>17, <1>18, <1>19, <1>20,
     <1>21, <1>22, <1>23, <1>24, <1>25, <1>26, <1>27, <1>28, <1>29, <1>30, <1>31
  DEF Next, Client, RunOnce

\* A file says COMPLETED only if each step of its query was executed and the latest
\* execution of each reported success, for any queries, steps, faults and restarts.
THEOREM CompletionIsEarned == Spec => []CompletedMeansSucceeded
<1>1. Init => CheckpointOrder /\ OutcomeInvariant
  BY DEF Init, CheckpointOrder, OutcomeInvariant, Earned, Regular, Absent
<1>2. ReplayInvariant /\ CheckpointOrder /\ [Next]_vars => CheckpointOrder'
  BY CheckpointStep
<1>3. ReplayInvariant /\ OutcomeInvariant => CompletedMeansSucceeded
  <2> SUFFICES ASSUME ReplayInvariant, OutcomeInvariant,
                      NEW q \in Query, disk[q].state = "completed", requeues[q] = 0,
                      NEW s \in 0..(Steps[q] - 1)
               PROVE  effects[q][s] > 0 /\ s \notin unsuccessful[q]
    BY DEF CompletedMeansSucceeded
  <2>1. Succeeded(q, Steps[q])
    BY DEF OutcomeInvariant, Earned, Regular
  <2>2. s \in Step /\ s < Steps[q]
    BY StepsAssumption, BoundAssumption DEF Step
  <2> QED BY <2>1, <2>2 DEF Succeeded
<1> QED BY <1>1, <1>2, <1>3, OutcomeStep, ReplayInvariantHolds, PTL DEF Spec

-----------------------------------------------------------------------------
(* What COMPLETED in memory is worth.                                      *)

\* A query that is COMPLETED in memory is so on disk, or the lane is saving it.
CompletedOnDisk ==
  /\ \A q \in Query : mem[q].state = "completed" =>
       disk[q].state = "completed" \/ (active = q /\ pc = "save_result")
  /\ pc = "save_result" /\ mem[active].state = "completed" => snap.state = "completed"
  /\ pc \in {"save_refused", "save_resume"} => mem[active].state # "completed"

\* Every step of client, lane, operator, stop and restart keeps it.
LEMMA CompletedStep ==
  ReplayInvariant /\ CompletedOnDisk /\ [Next]_vars => CompletedOnDisk'
<1> SUFFICES ASSUME ReplayInvariant, CompletedOnDisk, [Next]_vars
             PROVE  CompletedOnDisk'
  OBVIOUS
<1> USE DEF ReplayInvariant
<1>0. /\ pc # "idle" => active \in Query
      /\ \A q \in Query : mem[q] \in Record /\ disk[q] \in Record
  BY DEF TypeOK
<1>1. ASSUME NEW q \in Query, NEW t \in State
      PROVE  In(mem[q], t) \in Record /\ In(mem[q], t).state = t
  BY <1>0, InType
<1>2. {"recovery_required", "failed", "cancelled", "queued", "running", "paused"}
        \subseteq State \ {"completed"}
  BY DEF State, Unsettled, Terminal
\* Somebody outside the lane changes a query that is not COMPLETED afterwards.
<1>3. ASSUME NEW q \in Query, UNCHANGED <<active, pc, snap>>,
             mem'[q].state # "completed",
             \A p \in Query \ {q} : mem'[p] = mem[p] /\ disk'[p] = disk[p]
      PROVE  CompletedOnDisk'
  BY <1>0, <1>3 DEF CompletedOnDisk
\* The lane changes its query, and is not about to save a result.
<1>4. ASSUME active \in Query, mem'[active].state # "completed",
             \A p \in Query \ {active} : mem'[p] = mem[p] /\ disk'[p] = disk[p],
             UNCHANGED active
      PROVE  CompletedOnDisk'
  BY <1>4 DEF CompletedOnDisk
<1>5. ASSUME UNCHANGED <<mem, disk>>, pc # "save_result",
             pc' \in {"idle", "picked", "save_running", "ready", "executed", "requeue",
                      "finish"}
      PROVE  CompletedOnDisk'
  BY <1>5 DEF CompletedOnDisk
<1>7. ASSUME NEW q \in Query, SubmitRefused(q) PROVE CompletedOnDisk'
  BY <1>7 DEF SubmitRefused, queueVars, laneVars, CompletedOnDisk
<1>8. ASSUME NEW q \in Query, SubmitNotSaved(q) PROVE CompletedOnDisk'
  <2>1. \A p \in Query : disk'[p] = disk[p] \/ p = q
    BY <1>8, SaveWrites, FreshTypes DEF SubmitNotSaved
  <2> QED BY <1>3, <1>8, <2>1 DEF SubmitNotSaved, IsNew, queueVars, laneVars
<1>9. ASSUME NEW q \in Query, SubmitAdmitted(q) PROVE CompletedOnDisk'
  <2>1. /\ mem' = [mem EXCEPT ![q] = Fresh] /\ disk' = [disk EXCEPT ![q] = Fresh]
        /\ UNCHANGED <<active, pc, snap>>
    BY <1>9 DEF SubmitAdmitted
  <2> QED BY <1>3, <2>1 DEF TypeOK, Fresh
<1>10. ASSUME NEW q \in Query, RecordFailed(q) PROVE CompletedOnDisk'
  <2> DEFINE r == In(IF mem[q].state = "absent" THEN Fresh ELSE mem[q], "failed")
  <2>1. r \in Record /\ r.state = "failed"
    BY <1>0, <1>2, InType, FreshTypes
  <2>2. PICK o : Save(q, r, o) /\ mem' = IF o # "ok" /\ mem[q].state = "absent"
                                         THEN mem ELSE [mem EXCEPT ![q] = r]
    BY <1>10 DEF RecordFailed
  <2>3. \A p \in Query : disk'[p] = disk[p] \/ p = q
    BY <2>1, <2>2, SaveWrites
  <2> HIDE DEF r
  <2>4. /\ \A p \in Query \ {q} : mem'[p] = mem[p]
        /\ mem'[q].state # "completed"
    BY <2>1, <2>2 DEF TypeOK
  <2>5. UNCHANGED <<active, pc, snap>>
    BY <1>10 DEF RecordFailed, laneVars
  <2> QED BY <1>3, <2>3, <2>4, <2>5
<1>11. ASSUME NEW q \in Query, Operator(q) PROVE CompletedOnDisk'
  <2>1. PICK t \in {"cancelled", "queued"} :
          SetState(q, t) /\ \E o : Save(q, In(mem[q], t), o)
    BY <1>11 DEF Operator, ResolveCancel, ResolveRequeue
  <2>2. \A p \in Query : disk'[p] = disk[p] \/ p = q
    BY <1>1, <1>2, <2>1, SaveWrites
  <2>3. \A p \in Query : mem'[p] = IF p = q THEN In(mem[q], t) ELSE mem[p]
    BY <2>1 DEF SetState, TypeOK
  <2>4. UNCHANGED <<active, pc, snap>>
    BY <1>11 DEF Operator, ResolveCancel, ResolveRequeue, laneVars
  <2> QED BY <1>1, <1>2, <1>3, <2>1, <2>2, <2>3, <2>4
<1>12. ASSUME Pick PROVE CompletedOnDisk'
  BY <1>5, <1>12 DEF Pick, Goto
<1>13. ASSUME FindIdle PROVE CompletedOnDisk'
  BY <1>13 DEF FindIdle, laneVars, CompletedOnDisk
<1>14. ASSUME MarkRunning PROVE CompletedOnDisk'
  <2>1. active \in Query /\ UNCHANGED <<active, disk>>
    BY <1>0, <1>14 DEF MarkRunning
  <2>2. PICK t \in {"running", "queued"} : mem' = [mem EXCEPT ![active] = In(mem[active], t)]
    BY <1>14 DEF MarkRunning, RunningRecord, RunningNotPersisted, SetState
  <2>3. mem'[active].state # "completed" /\ \A p \in Query \ {active} : mem'[p] = mem[p]
    BY <1>1, <1>2, <2>1, <2>2 DEF TypeOK
  <2> QED BY <1>4, <2>1, <2>3
<1>15. ASSUME SaveRunning \/ SaveRunningFails PROVE CompletedOnDisk'
  <2>1. /\ pc = "save_running" /\ active \in Query /\ snap \in Record /\ UNCHANGED active
        /\ mem[active].state # "completed"
    BY <1>0, <1>15 DEF SaveRunning, SaveRunningFails, EvidenceOnLane, TypeOK
  <2>2. \A p \in Query \ {active} : disk'[p] = disk[p]
    BY <1>15, <2>1 DEF SaveRunning, SaveRunningFails, Save, TypeOK
  <2>3. mem' = mem \/ SetState(active, "queued")
    BY <1>15 DEF SaveRunning, SaveRunningFails, queueVars
  <2>4. mem'[active].state # "completed" /\ \A p \in Query \ {active} : mem'[p] = mem[p]
    BY <1>1, <1>2, <2>1, <2>3 DEF SetState, TypeOK
  <2> QED BY <1>4, <2>1, <2>2, <2>4
<1>16. ASSUME RefuseStep PROVE CompletedOnDisk'
  <2>1. /\ active \in Query /\ UNCHANGED <<active, disk>>
        /\ mem' = [mem EXCEPT ![active] = In(mem[active], "recovery_required")]
    BY <1>0, <1>16 DEF RefuseStep, SetState
  <2> QED BY <1>1, <1>2, <1>4, <2>1 DEF TypeOK
<1>17. ASSUME SaveRefused \/ SaveResume PROVE CompletedOnDisk'
  <2>1. /\ pc \in {"save_refused", "save_resume"} /\ active \in Query /\ UNCHANGED active
        /\ mem[active].state # "completed"
    BY <1>0, <1>17 DEF SaveRefused, SaveResume, CompletedOnDisk
  <2>2. \A p \in Query \ {active} : disk'[p] = disk[p]
    BY <1>17, <2>1 DEF SaveRefused, SaveResume, Save, TypeOK
  <2>3. mem' = mem \/ SetState(active, "paused")
    BY <1>17 DEF SaveRefused, SaveResume, queueVars
  <2>4. mem'[active].state # "completed" /\ \A p \in Query \ {active} : mem'[p] = mem[p]
    BY <1>1, <1>2, <2>1, <2>3 DEF SetState, TypeOK
  <2> QED BY <1>4, <2>1, <2>2, <2>4
<1>18. ASSUME ExecuteTool PROVE CompletedOnDisk'
  BY <1>5, <1>18 DEF ExecuteTool, Goto, queueVars
<1>19. ASSUME RecordResult PROVE CompletedOnDisk'
  <2> DEFINE next == mem[active].next_step + 1
             Advanced(s) == [state |-> s, next_step |-> next]
  <2>1. active \in Query /\ UNCHANGED <<active, disk>> /\ pc = "executed"
    BY <1>0, <1>19 DEF RecordResult
  <2>2. \E t : /\ mem' = [mem EXCEPT ![active] = Advanced(t)]
               /\ \/ pc' = "save_result" /\ snap' = Advanced(t)
                  \/ pc' = "finish" /\ t = "recovery_required"
    <3>1. CASE <<mem[active].state, ResultState(active, next)>> \in Allowed
      BY <1>19, <3>1 DEF RecordResult, Goto
    <3>2. CASE <<mem[active].state, ResultState(active, next)>> \notin Allowed
      BY <1>19, <3>2 DEF RecordResult, Goto
    <3> QED BY <3>1, <3>2
  <2>3. PICK t : /\ mem' = [mem EXCEPT ![active] = Advanced(t)]
                 /\ \/ pc' = "save_result" /\ snap' = Advanced(t)
                    \/ pc' = "finish" /\ t = "recovery_required"
    BY <2>2
  <2>4. Advanced(t).state = t
    OBVIOUS
  <2> HIDE DEF Advanced
  <2>5. mem'[active] = Advanced(t) /\ \A p \in Query \ {active} : mem'[p] = mem[p]
    BY <2>1, <2>3 DEF TypeOK
  <2> QED BY <2>1, <2>3, <2>4, <2>5 DEF CompletedOnDisk
<1>20. ASSUME SaveResult PROVE CompletedOnDisk'
  <2>1. /\ active \in Query /\ UNCHANGED active /\ pc = "save_result"
        /\ disk' = [disk EXCEPT ![active] = snap]
    BY <1>0, <1>20 DEF SaveResult, Save
  <2>2. disk'[active] = snap /\ \A p \in Query \ {active} : disk'[p] = disk[p]
    BY <2>1 DEF TypeOK
  <2>3. CASE snap.state = "paused"
    <3>1. mem' = [mem EXCEPT ![active] = In(mem[active], "queued")]
      BY <1>20, <2>3 DEF SaveResult, SetState
    <3> QED BY <1>1, <1>2, <1>4, <2>1, <2>2, <3>1 DEF TypeOK
  <2>4. CASE snap.state # "paused"
    <3>1. mem' = mem /\ pc' \in {"requeue", "finish"}
      BY <1>20, <2>4 DEF SaveResult, Goto
    <3> QED BY <2>1, <2>2, <3>1 DEF CompletedOnDisk
  <2> QED BY <2>3, <2>4
<1>21. ASSUME SaveResultFails PROVE CompletedOnDisk'
  <2>1. /\ active \in Query /\ UNCHANGED active
        /\ mem' = [mem EXCEPT ![active] = In(mem[active], "recovery_required")]
        /\ \E o : Save(active, snap, o)
    BY <1>0, <1>21 DEF SaveResultFails, SetState
  <2>2. \A p \in Query \ {active} : disk'[p] = disk[p]
    BY <2>1 DEF Save, TypeOK
  <2> QED BY <1>1, <1>2, <1>4, <2>1, <2>2 DEF TypeOK
<1>22. ASSUME Requeue PROVE CompletedOnDisk'
  BY <1>5, <1>22 DEF Requeue, Goto
<1>23. ASSUME Finish PROVE CompletedOnDisk'
  BY <1>5, <1>23 DEF Finish, Goto, queueVars
<1>24. ASSUME Stop PROVE CompletedOnDisk'
  BY <1>24 DEF Stop, NothingInMemory, CompletedOnDisk, Absent
<1>25. ASSUME Start PROVE CompletedOnDisk'
  <2>1. PICK unread \in SUBSET Present(disk), lost \in SUBSET Present(disk) :
          Restore(Present(disk) \ unread, lost)
    BY <1>25 DEF Start
  <2> DEFINE loaded == Present(disk) \ unread
             Restored(q) == In(disk[q], RestoredState(loaded, q))
  <2>2. ASSUME NEW q \in Query, mem'[q].state = "completed"
        PROVE  disk'[q].state = "completed"
    <3>1. q \in loaded /\ mem'[q] = Restored(q)
      BY <2>1, <2>2 DEF Restore, Absent
    <3>2. RestoredState(loaded, q) \in State
      BY <1>0 DEF RestoredState, Resumable, State, Unsettled, Terminal, Record
    <3>3. RestoredState(loaded, q) = "completed"
      BY <1>0, <2>2, <3>1, <3>2, InType
    <3>4. disk[q].state = "completed"
      BY <3>3 DEF RestoredState, Resumable
    <3>5. disk'[q] = disk[q]
      BY <2>1, <3>3 DEF Restore
    <3> QED BY <3>4, <3>5
  <2>3. pc' = "idle"
    BY <1>25 DEF Start, laneVars, LaneShape
  <2> QED BY <2>2, <2>3 DEF CompletedOnDisk
<1>26. ASSUME UNCHANGED vars PROVE CompletedOnDisk'
  BY <1>26 DEF vars, queueVars, laneVars, CompletedOnDisk
<1> QED
  BY <1>7, <1>8, <1>9, <1>10, <1>11, <1>12, <1>13, <1>14, <1>15, <1>16, <1>17, <1>18,
     <1>19, <1>20, <1>21, <1>22, <1>23, <1>24, <1>25, <1>26
  DEF Next, Client, RunOnce

\* In memory, too, COMPLETED is backed by the file, or is on its way there.
THEOREM CompletionIsBacked == Spec => []CompletedOnDisk
<1>1. Init => CompletedOnDisk
  BY DEF Init, CompletedOnDisk, Absent
<1> QED BY <1>1, CompletedStep, ReplayInvariantHolds, PTL DEF Spec

-----------------------------------------------------------------------------
(* What the lane touches.                                                  *)

\* run_once changes its own query and nothing of any other, and leaves a file behind
\* that is there.
LEMMA LaneTouches ==
  ASSUME ReplayInvariant, RunOnce
  PROVE  /\ UNCHANGED <<up, accepted, ext, rejected, requeues>> /\ up
         /\ \A p \in Query \ {active} :
              mem'[p] = mem[p] /\ disk'[p] = disk[p] /\ effects'[p] = effects[p]
         /\ pc = "idle" =>
              /\ UNCHANGED <<mem, disk, effects>>
              /\ active' = active \/ (active' \in Query /\ mem[active'].state = "queued")
         /\ pc # "idle" =>
              /\ active \in Query /\ active' \in {active, NoQuery}
              /\ disk[active].state # "absent" => disk'[active].state # "absent"
<1> USE DEF ReplayInvariant
<1>0. active \in Query <=> pc # "idle"
  BY DEF TypeOK
<1>2. CASE Pick
  <2>1. active' \in Query /\ mem[active'].state = "queued"
    BY <1>2 DEF Pick, Ready, TypeOK
  <2> QED BY <1>0, <1>2, <2>1 DEF Pick, history
<1>3. CASE FindIdle
  BY <1>0, <1>3 DEF FindIdle, history, laneVars
<1>4. CASE MarkRunning \/ RefuseStep
  <2>1. pc # "idle" /\ active' = active /\ UNCHANGED <<up, accepted, ext, disk>>
    BY <1>4 DEF MarkRunning, RefuseStep
  <2>2. up /\ UNCHANGED <<rejected, requeues, effects>>
    BY <1>4 DEF MarkRunning, RefuseStep, history
  <2>3. \E r : mem' = [mem EXCEPT ![active] = r]
    BY <1>4 DEF MarkRunning, RunningNotPersisted, SetState, RefuseStep
  <2> QED BY <1>0, <2>1, <2>2, <2>3 DEF TypeOK
<1>5. CASE SaveRunning \/ SaveRunningFails
  <2>1. pc = "save_running" /\ snap.state # "absent"
    BY <1>5 DEF SaveRunning, SaveRunningFails, EvidenceOnLane
  <2> QED BY <1>0, <1>5, <2>1
      DEF SaveRunning, SaveRunningFails, Save, SetState, queueVars, history, TypeOK
<1>6. CASE SaveRefused
  <2>1. pc = "save_refused" /\ snap.state # "absent"
    BY <1>6 DEF SaveRefused, EvidenceOnLane
  <2> QED BY <1>0, <1>6, <2>1 DEF SaveRefused, Save, queueVars, history, TypeOK
<1>7. CASE ExecuteTool
  BY <1>0, <1>7 DEF ExecuteTool, queueVars, TypeOK
<1>8. CASE RecordResult
  <2>1. \E r : mem' = [mem EXCEPT ![active] = r]
    BY <1>8 DEF RecordResult
  <2> QED BY <1>0, <1>8, <2>1 DEF RecordResult, history, TypeOK
<1>9. CASE SaveResult \/ SaveResultFails
  <2>1. pc = "save_result" /\ snap.state # "absent"
    BY <1>9 DEF SaveResult, SaveResultFails, EvidenceOnLane
  <2> QED BY <1>0, <1>9, <2>1
      DEF SaveResult, SaveResultFails, Save, SetState, history, TypeOK
<1>10. CASE SaveResume
  <2>1. pc = "save_resume" /\ snap.state # "absent"
    BY <1>10 DEF SaveResume, EvidenceOnLane
  <2> QED BY <1>0, <1>10, <2>1 DEF SaveResume, Save, SetState, history, TypeOK
<1>11. CASE Requeue \/ Finish
  BY <1>0, <1>11 DEF Requeue, Finish, queueVars, history
<1> QED BY <1>2, <1>3, <1>4, <1>5, <1>6, <1>7, <1>8, <1>9, <1>10, <1>11 DEF RunOnce

-----------------------------------------------------------------------------
(* Identities.                                                             *)

\* A set of numbers has a least element.
LEMMA Least ==
  ASSUME NEW T \in SUBSET Nat, T # {}
  PROVE  \E m \in T : \A n \in T : m <= n
<1> DEFINE R == OpToRel(<, Nat)
<1>1. PICK m \in T : \A n \in T : ~ (<<n, m>> \in R)
  BY NatLessThanWellFounded, WFMin
<1>2. \A n, k \in Nat : n < k => <<n, k>> \in R
  BY DEF OpToRel
<1> HIDE DEF R
<1>3. \A n \in T : ~ (n < m)
  BY <1>1, <1>2
<1>4. m \in Nat /\ \A n \in T : n \in Nat
  OBVIOUS
<1> QED BY <1>3, <1>4

\* Of the files restore has read, the first with an identity registers it.
LEMMA IdentityRestored ==
  ASSUME NEW loaded \in SUBSET Query, NEW lost, Restore(loaded, lost),
         NEW q \in loaded, Keyed(q)
  PROVE  ext'[Key[q]] # NoQuery
<1> DEFINE same == {r \in loaded : Key[r] = Key[q]}
           owners == {r \in loaded : Key[r] = Key[q] /\ ~ DuplicateIn(loaded, r)}
<1>1. {Rank[r] : r \in same} \in SUBSET Nat /\ {Rank[r] : r \in same} # {}
  BY RankAssumption
<1>2. PICK m \in {Rank[r] : r \in same} : \A n \in {Rank[r] : r \in same} : m <= n
  BY <1>1, Least
<1>3. PICK r \in same : Rank[r] = m
  BY <1>2
<1>4. r \in owners
  BY <1>1, <1>2, <1>3, RankAssumption DEF DuplicateIn
<1>5. Key[q] \in Call
  BY KeyAssumption DEF Keyed
<1>6. ext'[Key[q]] = IF owners = {} THEN NoQuery ELSE CHOOSE p \in owners : TRUE
  BY <1>5 DEF Restore
<1>7. owners \subseteq Query /\ owners # {}
  BY <1>4
<1> HIDE DEF owners
<1> QED BY <1>6, <1>7

\* q may be run without the operator, or has been run.
Engaged(q) ==
  \/ mem[q].state \in {"queued", "running", "paused"} \/ active = q
  \/ disk[q].state \in Resumable \/ effects[q][0] > 0

\* More than a recorded failure is known of q.
Known(q) ==
  \/ mem[q].state \notin {"absent", "failed"} \/ active = q
  \/ disk[q].state \notin {"absent", "failed"} \/ effects[q][0] > 0

\* What is in memory or was executed is on file.
OnFile ==
  \A q \in Query :
    mem[q].state # "absent" \/ effects[q][0] > 0 => disk[q].state # "absent"

\* A process that is up has registered the identity of each query it knows.
IdentityKnown == up => \A q \in Query : Keyed(q) /\ Known(q) => ext[Key[q]] # NoQuery

\* Of the queries of one identity, the operator apart, one at most is engaged.
OneEngaged ==
  \A q, r \in Query :
    q # r /\ Keyed(q) /\ Key[q] = Key[r] /\ requeues[q] = 0 /\ requeues[r] = 0
      => ~ (Engaged(q) /\ Engaged(r))

IdentityInvariant == OnFile /\ IdentityKnown /\ OneEngaged

\* Every step keeps it, as long as a save that raises has not replaced the file and
\* each file can be read at a restart.
LEMMA IdentityStep ==
  ASSUME Faults \subseteq {"fail", "audit"},
         ReplayInvariant, IdentityInvariant, [Next]_vars
  PROVE  IdentityInvariant'
<1> USE DEF IdentityInvariant
<1> DEFINE Calm(q) == /\ Engaged(q)' => Engaged(q) \/ requeues'[q] > 0
                      /\ Known(q)' => Known(q)
                      /\ requeues'[q] = 0 => requeues[q] = 0
           Filed(q) == mem'[q].state # "absent" \/ effects'[q][0] > 0
                         => disk'[q].state # "absent"
<1>0. /\ TypeOK /\ LaneShape /\ 0 \in Step
      /\ \A q \in Query : mem[q] \in Record /\ disk[q] \in Record /\ requeues[q] \in Nat
                          /\ effects[q][0] \in Nat
  BY BoundAssumption DEF ReplayInvariant, TypeOK, Step
\* What did not engage a query leaves the invariant alone.
<1>1. ASSUME \A q \in Query : Calm(q) /\ Filed(q), UNCHANGED <<up, ext>>
      PROVE  IdentityInvariant'
  <2>1. OneEngaged'
    BY <1>1 DEF OneEngaged
  <2>2. IdentityKnown'
    BY <1>1 DEF IdentityKnown
  <2> QED BY <1>1, <2>1, <2>2 DEF OnFile
\* Nor does a change of one query that leaves it as calm.
<1>2. ASSUME NEW q \in Query, Calm(q), Filed(q), UNCHANGED <<up, ext, active, effects>>,
             \A p \in Query \ {q} : /\ mem'[p] = mem[p] /\ disk'[p] = disk[p]
                                    /\ requeues'[p] = requeues[p]
      PROVE  IdentityInvariant'
  <2>1. ASSUME NEW p \in Query \ {q} PROVE Calm(p) /\ Filed(p)
    BY <1>2 DEF Engaged, Known, OnFile
  <2> QED BY <1>1, <1>2, <2>1
<1>3. ASSUME NEW q \in Query, SubmitRefused(q) PROVE IdentityInvariant'
  BY <1>2, <1>3 DEF SubmitRefused, queueVars, laneVars, history, Engaged, Known, OnFile
<1>4. ASSUME NEW q \in Query, SubmitNotSaved(q) PROVE IdentityInvariant'
  <2>1. \A o \in SaveFaults : o = "fail"
    BY DEF SaveFaults, Injectable
  <2>2. UNCHANGED <<up, mem, ext, disk, active, effects, requeues>>
    BY <1>4, <2>1 DEF SubmitNotSaved, Save, queueVars, laneVars, history
  <2> QED BY <1>2, <2>2 DEF Engaged, Known, OnFile
<1>5. ASSUME NEW q \in Query, SubmitAdmitted(q) PROVE IdentityInvariant'
  <2>1. /\ mem' = [mem EXCEPT ![q] = Fresh] /\ disk' = [disk EXCEPT ![q] = Fresh]
        /\ ext' = IF Keyed(q) THEN [ext EXCEPT ![Key[q]] = q] ELSE ext
        /\ UNCHANGED <<up, active, effects, requeues>> /\ up
        /\ Keyed(q) => ext[Key[q]] = NoQuery
    BY <1>5 DEF SubmitAdmitted, IsNew, history
  <2>2. /\ mem'[q] = Fresh /\ disk'[q] = Fresh
        /\ \A p \in Query \ {q} : mem'[p] = mem[p] /\ disk'[p] = disk[p]
    BY <1>0, <2>1 DEF TypeOK
  <2>3. \A p \in Query \ {q} : /\ Engaged(p)' = Engaged(p) /\ Known(p)' = Known(p)
                               /\ Filed(p)
    BY <2>1, <2>2 DEF Engaged, Known, OnFile
  <2>4. OnFile'
    BY <2>2, <2>3 DEF OnFile, Fresh
  <2>5. \A k \in Call : ext'[k] # ext[k] => ext'[k] = q
    BY <1>0, <2>1 DEF TypeOK
  <2>6. \A p \in Query : Keyed(p) => Key[p] \in Call
    BY KeyAssumption DEF Keyed
  <2>7. Keyed(q) => ext'[Key[q]] = q
    BY <1>0, <2>1, <2>6 DEF TypeOK
  <2>8. IdentityKnown'
    <3> SUFFICES ASSUME NEW p \in Query, Keyed(p), Known(p)' PROVE ext'[Key[p]] # NoQuery
      BY DEF IdentityKnown
    <3>1. CASE p = q
      BY <2>7, <3>1
    <3>2. CASE p # q
      BY <2>1, <2>3, <2>5, <2>6, <3>2 DEF IdentityKnown
    <3> QED BY <3>1, <3>2
  <2>9. \A p \in Query \ {q} : Keyed(q) /\ Key[p] = Key[q] => ~ Engaged(p)
    <3> SUFFICES ASSUME NEW p \in Query \ {q}, Keyed(q), Key[p] = Key[q], Engaged(p)
                 PROVE  FALSE
      OBVIOUS
    <3>1. Keyed(p) /\ ext[Key[p]] = NoQuery
      BY <2>1 DEF Keyed
    <3>2. Known(p)
      BY DEF Engaged, Known, Resumable
    <3> QED BY <2>1, <3>1, <3>2 DEF IdentityKnown
  <2>10. OneEngaged'
    <3> SUFFICES ASSUME NEW p \in Query, NEW r \in Query, p # r, Keyed(p), Key[p] = Key[r],
                        requeues'[p] = 0, requeues'[r] = 0, Engaged(p)', Engaged(r)'
                 PROVE  FALSE
      BY DEF OneEngaged
    <3>1. CASE p = q \/ r = q
      BY <2>3, <2>9, <3>1 DEF Keyed
    <3>2. CASE p # q /\ r # q
      BY <2>1, <2>3, <3>2 DEF OneEngaged
    <3> QED BY <3>1, <3>2
  <2> QED BY <2>4, <2>8, <2>10
<1>6. ASSUME NEW q \in Query, RecordFailed(q) PROVE IdentityInvariant'
  <2> DEFINE r == In(IF mem[q].state = "absent" THEN Fresh ELSE mem[q], "failed")
  <2>1. r \in Record /\ r.state = "failed"
    BY <1>0, InType, FreshTypes DEF State, Terminal
  <2>2. PICK o \in SaveOutcomes :
          Save(q, r, o) /\ mem' = IF o # "ok" /\ mem[q].state = "absent"
                                  THEN mem ELSE [mem EXCEPT ![q] = r]
    BY <1>6 DEF RecordFailed
  <2>3. /\ UNCHANGED <<up, ext, active, effects, requeues>>
    BY <1>6 DEF RecordFailed, laneVars, history
  <2>4. CASE o = "ok"
    <3>1. /\ mem' = [mem EXCEPT ![q] = r] /\ disk' = [disk EXCEPT ![q] = r]
      BY <2>2, <2>4 DEF Save
    <3> HIDE DEF r
    <3>2. /\ mem'[q] = r /\ disk'[q] = r
          /\ \A p \in Query \ {q} : mem'[p] = mem[p] /\ disk'[p] = disk[p]
      BY <1>0, <3>1 DEF TypeOK
    <3>3. Calm(q) /\ Filed(q)
      BY <2>1, <2>3, <3>2 DEF Engaged, Known, Resumable
    <3> QED BY <1>2, <2>3, <3>2, <3>3
  <2>5. CASE o # "ok"
    <3>1. o = "fail"
      BY <2>2, <2>5 DEF SaveOutcomes, SaveFaults, Injectable
    <3>2. disk' = disk
      BY <2>2, <3>1 DEF Save
    <3> HIDE DEF r
    <3>3. /\ mem'[q] = mem[q] \/ (mem'[q] = r /\ mem[q].state # "absent")
          /\ \A p \in Query \ {q} : mem'[p] = mem[p]
      <4>1. CASE mem[q].state = "absent"
        <5>1. mem' = mem
          BY <2>2, <2>5, <4>1
        <5> QED BY <5>1
      <4>2. CASE mem[q].state # "absent"
        <5>1. mem' = [mem EXCEPT ![q] = r]
          BY <2>2, <4>2
        <5> QED BY <1>0, <4>2, <5>1 DEF TypeOK
      <4> QED BY <4>1, <4>2
    <3>4. Calm(q) /\ Filed(q)
      BY <2>1, <2>3, <3>2, <3>3 DEF Engaged, Known, OnFile
    <3> QED BY <1>2, <2>3, <3>2, <3>3, <3>4
  <2> QED BY <2>4, <2>5
<1>7. ASSUME NEW q \in Query, Operator(q) PROVE IdentityInvariant'
  <2>1. PICK t \in {"cancelled", "queued"} :
          /\ SetState(q, t) /\ AwaitsRecovery(q) /\ \E o : Save(q, In(mem[q], t), o)
          /\ t = "queued" => requeues' = [requeues EXCEPT ![q] = @ + 1]
          /\ t = "cancelled" => requeues' = requeues
    BY <1>7 DEF Operator, ResolveCancel, ResolveRequeue
  <2> DEFINE r == In(mem[q], t)
  <2>2. r \in Record /\ r.state = t
    BY <1>0, InType DEF State, Unsettled, Terminal
  <2>3. UNCHANGED <<up, ext, active, effects>>
    BY <1>7 DEF Operator, ResolveCancel, ResolveRequeue, laneVars, history
  <2>4. \A p \in Query : disk'[p] = disk[p] \/ (p = q /\ disk'[p] = r)
    BY <1>0, <2>1, <2>2, SaveWrites
  <2>5. \A p \in Query : mem'[p] = IF p = q THEN r ELSE mem[p]
    BY <1>0, <2>1 DEF SetState, TypeOK
  <2>6. \A p \in Query : /\ p # q => requeues'[p] = requeues[p]
                         /\ requeues'[q] = 0 => requeues[q] = 0 /\ t = "cancelled"
    BY <1>0, <2>1 DEF TypeOK
  <2>7. requeues'[q] \in Nat
    BY <1>0, <2>1 DEF TypeOK
  <2> HIDE DEF r
  <2>8. Known(q) /\ mem[q].state # "absent" /\ disk[q].state # "absent"
    BY <2>1 DEF AwaitsRecovery, Known, OnFile
  <2>9. Calm(q) /\ Filed(q)
    <3>1. Filed(q)
      BY <2>2, <2>4, <2>8
    <3>2. requeues'[q] = 0 => (Engaged(q)' => Engaged(q))
      BY <2>2, <2>3, <2>4, <2>5, <2>6 DEF Engaged, Resumable
    <3> QED BY <2>6, <2>7, <2>8, <3>1, <3>2
  <2> QED BY <1>2, <2>3, <2>4, <2>5, <2>6, <2>9
<1>8. ASSUME RunOnce PROVE IdentityInvariant'
  <2>1. /\ UNCHANGED <<up, ext, requeues>>
        /\ \A p \in Query \ {active} :
             mem'[p] = mem[p] /\ disk'[p] = disk[p] /\ effects'[p] = effects[p]
        /\ pc = "idle" =>
             /\ UNCHANGED <<mem, disk, effects>>
             /\ active' = active \/ (active' \in Query /\ mem[active'].state = "queued")
        /\ pc # "idle" =>
             /\ active \in Query /\ active' \in {active, NoQuery}
             /\ disk[active].state # "absent" => disk'[active].state # "absent"
    BY <1>8, LaneTouches
  <2>2. CASE pc = "idle"
    <3>1. ASSUME NEW p \in Query PROVE Calm(p) /\ Filed(p)
      BY <2>1, <2>2 DEF Engaged, Known, OnFile
    <3> QED BY <1>1, <2>1, <3>1
  <2>3. CASE pc # "idle"
    <3>1. disk'[active].state # "absent"
      BY <1>0, <2>1, <2>3 DEF OnFile, LaneShape
    <3>2. ASSUME NEW p \in Query \ {active} PROVE Calm(p) /\ Filed(p)
      BY <2>1, <2>3 DEF Engaged, Known, OnFile
    <3>3. ASSUME NEW p \in Query, p = active PROVE Calm(p) /\ Filed(p)
      BY <2>1, <3>1, <3>3 DEF Engaged, Known
    <3> QED BY <1>1, <2>1, <3>2, <3>3
  <2> QED BY <2>2, <2>3
<1>9. ASSUME Stop PROVE IdentityInvariant'
  <2>1. /\ up' = FALSE /\ UNCHANGED <<disk, effects, requeues>> /\ active' = NoQuery
        /\ \A p \in Query : mem'[p].state = "absent"
    BY <1>9 DEF Stop, NothingInMemory, history, Absent
  <2>2. \A p \in Query : Engaged(p)' => Engaged(p)
    BY <2>1 DEF Engaged
  <2>3. OneEngaged'
    BY <2>1, <2>2 DEF OneEngaged
  <2>4. OnFile'
    BY <2>1 DEF OnFile
  <2> QED BY <2>1, <2>3, <2>4 DEF IdentityKnown
<1>10. ASSUME Start PROVE IdentityInvariant'
  <2>1. PICK lost \in SUBSET Present(disk) : Restore(Present(disk), lost)
    BY <1>10 DEF Start
  <2> DEFINE loaded == Present(disk)
             Restored(q) == In(disk[q], RestoredState(loaded, q))
  <2>2. UNCHANGED <<active, pc, effects, requeues>> /\ pc = "idle" /\ active = NoQuery
    BY <1>0, <1>10 DEF Start, laneVars, history, TypeOK, LaneShape
  <2>3. \A q \in Query : RestoredState(loaded, q) \in State
    BY <1>0 DEF RestoredState, Resumable, State, Unsettled, Terminal, Record
  <2>4. \A q \in Query : Restored(q).state = RestoredState(loaded, q)
    BY <1>0, <2>3, InType
  <2>5. /\ \A q \in Query : q \in loaded <=> disk[q].state # "absent"
        /\ \A q \in loaded : mem'[q] = Restored(q)
        /\ \A q \in Query \ loaded : mem'[q] = Absent
        /\ \A q \in Query : \/ disk'[q] = disk[q]
                            \/ /\ q \in loaded /\ disk'[q] = Restored(q)
                               /\ RestoredState(loaded, q) = "recovery_required"
    BY <2>1 DEF Restore, Present
  <2>6. \A q \in Query :
          /\ RestoredState(loaded, q) \in {"queued", "running", "paused"}
               => disk[q].state \in Resumable
          /\ disk[q].state # "absent" => RestoredState(loaded, q) # "absent"
    BY DEF RestoredState, Resumable
  <2> HIDE DEF loaded, Restored
  <2>7. OnFile'
    BY <2>2, <2>4, <2>5, <2>6 DEF OnFile, Absent
  <2>8. \A q \in Query : Engaged(q)' => Engaged(q)
    <3> SUFFICES ASSUME NEW q \in Query, Engaged(q)' PROVE Engaged(q)
      OBVIOUS
    <3>1. CASE q \in loaded
      BY <2>2, <2>4, <2>5, <2>6, <3>1 DEF Engaged, Resumable
    <3>2. CASE q \notin loaded
      BY <2>2, <2>5, <3>2 DEF Engaged, Absent
    <3> QED BY <3>1, <3>2
  <2>9. OneEngaged'
    BY <2>2, <2>8 DEF OneEngaged
  <2>10. \A q \in Query : Known(q)' => q \in loaded
    <3> SUFFICES ASSUME NEW q \in Query, q \notin loaded, Known(q)' PROVE FALSE
      OBVIOUS
    <3>1. mem'[q].state = "absent" /\ disk'[q].state = "absent" /\ ~ effects'[q][0] > 0
      BY <2>2, <2>5 DEF OnFile, Absent
    <3> QED BY <2>2, <3>1 DEF Known
  <2>11. IdentityKnown'
    BY <2>1, <2>10, IdentityRestored DEF IdentityKnown, loaded, Present
  <2> QED BY <2>7, <2>9, <2>11
<1>11. ASSUME UNCHANGED vars PROVE IdentityInvariant'
  BY <1>11 DEF vars, queueVars, laneVars, history, OnFile, IdentityKnown, OneEngaged,
               Engaged, Known
<1> QED BY <1>3, <1>4, <1>5, <1>6, <1>7, <1>8, <1>9, <1>10, <1>11 DEF Next, Client

\* docs/BUILD_REPORT.md, "identities are not executed twice": for any queries, any
\* stops and any failing saves and audit appends.  A save that fails behind its
\* replacement, or a file that cannot be read, breaks it.
THEOREM IdentitiesRunOnce ==
  ASSUME Faults \subseteq {"fail", "audit"}
  PROVE  Spec => []DuplicateCallOnce
<1>1. Init => IdentityInvariant
  <2> SUFFICES ASSUME Init PROVE IdentityInvariant
    OBVIOUS
  <2>1. \A q \in Query : /\ mem[q].state = "absent" /\ disk[q].state = "absent"
                         /\ active # q /\ effects[q][0] = 0
    BY BoundAssumption DEF Init, Absent, Step
  <2>2. \A q \in Query : ~ Engaged(q) /\ ~ Known(q)
    BY <2>1 DEF Engaged, Known, Resumable
  <2> QED BY <2>1, <2>2 DEF IdentityInvariant, OnFile, IdentityKnown, OneEngaged
<1>2. ReplayInvariant /\ IdentityInvariant /\ [Next]_vars => IdentityInvariant'
  BY IdentityStep
<1>3. ReplayInvariant /\ IdentityInvariant => DuplicateCallOnce
  <2> SUFFICES ASSUME ReplayInvariant, IdentityInvariant,
                      NEW q \in Query, NEW r \in Query, q # r, Keyed(q), Key[q] = Key[r],
                      requeues[q] + requeues[r] = 0
               PROVE  effects[q][0] = 0 \/ effects[r][0] = 0
    BY DEF DuplicateCallOnce
  <2>1. \A p \in Query : requeues[p] \in Nat /\ effects[p][0] \in Nat
    BY BoundAssumption DEF ReplayInvariant, TypeOK, Step
  <2>2. requeues[q] = 0 /\ requeues[r] = 0
    BY <2>1
  <2> QED BY <2>1, <2>2 DEF IdentityInvariant, OneEngaged, Engaged
<1> QED BY <1>1, <1>2, <1>3, ReplayInvariantHolds, PTL DEF Spec
-----------------------------------------------------------------------------
(* Final files.                                                            *)

\* What a final file relies on.  A save that raises leaves the old file (a torn save
\* of a result offers it to the operator, who may reopen it); a query whose result was
\* lost is not run again behind its last step; no restart finds a tool gone; and no
\* query of an identity of its own is admitted and reported as refused, for
\* record_failed and the lane would then overwrite each other.
FilesAreKept ==
  /\ "torn" \notin Faults
  /\ MaxRequeues = 0 \/ "fail" \notin Faults
  /\ \A known \in Registries : known = Query
  /\ \A q \in Query : Keyed(q) /\ ~ SharesCall(q) => "audit" \notin Faults

\* The states from which a query may reach the lane.
MayRun == {"queued", "paused", "running"}
            \cup (IF MaxRequeues = 0 THEN {} ELSE {"recovery_required"})

\* A record that may reach the lane has a step left.
StepLeft(q, r) == r.state \in MayRun => r.next_step < Steps[q]

\* Once the file of q is final, memory holds the same or nothing, and the lane is done
\* with q; until then the lane finds q as it left it.
FileStands(q) ==
  /\ disk[q].state \in Terminal => mem[q].state \in {"absent", disk[q].state}
  /\ q \in rejected => mem[q].state = "absent" /\ disk[q].state = "absent"
  /\ StepLeft(q, mem[q]) /\ StepLeft(q, disk[q])
  /\ active = q /\ pc # "finish" =>
       /\ pc # "save_refused" /\ disk[q].state \notin Terminal
       /\ mem[q].state # "recovery_required"
       /\ pc \in {"picked", "requeue"} => mem[q].state = "queued"
       /\ pc \in {"save_running", "ready", "executed"} => mem[q].state = "running"
       /\ pc = "save_running" => StepLeft(q, snap)
       /\ pc \in {"save_result", "save_resume"} => mem[q] = snap
       /\ pc = "save_resume" => snap.state = "queued"

FinalFiles == accepted = Query /\ \A q \in Query : ~ SharesCall(q) => FileStands(q)

\* Whatever the lane does with a query whose identity is its own, the file stands and
\* stays final.
LEMMA LaneKeepsFile ==
  ASSUME FilesAreKept, ReplayInvariant, FinalFiles, RunOnce,
         NEW q \in Query, ~ SharesCall(q), active = q
  PROVE  /\ FileStands(q)'
         /\ disk[q].state \in Terminal => disk'[q].state = disk[q].state
<1> USE DEF ReplayInvariant
<1> DEFINE Goal == /\ FileStands(q)'
                   /\ disk[q].state \in Terminal => disk'[q].state = disk[q].state
           Busy == pc # "finish" /\ disk[q].state \notin Terminal
           MemAs(t) == mem'[q].state = t /\ mem'[q].next_step = mem[q].next_step
\* On the lane a query is neither about to be rejected nor absent.
<1>1. /\ pc \in Label \ {"idle"} /\ q \notin rejected /\ rejected' = rejected
      /\ mem \in [Query -> Record] /\ disk \in [Query -> Record] /\ snap \in Record
      /\ FileStands(q)
  <2>1. mem[q].state # "absent" /\ pc # "idle" /\ FileStands(q)
    BY DEF TypeOK, LaneShape, FinalFiles
  <2> QED BY <2>1, LaneTouches DEF TypeOK, FileStands
<1>2. \A o \in SaveFaults : o = "fail" /\ MaxRequeues = 0
  BY FaultsAssumption DEF FilesAreKept, SaveFaults, Injectable
<1>3. pc # "finish" => Busy
  BY <1>1 DEF FileStands
<1>4. ASSUME NEW t \in State, SetState(active, t) PROVE MemAs(t)
  BY <1>1, <1>4, InType DEF SetState
\* A query that is taken off the lane needs no more than this.
<1>5. ASSUME Busy, StepLeft(q, mem'[q]), StepLeft(q, disk'[q]), pc' = "finish",
             disk'[q].state \in Terminal => mem'[q].state = disk'[q].state
      PROVE  Goal
  BY <1>1, <1>5 DEF FileStands
\* While it stays, its file is not final.
<1>6. ASSUME Busy, StepLeft(q, mem'[q]), StepLeft(q, disk'[q]), active' = active,
             disk'[q].state \notin Terminal, pc' \in {"save_running", "ready", "executed",
                "save_result", "save_resume", "requeue"},
             pc' = "requeue" => mem'[q].state = "queued",
             pc' \in {"save_running", "ready", "executed"} => mem'[q].state = "running",
             mem'[q].state # "recovery_required",
             pc' = "save_running" => StepLeft(q, snap'),
             pc' \in {"save_result", "save_resume"} => mem'[q] = snap',
             pc' = "save_resume" => snap'.state = "queued"
      PROVE  Goal
  BY <1>1, <1>6 DEF FileStands
<1>7. ~ Pick /\ ~ FindIdle /\ ~ SaveRefused
  BY <1>1 DEF Pick, FindIdle, SaveRefused, FileStands
<1>8. ASSUME MarkRunning PROVE Goal
  <2>1. /\ pc = "picked" /\ active' = active /\ disk' = disk /\ mem[q].state = "queued"
    BY <1>1, <1>8 DEF MarkRunning, FileStands
  <2>2. SetState(active, "running") /\ snap' = In(mem[q], "running") /\ pc' = "save_running"
    BY <1>8, <2>1 DEF MarkRunning, Allowed, SetState, RunningRecord, Goto
  <2>3. MemAs("running") /\ mem'[q] = snap'
    BY <1>1, <1>4, <2>2 DEF SetState, State, Unsettled
  <2>4. StepLeft(q, mem'[q]) /\ StepLeft(q, disk'[q])
    BY <1>1, <2>1, <2>3 DEF FileStands, StepLeft, MayRun
  <2> QED BY <1>3, <1>6, <2>1, <2>2, <2>3, <2>4
<1>9. ASSUME SaveRunning PROVE Goal
  <2>1. /\ pc = "save_running" /\ active' = active /\ mem' = mem /\ pc' = "ready"
        /\ disk' = [disk EXCEPT ![q] = snap] /\ snap.state = "running"
    BY <1>9 DEF SaveRunning, Save, Goto, EvidenceOnLane, queueVars
  <2>2. /\ disk'[q] = snap /\ StepLeft(q, snap) /\ mem[q].state = "running"
        /\ StepLeft(q, mem[q])
    BY <1>1, <2>1 DEF FileStands
  <2> QED BY <1>3, <1>6, <2>1, <2>2 DEF Terminal
<1>10. ASSUME SaveRunningFails PROVE Goal
  <2>1. /\ pc = "save_running" /\ active' = active /\ SetState(active, "queued")
        /\ disk' = disk /\ pc' \in {"requeue", "finish"}
    BY <1>2, <1>10 DEF SaveRunningFails, Save, Goto
  <2>2. MemAs("queued")
    BY <1>4, <2>1 DEF State, Unsettled
  <2>3. StepLeft(q, mem'[q]) /\ StepLeft(q, disk'[q])
    BY <1>1, <2>1, <2>2 DEF FileStands, StepLeft, MayRun
  <2> QED BY <1>3, <1>5, <1>6, <2>1, <2>2, <2>3
\* Its steps validate and there is one left.
<1>11. ~ RefuseStep
  BY <1>1 DEF RefuseStep, Executable, FinalFiles, FileStands, StepLeft, MayRun
<1>12. ASSUME ExecuteTool PROVE Goal
  <2>1. /\ pc = "ready" /\ pc' = "executed" /\ UNCHANGED <<active, mem, disk>>
    BY <1>12 DEF ExecuteTool, Goto, queueVars
  <2> QED BY <1>1, <1>3, <1>6, <2>1 DEF FileStands
<1>13. ASSUME RecordResult PROVE Goal
  <2> DEFINE next == mem[active].next_step + 1
             target == ResultState(active, next)
             r == [state |-> target, next_step |-> next]
  <2>1. /\ pc = "executed" /\ active' = active /\ disk' = disk
        /\ mem[q].state = "running" /\ mem[q].next_step < Steps[q]
    BY <1>1, <1>13 DEF RecordResult, FileStands, LaneShape
  <2>2. target \in {"queued", "paused", "failed", "completed"}
        /\ (target \in {"queued", "paused"} => next # Steps[q])
    BY DEF ResultState
  <2>3. mem' = [mem EXCEPT ![active] = r] /\ snap' = r /\ pc' = "save_result"
    BY <1>13, <2>1, <2>2 DEF RecordResult, Goto, Allowed
  <2>4. next \in Int /\ Steps[q] \in Int /\ next <= Steps[q]
    BY <1>1, <2>1, StepsAssumption DEF Record
  <2>5. StepLeft(q, r)
    BY <2>2, <2>4 DEF StepLeft, MayRun
  <2> HIDE DEF r
  <2>6. /\ mem'[q] = r /\ StepLeft(q, disk'[q])
        /\ r.state # "recovery_required"
    BY <1>1, <2>1, <2>2, <2>3 DEF FileStands, r
  <2> QED BY <1>3, <1>6, <2>1, <2>3, <2>5, <2>6
<1>14. ASSUME SaveResult PROVE Goal
  <2>1. /\ pc = "save_result" /\ active' = active /\ disk' = [disk EXCEPT ![q] = snap]
        /\ mem[q] = snap /\ StepLeft(q, mem[q])
    BY <1>1, <1>14 DEF SaveResult, Save, FileStands
  <2>2. disk'[q] = snap
    BY <1>1, <2>1
  <2>3. CASE snap.state = "paused"
    <3>1. SetState(active, "queued") /\ snap' = mem'[active] /\ pc' = "save_resume"
      BY <1>1, <1>14, <2>3 DEF SaveResult, SetState, Goto
    <3>2. MemAs("queued")
      BY <1>4, <3>1 DEF State, Unsettled
    <3>3. StepLeft(q, mem'[q])
      BY <2>1, <2>3, <3>2 DEF StepLeft, MayRun
    <3> QED BY <1>3, <1>6, <2>1, <2>2, <2>3, <3>1, <3>2, <3>3 DEF Terminal
  <2>4. CASE snap.state # "paused"
    <3>1. mem' = mem /\ pc' = IF snap.state = "queued" THEN "requeue" ELSE "finish"
      BY <1>14, <2>4 DEF SaveResult, Goto
    <3> QED BY <1>3, <1>5, <1>6, <2>1, <2>2, <3>1 DEF Terminal
  <2> QED BY <2>3, <2>4
<1>15. ASSUME SaveResultFails PROVE Goal
  <2>1. /\ pc = "save_result" /\ pc' = "finish" /\ disk' = disk
        /\ SetState(active, "recovery_required") /\ MaxRequeues = 0
    BY <1>2, <1>15 DEF SaveResultFails, Save, Goto
  <2>2. MemAs("recovery_required")
    BY <1>4, <2>1 DEF State, Unsettled
  <2>3. StepLeft(q, mem'[q]) /\ StepLeft(q, disk'[q])
    BY <1>1, <2>1, <2>2 DEF FileStands, StepLeft, MayRun
  <2> QED BY <1>3, <1>5, <2>1, <2>3
<1>16. ASSUME SaveResume PROVE Goal
  <2>1. /\ pc = "save_resume" /\ active' = active /\ mem[q] = snap
        /\ snap.state = "queued" /\ StepLeft(q, snap)
    BY <1>1, <1>16 DEF SaveResume, FileStands
  <2>2. \/ disk' = [disk EXCEPT ![q] = snap] /\ mem' = mem /\ pc' = "requeue"
        \/ disk' = disk /\ SetState(active, "paused") /\ pc' = "finish"
    BY <1>2, <1>16 DEF SaveResume, SaveOutcomes, Save, Goto
  <2>3. CASE disk' = [disk EXCEPT ![q] = snap] /\ mem' = mem /\ pc' = "requeue"
    BY <1>1, <1>3, <1>6, <2>1, <2>3 DEF Terminal
  <2>4. CASE disk' = disk /\ SetState(active, "paused") /\ pc' = "finish"
    <3>1. MemAs("paused")
      BY <1>4, <2>4 DEF State, Unsettled
    <3>2. StepLeft(q, mem'[q]) /\ StepLeft(q, disk'[q])
      BY <1>1, <2>1, <2>4, <3>1 DEF FileStands, StepLeft, MayRun
    <3> QED BY <1>3, <1>5, <2>1, <2>4, <3>2
  <2> QED BY <2>2, <2>3, <2>4
<1>17. ASSUME Requeue PROVE Goal
  BY <1>1, <1>3, <1>5, <1>17 DEF Requeue, Goto, FileStands
<1>18. ASSUME Finish PROVE Goal
  BY <1>1, <1>18 DEF Finish, Goto, queueVars, FileStands
<1>19. Goal
  BY <1>7, <1>8, <1>9, <1>10, <1>11, <1>12, <1>13, <1>14, <1>15, <1>16, <1>17, <1>18
  DEF RunOnce
<1> QED BY <1>19

\* Every step keeps every such file, and keeps it final.
LEMMA FileStep ==
  ASSUME FilesAreKept, ReplayInvariant, FinalFiles, [Next]_vars
  PROVE  /\ FinalFiles'
         /\ \A q \in Query \ rejected :
              disk[q].state \in Terminal /\ ~ SharesCall(q) => disk'[q].state = disk[q].state
<1> USE DEF ReplayInvariant
<1>1. accepted' = Query
  <2>1. accepted' = accepted \/ Start
    BY DEF Next, Client, SubmitRefused, SubmitNotSaved, SubmitAdmitted, RecordFailed,
       Operator, ResolveCancel, ResolveRequeue, RunOnce, Pick, FindIdle, MarkRunning,
       SaveRunning, SaveRunningFails, RefuseStep, SaveRefused, ExecuteTool, RecordResult,
       SaveResult, SaveResultFails, SaveResume, Requeue, Finish, Stop, vars
  <2> QED BY <2>1 DEF Start, FilesAreKept, FinalFiles
<1>2. SUFFICES ASSUME NEW q \in Query, ~ SharesCall(q)
               PROVE  /\ FileStands(q)'
                      /\ q \notin rejected /\ disk[q].state \in Terminal
                           => disk'[q].state = disk[q].state
  BY <1>1 DEF FinalFiles
<1> DEFINE Goal == /\ FileStands(q)'
                   /\ q \notin rejected /\ disk[q].state \in Terminal
                        => disk'[q].state = disk[q].state
<1>3. FileStands(q) /\ mem \in [Query -> Record] /\ disk \in [Query -> Record]
  BY <1>2 DEF FinalFiles, TypeOK
<1>4. pc # "idle" => mem[active].state # "absent"
  BY DEF LaneShape
<1>5. \A o \in SaveFaults : o = "fail" /\ MaxRequeues = 0
  BY FaultsAssumption DEF FilesAreKept, SaveFaults, Injectable
\* Nothing happens to q.
<1>6. ASSUME mem'[q] = mem[q], disk'[q] = disk[q],
             q \in rejected' => mem[q].state = "absent" /\ disk[q].state = "absent",
             active' = q => UNCHANGED <<active, pc, snap>>
      PROVE  Goal
  BY <1>3, <1>6 DEF FileStands
\* Something happens to q while the lane has not begun with it, or is done.
<1>7. ASSUME UNCHANGED <<active, pc, snap>>, active # q \/ pc = "finish", q \notin rejected',
             disk'[q].state \in Terminal => mem'[q].state \in {"absent", disk'[q].state},
             StepLeft(q, mem'[q]), StepLeft(q, disk'[q])
      PROVE  FileStands(q)'
  BY <1>7 DEF FileStands
<1>8. ASSUME NEW p \in Query, SubmitRefused(p) \/ SubmitNotSaved(p) PROVE Goal
  <2>1. /\ mem' = mem /\ disk' = disk /\ UNCHANGED <<active, pc, snap>>
        /\ rejected' \subseteq rejected \cup {p}
        /\ mem[p].state = "absent" /\ disk[p].state = "absent"
    BY <1>5, <1>8 DEF SubmitRefused, SubmitNotSaved, Save, Reject, IsNew, queueVars, laneVars
  <2> QED BY <1>3, <1>6, <2>1 DEF FileStands
<1>9. ASSUME NEW p \in Query, SubmitAdmitted(p) PROVE Goal
  <2>1. /\ mem' = [mem EXCEPT ![p] = Fresh] /\ disk' = [disk EXCEPT ![p] = Fresh]
        /\ UNCHANGED <<active, pc, snap>>
        /\ mem[p].state = "absent" /\ disk[p].state = "absent" /\ p \notin rejected
        /\ rejected' \subseteq rejected \cup {p}
    BY <1>9 DEF SubmitAdmitted, IsNew, Reject
  <2>2. CASE p # q
    <3>1. mem'[q] = mem[q] /\ disk'[q] = disk[q] /\ (q \in rejected' => q \in rejected)
      BY <2>1, <2>2
    <3> QED BY <1>3, <1>6, <2>1, <3>1 DEF FileStands
  <2>3. CASE p = q
    <3>1. rejected' = rejected
      BY <1>2, <1>9, <2>3 DEF SubmitAdmitted, Reject, Injectable, FilesAreKept
    <3>2. active # q
      BY <1>4, <2>1, <2>3 DEF TypeOK
    <3>3. mem'[q] = Fresh /\ disk'[q] = Fresh /\ StepLeft(q, Fresh)
      <4>1. 0 < Steps[q] /\ Fresh.next_step = 0
        BY StepsAssumption, BoundAssumption DEF Fresh
      <4> QED BY <1>3, <2>1, <2>3, <4>1 DEF StepLeft
    <3>4. FileStands(q)'
      BY <1>7, <2>1, <2>3, <3>1, <3>2, <3>3 DEF Fresh, Terminal
    <3> QED BY <2>1, <2>3, <3>4 DEF Terminal
  <2> QED BY <2>2, <2>3
<1>10. ASSUME NEW p \in Query, RecordFailed(p) PROVE Goal
  <2> DEFINE r == In(IF mem[p].state = "absent" THEN Fresh ELSE mem[p], "failed")
  <2>1. UNCHANGED <<active, pc, snap>> /\ rejected' = rejected \ {p} /\ p \in rejected
    BY <1>10 DEF RecordFailed, laneVars
  <2>2. PICK o \in SaveOutcomes : /\ Save(p, r, o)
                                  /\ mem' = IF o # "ok" /\ mem[p].state = "absent" THEN mem
                                            ELSE [mem EXCEPT ![p] = r]
    BY <1>10 DEF RecordFailed
  <2>3. r.state = "failed"
    BY <1>3, FreshTypes, InType DEF State, Terminal
  <2>4. o # "fail" => o = "ok"
    BY <1>5 DEF SaveOutcomes
  <2> HIDE DEF r
  <2>5. CASE p # q
    <3>1. mem'[q] = mem[q] /\ disk'[q] = disk[q] /\ (q \in rejected' => q \in rejected)
      BY <2>1, <2>2, <2>5 DEF Save
    <3> QED BY <1>3, <1>6, <2>1, <3>1 DEF FileStands
  <2>6. CASE p = q
    <3>1. mem[q].state = "absent" /\ disk[q].state = "absent"
      BY <1>3, <2>1, <2>6 DEF FileStands
    <3>2. active # q
      BY <1>4, <3>1 DEF TypeOK
    <3>3. \/ mem'[q] = mem[q] /\ disk'[q] = disk[q]
          \/ mem'[q] = r /\ disk'[q] = r
      BY <1>3, <2>2, <2>4, <2>6, <3>1 DEF Save
    <3>4. FileStands(q)'
      BY <1>7, <2>1, <2>3, <2>6, <3>1, <3>2, <3>3 DEF StepLeft, MayRun, Terminal
    <3> QED BY <2>1, <2>6, <3>4
  <2> QED BY <2>5, <2>6
<1>11. ASSUME NEW p \in Query, Operator(p) PROVE Goal
  <2>1. PICK t \in {"cancelled", "queued"}, o \in SaveOutcomes :
          /\ SetState(p, t) /\ Save(p, In(mem[p], t), o)
          /\ t = "queued" => requeues[p] < MaxRequeues
    BY <1>11 DEF Operator, ResolveCancel, ResolveRequeue
  <2>2. /\ UNCHANGED <<active, pc, snap, rejected>>
        /\ mem[p].state = "recovery_required"
    BY <1>11 DEF Operator, ResolveCancel, ResolveRequeue, AwaitsRecovery, laneVars
  <2>3. In(mem[p], t).state = t /\ In(mem[p], t).next_step = mem[p].next_step
    BY <1>3, <2>1, InType DEF State, Unsettled, Terminal
  <2> DEFINE r == In(mem[p], t)
  <2>4. /\ mem' = [mem EXCEPT ![p] = r]
        /\ \/ disk' = disk /\ t = "cancelled"
           \/ disk' = [disk EXCEPT ![p] = r]
    <3>1. t = "queued" => MaxRequeues # 0
      BY <2>1 DEF TypeOK
    <3> QED BY <1>5, <2>1, <3>1 DEF SetState, Save, SaveOutcomes
  <2> HIDE DEF r
  <2>5. CASE p # q
    <3>1. mem'[q] = mem[q] /\ disk'[q] = disk[q]
      BY <1>3, <2>4, <2>5
    <3> QED BY <1>3, <1>6, <2>2, <3>1 DEF FileStands
  <2>6. CASE p = q
    <3>1. /\ active # q \/ pc = "finish"
          /\ q \notin rejected /\ disk[q].state \notin Terminal
      BY <1>3, <2>2, <2>6 DEF FileStands, Terminal
    <3>2. mem'[q] = r /\ (disk'[q] = r \/ (disk'[q] = disk[q] /\ t = "cancelled"))
      BY <1>3, <2>4, <2>6
    <3>3. StepLeft(q, r)
      <4>1. CASE t = "cancelled"
        BY <2>3, <4>1 DEF StepLeft, MayRun, r
      <4>2. CASE t = "queued"
        <5>1. MaxRequeues # 0
          BY <2>1, <4>2 DEF TypeOK
        <5> QED BY <1>3, <2>2, <2>3, <2>6, <5>1 DEF FileStands, StepLeft, MayRun, r
      <4> QED BY <4>1, <4>2
    <3>4. FileStands(q)'
      BY <1>3, <1>7, <2>2, <3>1, <3>2, <3>3 DEF FileStands
    <3> QED BY <3>1, <3>4
  <2> QED BY <2>5, <2>6
<1>12. ASSUME RunOnce PROVE Goal
  <2>1. CASE active = q
    BY <1>2, <1>12, <2>1, LaneKeepsFile
  <2>2. CASE active # q /\ active' # q
    BY <1>3, <1>6, <1>12, <2>2, LaneTouches DEF FileStands
  <2>3. CASE active # q /\ active' = q
    <3>1. pc = "idle" /\ mem' = mem /\ disk' = disk /\ rejected' = rejected
          /\ mem[q].state = "queued"
      BY <1>12, <2>3, LaneTouches DEF TypeOK
    <3>2. pc' = "picked"
      BY <1>12, <2>3, <3>1 DEF RunOnce, Pick, FindIdle, MarkRunning, SaveRunning,
         SaveRunningFails, RefuseStep, SaveRefused, ExecuteTool, RecordResult, SaveResult,
         SaveResultFails, SaveResume, Requeue, Finish, Goto, laneVars
    <3> QED BY <1>3, <3>1, <3>2 DEF FileStands, Terminal
  <2> QED BY <2>1, <2>2, <2>3
<1>13. ASSUME Stop PROVE Goal
  <2>1. /\ active' = NoQuery /\ mem'[q] = Absent /\ disk' = disk /\ rejected' = {}
    BY <1>13 DEF Stop, NothingInMemory
  <2> QED BY <1>3, <2>1 DEF FileStands, StepLeft, MayRun, Absent
<1>14. ASSUME Start PROVE Goal
  <2>1. active # q /\ rejected' = {} /\ UNCHANGED <<active, pc, snap>>
    BY <1>14 DEF Start, laneVars, LaneShape, TypeOK
  <2>2. PICK unread \in SUBSET Present(disk), lost \in SUBSET Present(disk) :
          Restore(Present(disk) \ unread, lost)
    BY <1>14 DEF Start
  <2> DEFINE loaded == Present(disk) \ unread
             t == RestoredState(loaded, q)
  <2>3. ~ DuplicateIn(loaded, q)
    BY <1>2, RankAssumption DEF DuplicateIn, SharesCall, Present
  <2>4. t = IF disk[q].state \in Resumable THEN "queued"
            ELSE IF disk[q].state = "running" THEN "recovery_required" ELSE disk[q].state
    BY <2>3 DEF RestoredState
  <2>5. t \in State /\ In(disk[q], t).state = t /\ In(disk[q], t).next_step = disk[q].next_step
    <3>1. t \in State /\ disk[q] \in Record
      BY <1>3, <2>4 DEF Resumable, State, Unsettled, Record
    <3> QED BY <3>1, InType
  <2>6. /\ mem'[q] = IF q \in loaded THEN In(disk[q], t) ELSE Absent
        /\ disk'[q] = disk[q] \/ (disk'[q] = In(disk[q], t) /\ t = "recovery_required")
    BY <2>2 DEF Restore
  <2> HIDE DEF t, loaded
  <2>7. StepLeft(q, In(disk[q], t))
    BY <1>3, <2>4, <2>5 DEF FileStands, StepLeft, MayRun, Resumable
  <2>8. StepLeft(q, Absent)
    BY DEF StepLeft, MayRun, Absent
  <2>9. disk[q].state \in Terminal => t = disk[q].state /\ disk'[q] = disk[q]
    BY <2>4, <2>6 DEF Terminal, Resumable
  <2>10. disk'[q].state \in Terminal => mem'[q].state \in {"absent", disk'[q].state}
    BY <2>5, <2>6, <2>9 DEF Terminal, Absent
  <2>11. FileStands(q)'
    BY <1>3, <1>7, <2>1, <2>6, <2>7, <2>8, <2>10 DEF FileStands
  <2> QED BY <2>9, <2>11
<1>15. ASSUME UNCHANGED vars PROVE Goal
  BY <1>3, <1>6, <1>15 DEF vars, queueVars, laneVars, FileStands
<1>16. Goal
  BY <1>8, <1>9, <1>10, <1>11, <1>12, <1>13, <1>14, <1>15 DEF Next, Client
<1> QED BY <1>16

\* Once the file of a query with an identity of its own says COMPLETED, FAILED or
\* CANCELLED, no lane, operator, client, stop or restart makes it say anything else.
THEOREM FilesStayFinal ==
  ASSUME FilesAreKept
  PROVE  Spec => DurableTerminalIsFinal
<1> DEFINE Final == \A q \in Query \ rejected :
                      disk[q].state \in Terminal /\ ~ SharesCall(q)
                        => disk'[q].state = disk[q].state
<1>1. Init => FinalFiles
  BY DEF Init, FinalFiles, FilesAreKept, FileStands, StepLeft, MayRun, Absent, Terminal
<1>2. ReplayInvariant /\ FinalFiles /\ [Next]_vars => FinalFiles' /\ [Final]_vars
  BY FileStep
<1> QED BY <1>1, <1>2, ReplayInvariantHolds, PTL DEF Spec, DurableTerminalIsFinal
=============================================================================
