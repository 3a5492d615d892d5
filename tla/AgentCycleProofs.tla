--------------------------- MODULE AgentCycleProofs ---------------------------
(***************************************************************************)
(* Theorems about AgentCycle, for any calls, interactions, rounds, faults  *)
(* and decisions of the operator, with one thread on the lane or several.  *)
(***************************************************************************)
EXTENDS AgentCycle, QueryQueueOutcome

USE CallAssumption

-----------------------------------------------------------------------------
(* The cycle only does to the queue what the queue allows.                 *)

\* Every step of the cycle, of the lane and of the host is a step of QueryQueue.
LEMMA CycleStepsAreQueueSteps == [CycleNext]_allVars => [Next]_vars
<1> SUFFICES ASSUME [CycleNext]_allVars PROVE [Next]_vars
  OBVIOUS
<1>1. ASSUME NEW q \in Query, Client(q) \/ Operator(q) PROVE Next
  BY <1>1 DEF Next
<1>2. ASSUME RunOnce PROVE Next
  BY <1>2 DEF Next
<1>3. CASE Cycle
  <2>1. CASE Prompt \/ IngestKnown \/ IngestEnds \/ WaitLoop \/ IdleCheck \/ Answer \/ Send
    BY <2>1 DEF Prompt, IngestKnown, IngestEnds, WaitLoop, IdleCheck, Answer, Send
  <2>2. CASE IngestNew
    BY <1>1, <2>2 DEF IngestNew, Client
  <2>3. CASE IngestRejected
    BY <1>1, <2>3 DEF IngestRejected, Client
  <2>4. CASE RunPicks
    BY <1>2, <2>4 DEF RunPicks, RunOnce
  <2>5. CASE RunFindsNothing
    <3>1. CASE heap = {}
      BY <2>5, <3>1 DEF RunFindsNothing, vars, queueVars
    <3>2. CASE heap # {}
      BY <1>2, <2>5, <3>2 DEF RunFindsNothing, FindIdle, RunOnce
    <3> QED BY <3>1, <3>2
  <2> QED BY <1>3, <2>1, <2>2, <2>3, <2>4, <2>5 DEF Cycle
<1>4. CASE Lane
  BY <1>2, <1>4 DEF Lane, LaneWorks, LaneReturns, HostRuns, RunOnce
<1>5. CASE Host
  BY <1>1, <1>5 DEF Host, Client
<1>6. CASE StopAll
  BY <1>6 DEF StopAll, Next
<1>7. CASE UNCHANGED allVars
  BY <1>7 DEF allVars
<1> QED BY <1>3, <1>4, <1>5, <1>6, <1>7 DEF CycleNext

\* The agent cycle implements the queue: whatever is a theorem of QueryQueue holds
\* for the runtime that runs it.
THEOREM CycleRunsQueue == CycleSpec => Spec
<1>1. CycleInit => Init
  BY DEF CycleInit
<1> QED BY <1>1, CycleStepsAreQueueSteps, PTL DEF CycleSpec, Spec

\* The inductive invariants of the queue hold in the cycle.
LEMMA QueueInvariants == CycleSpec => [](ReplayInvariant /\ CompletedOnDisk)
BY CycleRunsQueue, ReplayInvariantHolds, CompletionIsBacked, PTL

-----------------------------------------------------------------------------
(* What a step of the lane or of the host leaves alone.                    *)

\* The identities, what is rejected, the presence of the model's queries; and no
\* query is executed that is not in memory.
Kept ==
  /\ UNCHANGED <<up, ext, rejected>>
  /\ \A q \in Query :
       /\ mem[q].state # "absent" => mem'[q].state # "absent"
       /\ Keyed(q) /\ mem'[q].state # "absent" => mem[q].state # "absent"
       /\ effects'[q] # effects[q] => mem[q].state # "absent"

\* The lane only works on a query that is in memory.
LEMMA LaneKeeps ==
  ASSUME ReplayInvariant, RunOnce
  PROVE  Kept
<1> USE DEF ReplayInvariant
<1> DEFINE Present1 == \A q \in Query \ {active} : mem'[q] = mem[q]
<1>0. /\ pc # "idle" => active \in Query /\ mem[active].state # "absent"
      /\ \A q \in Query : mem[q] \in Record
  BY DEF TypeOK, LaneShape
<1>1. {"recovery_required", "queued", "running", "paused", "failed", "completed"}
        \subseteq State \ {"absent"}
  BY DEF State, Unsettled, Terminal
<1>2. ASSUME NEW q \in Query, NEW t \in State
      PROVE  In(mem[q], t).state = t
  BY <1>0, <1>2, InType
<1>3. ASSUME mem' = mem, UNCHANGED <<up, ext, rejected, effects>> PROVE Kept
  BY <1>3 DEF Kept
<1>4. ASSUME pc # "idle", NEW t, t \in State \ {"absent"}, SetState(active, t),
             UNCHANGED <<up, ext, rejected, effects>>
      PROVE  Kept
  BY <1>0, <1>2, <1>4 DEF Kept, SetState, TypeOK
<1>5. CASE Pick \/ FindIdle \/ SaveRunning \/ SaveRefused \/ Requeue \/ Finish
  BY <1>3, <1>5 DEF Pick, FindIdle, SaveRunning, SaveRefused, Requeue, Finish, queueVars,
                    laneVars, history
<1>6. CASE MarkRunning
  BY <1>1, <1>4, <1>6 DEF MarkRunning, RunningRecord, RunningNotPersisted, SetState, history
<1>7. CASE SaveRunningFails
  BY <1>1, <1>4, <1>7 DEF SaveRunningFails, history
<1>8. CASE RefuseStep
  BY <1>1, <1>4, <1>8 DEF RefuseStep, history
<1>9. CASE SaveResultFails
  BY <1>1, <1>4, <1>9 DEF SaveResultFails, history
<1>10. CASE SaveResult
  BY <1>1, <1>3, <1>4, <1>10 DEF SaveResult, history
<1>11. CASE SaveResume
  BY <1>1, <1>3, <1>4, <1>11 DEF SaveResume, history
<1>12. CASE ExecuteTool
  BY <1>0, <1>12 DEF ExecuteTool, Kept, queueVars, TypeOK
<1>13. CASE RecordResult
  <2> DEFINE next == mem[active].next_step + 1
             Advanced(s) == [state |-> s, next_step |-> next]
  <2>1. /\ active \in Query /\ mem[active].state # "absent"
        /\ UNCHANGED <<up, ext, rejected, effects>>
    BY <1>0, <1>13 DEF RecordResult, history
  <2>2. \E t : t # "absent" /\ mem' = [mem EXCEPT ![active] = Advanced(t)]
    <3>1. CASE <<mem[active].state, ResultState(active, next)>> \in Allowed
      <4>1. ResultState(active, next) # "absent"
        BY DEF ResultState
      <4> QED BY <1>13, <3>1, <4>1 DEF RecordResult
    <3>2. CASE <<mem[active].state, ResultState(active, next)>> \notin Allowed
      BY <1>13, <3>2 DEF RecordResult
    <3> QED BY <3>1, <3>2
  <2>3. PICK t : t # "absent" /\ mem' = [mem EXCEPT ![active] = Advanced(t)]
    BY <2>2
  <2>4. Advanced(t).state # "absent"
    BY <2>3
  <2> HIDE DEF Advanced
  <2> QED BY <2>1, <2>3, <2>4 DEF Kept, TypeOK
<1> QED BY <1>5, <1>6, <1>7, <1>8, <1>9, <1>10, <1>11, <1>12, <1>13 DEF RunOnce

\* The host admits queries no call stands behind, the operator admits none.
LEMMA HostKeeps ==
  ASSUME ReplayInvariant, Host
  PROVE  Kept
<1> USE DEF ReplayInvariant
<1>1. PICK q \in Query : \/ ~ Keyed(q) /\ (SubmitAdmitted(q) \/ SubmitNotSaved(q))
                         \/ Operator(q)
  BY DEF Host
<1>2. UNCHANGED <<up, ext, rejected, effects>>
  BY <1>1 DEF SubmitAdmitted, SubmitNotSaved, Reject, Operator, ResolveCancel,
              ResolveRequeue, queueVars, history
<1>3. CASE ~ Keyed(q) /\ SubmitAdmitted(q)
  BY <1>2, <1>3 DEF Kept, SubmitAdmitted, Fresh, TypeOK
<1>4. CASE SubmitNotSaved(q)
  BY <1>2, <1>4 DEF Kept, SubmitNotSaved, queueVars
<1>5. CASE Operator(q)
  <2>1. PICK t \in {"cancelled", "queued"} : SetState(q, t) /\ AwaitsRecovery(q)
    BY <1>5 DEF Operator, ResolveCancel, ResolveRequeue
  <2>2. In(mem[q], t).state # "absent"
    BY InType DEF TypeOK, State, Unsettled, Terminal
  <2> QED BY <1>2, <2>1, <2>2 DEF Kept, SetState, AwaitsRecovery, TypeOK
<1> QED BY <1>1, <1>3, <1>4, <1>5

\* A new call is admitted and collected, or its rejection is due.
LEMMA IngestNewKeeps ==
  ASSUME ReplayInvariant, IngestNew, todo \subseteq Call
  PROVE  \E c \in todo : \E q \in Query :
           /\ Key[q] = c /\ Keyed(q) /\ UNCHANGED <<up, effects>>
           /\ \/ /\ mem' = [mem EXCEPT ![q] = Fresh] /\ ext' = [ext EXCEPT ![c] = q]
                 /\ \/ rejected' = rejected /\ Collect(c, q)
                    \/ rejected' = rejected \cup {q} /\ UNCHANGED <<todo, collected>>
              \/ /\ UNCHANGED <<mem, ext, todo, collected>>
                 /\ rejected' = rejected \cup {q}
<1>1. PICK c \in todo, q \in Query :
        /\ Key[q] = c /\ ext[c] = NoQuery
        /\ SubmitAdmitted(q) \/ SubmitNotSaved(q) \/ SubmitRefused(q)
        /\ IF rejected' = {} THEN Collect(c, q) ELSE UNCHANGED <<todo, collected>>
  BY DEF IngestNew
<1>2. Keyed(q) /\ rejected = {}
  BY <1>1 DEF Keyed, IngestNew
<1>3. CASE SubmitAdmitted(q)
  <2>1. /\ mem' = [mem EXCEPT ![q] = Fresh] /\ ext' = [ext EXCEPT ![c] = q]
        /\ UNCHANGED <<up, effects>>
    BY <1>1, <1>2, <1>3 DEF SubmitAdmitted, history
  <2>2. rejected' = rejected \/ rejected' = rejected \cup {q}
    BY <1>2, <1>3 DEF SubmitAdmitted, Reject
  <2> QED BY <1>1, <1>2, <2>1, <2>2
<1>4. CASE SubmitNotSaved(q) \/ SubmitRefused(q)
  <2>1. UNCHANGED <<up, effects, mem, ext>> /\ rejected' = rejected \cup {q}
    BY <1>2, <1>4 DEF SubmitNotSaved, SubmitRefused, Reject, history, queueVars
  <2> QED BY <1>1, <1>2, <2>1
<1> QED BY <1>1, <1>3, <1>4

\* A rejection is recorded and collected, or the cycle raises.
LEMMA IngestRejectedKeeps ==
  ASSUME ReplayInvariant, IngestRejected
  PROVE  \E q \in rejected :
           /\ rejected' = rejected \ {q} /\ UNCHANGED <<up, ext, effects>>
           /\ \A p \in Query \ {q} : mem'[p] = mem[p]
           /\ mem[q].state # "absent" => mem'[q].state # "absent"
           /\ overruled' \subseteq overruled \cup {q}
           /\ \/ /\ Collect(Key[q], q) /\ UNCHANGED <<phase, verdict>>
                 /\ mem'[q].state # "absent"
              \/ Over("raised") /\ UNCHANGED <<todo, collected>>
<1> USE DEF ReplayInvariant
<1>1. PICK q \in Query :
        /\ RecordFailed(q)
        /\ overruled' = IF mem[q].state = "absent" THEN overruled ELSE overruled \cup {q}
        /\ IF faults' = faults
           THEN Collect(Key[q], q) /\ UNCHANGED <<phase, verdict>>
           ELSE Over("raised") /\ UNCHANGED <<todo, collected>>
  BY DEF IngestRejected
<1>2. /\ q \in rejected /\ rejected' = rejected \ {q} /\ UNCHANGED <<up, ext, effects>>
  BY <1>1 DEF RecordFailed, history
<1> DEFINE r == In(IF mem[q].state = "absent" THEN Fresh ELSE mem[q], "failed")
<1>3. r.state # "absent"
  BY InType, FreshTypes DEF TypeOK, State, Terminal
<1>4. PICK o : /\ Save(q, r, o)
               /\ mem' = IF o # "ok" /\ mem[q].state = "absent" THEN mem
                         ELSE [mem EXCEPT ![q] = r]
  BY <1>1 DEF RecordFailed
<1>5. faults' = faults => o = "ok"
  BY <1>4 DEF Save, TypeOK
<1> HIDE DEF r
<1>6. /\ \A p \in Query \ {q} : mem'[p] = mem[p]
      /\ mem[q].state # "absent" \/ o = "ok" => mem'[q].state # "absent"
  BY <1>3, <1>4 DEF TypeOK
<1> QED BY <1>1, <1>2, <1>5, <1>6

-----------------------------------------------------------------------------
(* Types.                                                                  *)

\* CycleTypeOK, with what keeps the counters within their bounds and the queries of
\* the cycle known to the queue.
CycleShape ==
  /\ CycleTypeOK
  /\ phase \in {"run", "lane", "check"} => budget > 0
  /\ phase \in {"wait", "run", "lane", "check", "answer", "send"} => round < MaxRounds
  /\ \A k \in Call : ext[k] # NoQuery => Key[ext[k]] = k /\ mem[ext[k]].state # "absent"
  /\ \A q \in rejected : Keyed(q)

\* Every step of the cycle, the lane and the host keeps it.
LEMMA ShapeStep ==
  ReplayInvariant /\ CycleShape /\ [CycleNext]_allVars => CycleShape'
<1> SUFFICES ASSUME ReplayInvariant, CycleShape, [CycleNext]_allVars PROVE CycleShape'
  OBVIOUS
<1> USE CycleAssumption, InteractionAssumption
<1> DEFINE Clear == UNCHANGED vars
<1>0. /\ TypeOK /\ TypeOK'
      /\ \A q \in Query : mem[q] \in Record
  <2>1. TypeOK /\ LaneShape
    BY DEF ReplayInvariant
  <2> QED BY <2>1, TypeStep, CycleStepsAreQueueSteps DEF TypeOK
<1>1. Clear => Kept
  BY DEF vars, queueVars, history, Kept
\* The queue keeps what the cycle knows of it.
<1>2. ASSUME Kept
      PROVE  /\ \A k \in Call : ext'[k] # NoQuery =>
                  Key[ext'[k]] = k /\ mem'[ext'[k]].state # "absent"
             /\ \A q \in rejected' : Keyed(q)
             /\ \A q \in collected \cup UNION {awaited[id] : id \in Interaction} :
                  Keyed(q) /\ mem'[q].state # "absent"
  <2>1. \A k \in Call : ext[k] \in Query \cup {NoQuery}
    BY <1>0 DEF TypeOK
  <2>2. \A q \in Query : mem[q].state # "absent" => mem'[q].state # "absent"
    BY <1>2 DEF Kept
  <2>3. collected \cup UNION {awaited[id] : id \in Interaction} \subseteq Query
    BY DEF CycleShape, CycleTypeOK
  <2> QED BY <1>2, <2>1, <2>2, <2>3 DEF Kept, CycleShape, CycleTypeOK
<1>3. ASSUME Answers PROVE /\ turn' \in [id : Interaction, calls : SUBSET Call]
                           /\ todo' \subseteq Call /\ collected' = {} /\ phase' = "ingest"
  BY <1>3 DEF Answers, Askable
<1>4. CASE Prompt
  <2>1. Kept
    BY <1>1, <1>4 DEF Prompt
  <2>2. CASE Answers /\ UNCHANGED verdict
    BY <1>2, <1>3, <1>4, <2>1, <2>2 DEF Prompt, CycleShape, CycleTypeOK, answers
  <2>3. CASE Over("raised")
    BY <1>2, <1>4, <2>1, <2>3 DEF Prompt, Over, CycleShape, CycleTypeOK, answers
  <2> QED BY <1>4, <2>2, <2>3 DEF Prompt
<1>5. CASE IngestKnown
  <2>1. Kept
    BY <1>1, <1>5 DEF IngestKnown
  <2>2. PICK c \in todo : ext[c] # NoQuery /\ Collect(c, ext[c])
    BY <1>5 DEF IngestKnown
  <2>3. /\ c \in Call /\ ext[c] \in Query
        /\ Keyed(ext[c]) /\ mem'[ext[c]].state # "absent"
    <3>1. c \in Call /\ ext[c] \in Query
      BY <1>0, <2>2 DEF TypeOK, CycleShape, CycleTypeOK
    <3>2. Key[ext[c]] = c /\ mem[ext[c]].state # "absent"
      BY <2>2, <3>1 DEF CycleShape
    <3> QED BY <2>1, <3>1, <3>2 DEF Kept, Keyed
  <2> QED BY <1>2, <1>5, <2>1, <2>2, <2>3
      DEF IngestKnown, Collect, CycleShape, CycleTypeOK, answers
<1>6. CASE IngestNew
  <2>1. PICK c \in todo, q \in Query :
          /\ Key[q] = c /\ Keyed(q)
          /\ \/ /\ mem' = [mem EXCEPT ![q] = Fresh] /\ ext' = [ext EXCEPT ![c] = q]
                /\ \/ rejected' = rejected /\ Collect(c, q)
                   \/ rejected' = rejected \cup {q} /\ UNCHANGED <<todo, collected>>
             \/ /\ UNCHANGED <<mem, ext, todo, collected>>
                /\ rejected' = rejected \cup {q}
    BY <1>6, IngestNewKeeps DEF CycleShape, CycleTypeOK
  <2>2. UNCHANGED <<phase, turn, awaited, round, budget, verdict, answers>>
    BY <1>6 DEF IngestNew
  <2>3. /\ \A p \in Query : mem[p].state # "absent" => mem'[p].state # "absent"
        /\ \A k \in Call : \/ ext'[k] = ext[k]
                           \/ k = c /\ ext'[k] = q /\ mem'[q].state # "absent"
        /\ UNCHANGED <<todo, collected>> \/ mem'[q].state # "absent"
    <3>1. CASE UNCHANGED <<mem, ext, todo, collected>>
      BY <3>1
    <3>2. CASE mem' = [mem EXCEPT ![q] = Fresh] /\ ext' = [ext EXCEPT ![c] = q]
      <4>1. mem'[q] = Fresh /\ \A p \in Query \ {q} : mem'[p] = mem[p]
        BY <1>0, <3>2 DEF TypeOK
      <4>2. \A k \in Call : ext'[k] = IF k = c THEN q ELSE ext[k]
        BY <1>0, <3>2 DEF TypeOK
      <4> QED BY <4>1, <4>2 DEF Fresh
    <3> QED BY <2>1, <3>1, <3>2
  <2>4. \A k \in Call : ext[k] \in Query \cup {NoQuery}
    BY <1>0 DEF TypeOK
  <2>5. \A k \in Call : ext'[k] # NoQuery =>
          Key[ext'[k]] = k /\ mem'[ext'[k]].state # "absent"
    BY <2>1, <2>3, <2>4 DEF CycleShape
  <2>6. \A p \in rejected' : Keyed(p)
    BY <2>1 DEF CycleShape
  <2>7. /\ collected' \subseteq Query /\ todo' \subseteq Call
        /\ \A p \in collected' \cup UNION {awaited[id] : id \in Interaction} :
             Keyed(p) /\ mem'[p].state # "absent"
    <3>1. collected \cup UNION {awaited[id] : id \in Interaction} \subseteq Query
      BY DEF CycleShape, CycleTypeOK
    <3>2. \A p \in collected \cup UNION {awaited[id] : id \in Interaction} :
            Keyed(p) /\ mem'[p].state # "absent"
      BY <2>3, <3>1 DEF CycleShape, CycleTypeOK
    <3>3. CASE UNCHANGED <<todo, collected>>
      BY <3>1, <3>2, <3>3 DEF CycleShape, CycleTypeOK
    <3>4. CASE Collect(c, q) /\ ~ UNCHANGED <<todo, collected>>
      BY <2>1, <2>3, <3>1, <3>2, <3>4 DEF Collect, CycleShape, CycleTypeOK
    <3> QED BY <2>1, <3>3, <3>4
  <2> QED BY <2>2, <2>5, <2>6, <2>7 DEF CycleShape, CycleTypeOK, answers
<1>7. CASE IngestRejected
  <2>1. PICK q \in rejected :
          /\ rejected' = rejected \ {q} /\ UNCHANGED <<up, ext, effects>>
          /\ \A p \in Query \ {q} : mem'[p] = mem[p]
          /\ mem[q].state # "absent" => mem'[q].state # "absent"
          /\ overruled' \subseteq overruled \cup {q}
          /\ \/ /\ Collect(Key[q], q) /\ UNCHANGED <<phase, verdict>>
                /\ mem'[q].state # "absent"
             \/ Over("raised") /\ UNCHANGED <<todo, collected>>
    BY <1>7, IngestRejectedKeeps
  <2>2. phase = "ingest" /\ UNCHANGED <<turn, awaited, round, budget, told>>
    BY <1>7 DEF IngestRejected
  <2>3. q \in Query /\ Keyed(q)
    BY <1>0 DEF TypeOK, CycleShape
  <2>4. \A p \in Query : mem[p].state # "absent" => mem'[p].state # "absent"
    BY <2>1
  <2>5. \A k \in Call : ext[k] \in Query \cup {NoQuery}
    BY <1>0 DEF TypeOK
  <2>6. \A k \in Call : ext'[k] # NoQuery =>
          Key[ext'[k]] = k /\ mem'[ext'[k]].state # "absent"
    BY <2>1, <2>4, <2>5 DEF CycleShape
  <2>7. \A p \in collected \cup UNION {awaited[id] : id \in Interaction} :
          p \in Query /\ Keyed(p) /\ mem'[p].state # "absent"
    BY <2>4 DEF CycleShape, CycleTypeOK
  <2>8. CASE Collect(Key[q], q) /\ UNCHANGED <<phase, verdict>> /\ mem'[q].state # "absent"
    BY <2>1, <2>2, <2>3, <2>6, <2>7, <2>8 DEF Collect, CycleShape, CycleTypeOK
  <2>9. CASE Over("raised") /\ UNCHANGED <<todo, collected>>
    BY <2>1, <2>2, <2>3, <2>6, <2>7, <2>9 DEF Over, CycleShape, CycleTypeOK
  <2> QED BY <2>1, <2>8, <2>9
<1>8. CASE IngestEnds
  <2>1. Kept
    BY <1>1, <1>8 DEF IngestEnds
  <2>2. \A id \in Interaction : awaited'[id] = awaited[id] \/ awaited'[id] = collected
    BY <1>8 DEF IngestEnds, CycleShape, CycleTypeOK
  <2>3. awaited' \in [Interaction -> SUBSET Query]
    BY <1>8 DEF IngestEnds, CycleShape, CycleTypeOK
  <2>4. \A q \in collected' \cup UNION {awaited'[id] : id \in Interaction} :
          Keyed(q) /\ mem'[q].state # "absent"
    BY <1>2, <1>8, <2>1, <2>2 DEF IngestEnds
  <2>5. budget' \in 0..Budget
    BY <1>8 DEF IngestEnds
  <2> QED BY <1>2, <1>8, <2>1, <2>3, <2>4, <2>5
      DEF IngestEnds, Continue, Over, CycleShape, CycleTypeOK, answers
<1>9. CASE WaitLoop
  <2>1. Kept
    BY <1>1, <1>9 DEF WaitLoop
  <2> QED BY <1>2, <1>9, <2>1 DEF WaitLoop, Over, CycleShape, CycleTypeOK, answers
<1>10. CASE RunPicks \/ RunFindsNothing
  <2>1. Kept
    BY <1>10, LaneKeeps DEF RunPicks, RunFindsNothing, RunOnce, Kept, laneVars, history
  <2> QED BY <1>2, <1>10, <2>1 DEF RunPicks, RunFindsNothing, CycleShape, CycleTypeOK, answers
<1>11. CASE IdleCheck
  <2>1. Kept
    BY <1>1, <1>11 DEF IdleCheck
  <2> QED BY <1>2, <1>11, <2>1 DEF IdleCheck, CycleShape, CycleTypeOK, answers
<1>12. CASE Answer
  <2>1. Kept
    BY <1>1, <1>12 DEF Answer
  <2>2. awaited' \in [Interaction -> SUBSET Query]
    BY <1>12 DEF Answer, CycleShape, CycleTypeOK
  <2>3. \A id \in Interaction : awaited'[id] \subseteq awaited[id]
    BY <1>12 DEF Answer, CycleShape, CycleTypeOK
  <2>4. told' \subseteq Query \X State
    <3>1. turn.id \in Interaction
      BY DEF CycleShape, CycleTypeOK
    <3>2. \A q \in awaited[turn.id] : q \in Query /\ mem[q].state \in State
      BY <1>0, <3>1 DEF CycleShape, CycleTypeOK, Record
    <3> QED BY <1>12, <3>2 DEF Answer, Results, CycleShape, CycleTypeOK
  <2>5. \A q \in collected \cup UNION {awaited'[id] : id \in Interaction} :
          Keyed(q) /\ mem'[q].state # "absent"
    BY <1>2, <2>1, <2>3
  <2> QED BY <1>2, <1>12, <2>1, <2>2, <2>4, <2>5 DEF Answer, CycleShape, CycleTypeOK
<1>13. CASE Send
  <2>1. Kept
    BY <1>1, <1>13 DEF Send
  <2>2. CASE Answers /\ round' = round + 1 /\ UNCHANGED verdict
    BY <1>2, <1>3, <1>13, <2>1, <2>2 DEF Send, CycleShape, CycleTypeOK, answers
  <2>3. CASE Over("raised") /\ UNCHANGED <<turn, todo, collected, round>>
    BY <1>2, <1>13, <2>1, <2>3 DEF Send, Over, CycleShape, CycleTypeOK, answers
  <2> QED BY <1>13, <2>2, <2>3 DEF Send
<1>14. CASE Lane
  <2>1. Kept
    BY <1>14, LaneKeeps DEF Lane, LaneWorks, LaneReturns, HostRuns, ReplayInvariant, RunOnce
  <2>2. CASE LaneReturns
    BY <1>2, <2>1, <2>2 DEF LaneReturns, Over, CycleShape, CycleTypeOK, answers
  <2>3. CASE LaneWorks
    BY <1>2, <2>1, <2>3 DEF LaneWorks, Over, CycleShape, CycleTypeOK, answers
  <2>4. CASE HostRuns
    BY <1>2, <2>1, <2>4 DEF HostRuns, cycleVars, CycleShape, CycleTypeOK, answers
  <2> QED BY <1>14, <2>2, <2>3, <2>4 DEF Lane
<1>15. CASE Host
  <2>1. Kept
    BY <1>15, HostKeeps
  <2> QED BY <1>2, <1>15, <2>1 DEF Host, cycleVars, CycleShape, CycleTypeOK, answers
<1>16. CASE StopAll
  <2>1. /\ ext' = [k \in Call |-> NoQuery] /\ rejected' = {}
        /\ phase' = "over" /\ verdict' = "stopped" /\ turn' = NoTurn /\ todo' = {}
        /\ collected' = {} /\ awaited' = [id \in Interaction |-> {}]
        /\ round' = 0 /\ budget' = Budget /\ UNCHANGED answers
    BY <1>16 DEF StopAll, Stop, NothingInMemory, Over
  <2>2. NoTurn \in [id : Interaction, calls : SUBSET Call]
    BY DEF NoTurn
  <2> QED BY <2>1, <2>2 DEF CycleShape, CycleTypeOK, answers
<1>17. CASE UNCHANGED allVars
  <2>1. Kept
    BY <1>1, <1>17 DEF allVars
  <2> QED BY <1>2, <1>17, <2>1 DEF allVars, cycleVars, CycleShape, CycleTypeOK, answers
<1> QED BY <1>4, <1>5, <1>6, <1>7, <1>8, <1>9, <1>10, <1>11, <1>12, <1>13, <1>14,
           <1>15, <1>16, <1>17 DEF CycleNext, Cycle

\* Every variable of the cycle keeps its type, the counters stay within their
\* bounds, and the queue knows each query the cycle waits for.
THEOREM CycleTypesHold == CycleSpec => []CycleTypeOK
<1>1. CycleInit => CycleShape
  BY CycleAssumption, InteractionAssumption
  DEF CycleInit, Init, CycleShape, CycleTypeOK, NoTurn
<1>2. CycleShape => CycleTypeOK
  BY DEF CycleShape
<1> QED BY <1>1, <1>2, ShapeStep, QueueInvariants, PTL DEF CycleSpec

-----------------------------------------------------------------------------
(* What a cycle that returns has told the model.                           *)

\* q is due to be rejected, was collected from the turn, is waited for, or was told.
Accounted(q) ==
  \/ q \in rejected
  \/ phase = "ingest" /\ q \in collected
  \/ \E id \in Interaction : q \in awaited[id]
  \/ \E t \in told : t[1] = q

\* Until it stops or raises, a cycle has an account of each query of the model; and
\* a query that was executed is in memory, where a cycle can find it.
Ledger ==
  verdict \in {"none", "returned"} =>
    /\ \A q \in Query : Keyed(q) /\ mem[q].state # "absent" => Accounted(q)
    /\ \A q \in Query : effects[q][0] > 0 => mem[q].state # "absent"
    /\ phase # "ingest" => rejected = {}

\* _model_queries holds the queries of the last turn from its ingestion to its
\* results, and nothing else.
OneTurnAwaited ==
  /\ verdict = "none" => \A id \in Interaction \ {turn.id} : awaited[id] = {}
  /\ phase \in {"idle", "ingest", "send"} \/ verdict = "returned"
       => \A id \in Interaction : awaited[id] = {}
  /\ phase = "ingest" =>
       todo \subseteq turn.calls /\ (turn.calls = {} => collected = {} /\ rejected = {})

\* Every step of the cycle, the lane and the host keeps both.
LEMMA LedgerStep ==
  ReplayInvariant /\ CycleShape /\ Ledger /\ OneTurnAwaited /\ [CycleNext]_allVars
    => Ledger' /\ OneTurnAwaited'
<1> SUFFICES ASSUME ReplayInvariant, CycleShape, Ledger, OneTurnAwaited,
                    [CycleNext]_allVars
             PROVE  Ledger' /\ OneTurnAwaited'
  OBVIOUS
<1>0. /\ TypeOK /\ turn.id \in Interaction /\ todo \subseteq Call
      /\ (verdict # "none" <=> phase = "over")
      /\ awaited \in [Interaction -> SUBSET Query] /\ collected \subseteq Query
      /\ rejected \subseteq Query /\ told \subseteq Query \X State
  BY DEF CycleShape, CycleTypeOK, ReplayInvariant, TypeOK
<1>1. UNCHANGED vars => Kept
  BY DEF vars, queueVars, history, Kept
<1>2. ASSUME UNCHANGED allVars PROVE Ledger' /\ OneTurnAwaited'
  BY <1>2 DEF allVars, vars, queueVars, history, cycleVars, answers, Ledger, Accounted,
              OneTurnAwaited
\* The queue is kept, and every account with it.
<1>3. ASSUME Kept, verdict \in {"none", "returned"},
             \A q \in Query : Accounted(q) => Accounted(q)',
             phase' = "ingest" \/ rejected = {}
      PROVE  Ledger'
  <2>1. \A q \in Query : effects'[q][0] > 0 => mem'[q].state # "absent"
    BY <1>3 DEF Kept, Ledger
  <2>2. \A q \in Query : Keyed(q) /\ mem'[q].state # "absent" => Accounted(q)'
    BY <1>3 DEF Kept, Ledger
  <2> QED BY <1>3, <2>1, <2>2 DEF Ledger, Kept
<1>4. ASSUME phase' = "over", verdict' \in {"raised", "rounds", "budget", "stopped"}
      PROVE  Ledger' /\ OneTurnAwaited'
  BY <1>4 DEF Ledger, OneTurnAwaited
<1>5. ASSUME UNCHANGED <<vars, told, awaited>>, Answers, verdict' = "none",
             \A id \in Interaction : awaited[id] = {}, rejected = {}, verdict = "none",
             phase # "ingest"
      PROVE  Ledger' /\ OneTurnAwaited'
  <2>1. \A q \in Query : Accounted(q) => Accounted(q)'
    BY <1>5 DEF Accounted
  <2>2. Ledger'
    BY <1>1, <1>3, <1>5, <2>1
  <2>3. /\ phase' = "ingest" /\ todo' \subseteq turn'.calls /\ collected' = {}
        /\ rejected' = {}
    BY <1>5 DEF Answers, vars
  <2> QED BY <1>5, <2>2, <2>3 DEF OneTurnAwaited
\* Within the wait, nothing of the account moves.
<1>6. ASSUME Kept, UNCHANGED <<turn, collected, awaited, told, verdict>>,
             phase \notin {"idle", "ingest", "send"},
             phase' \notin {"idle", "ingest", "send"}
      PROVE  Ledger' /\ OneTurnAwaited'
  <2>1. CASE verdict \in {"none", "returned"}
    <3>1. \A q \in Query : Accounted(q) => Accounted(q)'
      BY <1>6 DEF Accounted, Kept
    <3>2. Ledger'
      BY <1>3, <1>6, <2>1, <3>1 DEF Ledger
    <3> QED BY <1>6, <3>2 DEF OneTurnAwaited
  <2>2. CASE verdict \notin {"none", "returned"}
    BY <1>6, <2>2 DEF Ledger, OneTurnAwaited
  <2> QED BY <2>1, <2>2
\* Another thread works on the queue, at whatever place the cycle is.
<1>7. ASSUME Kept, UNCHANGED cycleVars PROVE Ledger' /\ OneTurnAwaited'
  <2>1. \A q \in Query : Accounted(q) => Accounted(q)'
    BY <1>7 DEF Accounted, Kept, cycleVars, answers
  <2>2. Ledger'
    BY <1>7, <2>1 DEF Ledger, Kept, cycleVars
  <2> QED BY <1>7, <2>2 DEF OneTurnAwaited, Kept, cycleVars
<1>8. CASE Prompt
  <2>1. CASE Over("raised")
    BY <1>4, <2>1 DEF Over
  <2>2. CASE Answers /\ UNCHANGED verdict
    BY <1>0, <1>5, <1>8, <2>2 DEF Prompt, answers, Ledger, OneTurnAwaited
  <2> QED BY <1>8, <2>1, <2>2 DEF Prompt
<1>9. CASE IngestKnown
  <2>1. PICK c \in todo : Collect(c, ext[c])
    BY <1>9 DEF IngestKnown
  <2>2. /\ phase = "ingest" /\ verdict = "none"
        /\ UNCHANGED <<vars, phase, turn, awaited, verdict, told>>
    BY <1>0, <1>9 DEF IngestKnown, answers
  <2>3. \A q \in Query : Accounted(q) => Accounted(q)'
    BY <2>1, <2>2 DEF Accounted, Collect, vars
  <2>4. Ledger'
    BY <1>1, <1>3, <2>2, <2>3
  <2> QED BY <2>1, <2>2, <2>4 DEF OneTurnAwaited, Collect
<1>10. CASE IngestNew
  <2>1. PICK c \in todo, q \in Query :
          /\ Key[q] = c /\ Keyed(q) /\ UNCHANGED <<up, effects>>
          /\ \/ /\ mem' = [mem EXCEPT ![q] = Fresh] /\ ext' = [ext EXCEPT ![c] = q]
                /\ \/ rejected' = rejected /\ Collect(c, q)
                   \/ rejected' = rejected \cup {q} /\ UNCHANGED <<todo, collected>>
             \/ /\ UNCHANGED <<mem, ext, todo, collected>>
                /\ rejected' = rejected \cup {q}
    BY <1>0, <1>10, IngestNewKeeps
  <2>2. /\ phase = "ingest" /\ verdict = "none"
        /\ UNCHANGED <<phase, turn, awaited, verdict, told>>
    BY <1>0, <1>10 DEF IngestNew, answers
  <2>3. /\ \A p \in Query : Accounted(p) => Accounted(p)'
        /\ Accounted(q)' \/ mem' = mem
    BY <2>1, <2>2 DEF Accounted, Collect
  <2>4. \A p \in Query \ {q} : mem'[p] = mem[p]
    BY <2>1, <1>0 DEF TypeOK
  <2>5. \A p \in Query : mem[p].state # "absent" => mem'[p].state # "absent"
    BY <2>1, <1>0 DEF TypeOK, Fresh
  <2>6. Ledger'
    BY <2>1, <2>2, <2>3, <2>4, <2>5 DEF Ledger
  <2> QED BY <2>1, <2>2, <2>6 DEF OneTurnAwaited, Collect
<1>11. CASE IngestRejected
  <2>1. PICK q \in rejected :
          /\ rejected' = rejected \ {q} /\ UNCHANGED <<up, ext, effects>>
          /\ \A p \in Query \ {q} : mem'[p] = mem[p]
          /\ mem[q].state # "absent" => mem'[q].state # "absent"
          /\ overruled' \subseteq overruled \cup {q}
          /\ \/ /\ Collect(Key[q], q) /\ UNCHANGED <<phase, verdict>>
                /\ mem'[q].state # "absent"
             \/ Over("raised") /\ UNCHANGED <<todo, collected>>
    BY <1>11, IngestRejectedKeeps
  <2>2. /\ phase = "ingest" /\ verdict = "none"
        /\ UNCHANGED <<turn, awaited, told>>
    BY <1>0, <1>11 DEF IngestRejected
  <2>3. CASE Over("raised")
    BY <1>4, <2>3 DEF Over
  <2>4. CASE Collect(Key[q], q) /\ UNCHANGED <<phase, verdict>>
    <3>1. \A p \in Query : Accounted(p) => Accounted(p)'
      BY <2>1, <2>2, <2>4 DEF Accounted, Collect
    <3>2. Accounted(q)'
      BY <2>2, <2>4 DEF Accounted, Collect
    <3>3. Ledger'
      BY <2>1, <2>2, <2>4, <3>1, <3>2 DEF Ledger
    <3> QED BY <2>1, <2>2, <2>4, <3>3 DEF OneTurnAwaited, Collect
  <2> QED BY <2>1, <2>3, <2>4
<1>12. CASE IngestEnds
  <2>1. /\ phase = "ingest" /\ verdict = "none" /\ rejected = {}
        /\ UNCHANGED <<vars, turn, collected, told>>
        /\ awaited' = [awaited EXCEPT ![turn.id] = collected]
    BY <1>0, <1>12 DEF IngestEnds, answers
  <2>2. /\ awaited'[turn.id] = collected
        /\ \A id \in Interaction \ {turn.id} : awaited'[id] = {}
    BY <1>0, <2>1 DEF OneTurnAwaited
  <2>3. \A q \in Query : Accounted(q) => Accounted(q)'
    BY <1>0, <2>1, <2>2 DEF Accounted, OneTurnAwaited
  <2>4. Ledger'
    BY <1>1, <1>3, <2>1, <2>3
  <2>5. CASE Over("rounds")
    BY <1>4, <2>5 DEF Over
  <2>6. CASE turn.calls = {} /\ Over("returned")
    BY <2>1, <2>2, <2>4, <2>6 DEF Over, OneTurnAwaited
  <2>7. CASE phase' = "wait" /\ UNCHANGED verdict
    BY <2>1, <2>2, <2>4, <2>7 DEF OneTurnAwaited
  <2> QED BY <1>12, <2>5, <2>6, <2>7 DEF IngestEnds, Continue
<1>13. CASE WaitLoop
  <2>1. CASE Over("budget")
    BY <1>4, <2>1 DEF Over
  <2>2. CASE UNCHANGED verdict /\ phase' \in {"answer", "run"}
    BY <1>1, <1>6, <1>13, <2>2 DEF WaitLoop, answers
  <2> QED BY <1>13, <2>1, <2>2 DEF WaitLoop
<1>14. CASE RunPicks \/ RunFindsNothing
  <2>1. Kept
    BY <1>14, LaneKeeps DEF RunPicks, RunFindsNothing, RunOnce, Kept, laneVars, history
  <2> QED BY <1>6, <1>14, <2>1 DEF RunPicks, RunFindsNothing, answers
<1>15. CASE IdleCheck
  BY <1>1, <1>6, <1>15 DEF IdleCheck, answers
<1>16. CASE Answer
  <2>1. /\ phase = "answer" /\ phase' = "send" /\ verdict = "none"
        /\ UNCHANGED <<vars, turn, collected, verdict>>
        /\ told' = told \cup Results
        /\ awaited' = [awaited EXCEPT ![turn.id] = {}]
    BY <1>0, <1>16 DEF Answer
  <2>2. \A id \in Interaction : awaited'[id] = {}
    BY <1>0, <2>1 DEF OneTurnAwaited
  <2>3. \A q \in awaited[turn.id] : \E t \in told' : t[1] = q
    <3>1. \A q \in awaited[turn.id] : <<q, mem[q].state>> \in told'
      BY <2>1 DEF Results
    <3> QED BY <3>1
  <2>4. \A q \in Query : Accounted(q) => Accounted(q)'
    BY <1>0, <2>1, <2>3 DEF Accounted, OneTurnAwaited, vars
  <2>5. Ledger'
    BY <1>1, <1>3, <2>1, <2>4 DEF Ledger
  <2> QED BY <2>1, <2>2, <2>5 DEF OneTurnAwaited
<1>17. CASE Send
  <2>1. CASE Over("raised")
    BY <1>4, <2>1 DEF Over
  <2>2. CASE Answers /\ UNCHANGED verdict
    BY <1>0, <1>5, <1>17, <2>2 DEF Send, answers, Ledger, OneTurnAwaited
  <2> QED BY <1>17, <2>1, <2>2 DEF Send
<1>18. CASE LaneReturns \/ LaneWorks
  <2>1. Kept
    BY <1>18, LaneKeeps DEF LaneReturns, LaneWorks, RunOnce
  <2>2. CASE Over("raised")
    BY <1>4, <2>2 DEF Over
  <2>3. CASE LaneReturns /\ ~ Over("raised")
    BY <1>6, <2>1, <2>3 DEF LaneReturns, answers
  <2>4. CASE LaneWorks /\ ~ Over("raised")
    <3>1. UNCHANGED <<phase, verdict, turn, todo, collected, awaited, told>>
      BY <2>4 DEF LaneWorks, answers
    <3>2. \A q \in Query : Accounted(q) => Accounted(q)'
      BY <2>1, <3>1 DEF Accounted, Kept
    <3>3. Ledger'
      BY <2>1, <3>1, <3>2 DEF Ledger, Kept
    <3> QED BY <2>1, <3>1, <3>3 DEF OneTurnAwaited, Kept
  <2> QED BY <1>18, <2>2, <2>3, <2>4
<1>19. CASE HostRuns
  BY <1>7, <1>19, LaneKeeps DEF HostRuns, RunOnce
<1>20. CASE Host
  BY <1>7, <1>20, HostKeeps DEF Host
<1>21. CASE StopAll
  BY <1>4, <1>21 DEF StopAll, Over
<1> QED BY <1>2, <1>8, <1>9, <1>10, <1>11, <1>12, <1>13, <1>14, <1>15, <1>16, <1>17,
           <1>18, <1>19, <1>20, <1>21 DEF CycleNext, Cycle, Lane

\* A cycle that returns a turn has told the model about every call it executed, for
\* any calls, faults and threads.
THEOREM EffectsAreTold == CycleSpec => []EffectsAreAnswered
<1>1. CycleInit => CycleShape /\ Ledger /\ OneTurnAwaited
  <2>1. CycleInit => CycleShape
    BY CycleAssumption, InteractionAssumption
    DEF CycleInit, Init, CycleShape, CycleTypeOK, NoTurn
  <2>2. CycleInit => Ledger /\ OneTurnAwaited
    BY BoundAssumption
    DEF CycleInit, Init, Ledger, OneTurnAwaited, Absent, Step
  <2> QED BY <2>1, <2>2
<1>2. CycleShape /\ Ledger /\ OneTurnAwaited => EffectsAreAnswered
  <2> SUFFICES ASSUME CycleShape, Ledger, OneTurnAwaited, verdict = "returned",
                      NEW q \in Query, Keyed(q), effects[q][0] > 0
               PROVE  \E t \in told : t[1] = q
    BY DEF EffectsAreAnswered
  <2>1. phase = "over" /\ Accounted(q) /\ rejected = {}
    BY DEF CycleShape, CycleTypeOK, Ledger
  <2> QED BY <2>1 DEF Accounted, OneTurnAwaited
<1> QED BY <1>1, <1>2, ShapeStep, LedgerStep, QueueInvariants, PTL DEF CycleSpec

-----------------------------------------------------------------------------
(* What the model is told of a completion.                                 *)

\* Where the cycle alone runs the lane, the lane is idle outside its run.
LaneOwned == ~ hostLane /\ phase \notin {"lane", "over"} => pc = "idle"

\* Every step of the cycle, the lane and the host keeps it.
LEMMA LaneOwnedStep == LaneOwned /\ [CycleNext]_allVars => LaneOwned'
<1> SUFFICES ASSUME LaneOwned, [CycleNext]_allVars PROVE LaneOwned'
  OBVIOUS
<1>0. UNCHANGED hostLane
  BY DEF CycleNext, Cycle, Lane, allVars, cycleVars
<1>1. ASSUME UNCHANGED pc, phase \notin {"lane", "over"} PROVE LaneOwned'
  BY <1>0, <1>1 DEF LaneOwned
<1>2. ASSUME phase' \in {"lane", "over"} \/ pc' = "idle" PROVE LaneOwned'
  BY <1>2 DEF LaneOwned
<1>3. ASSUME UNCHANGED <<pc, phase>> PROVE LaneOwned'
  BY <1>0, <1>3 DEF LaneOwned
<1>4. CASE Prompt \/ IngestKnown \/ IngestEnds \/ WaitLoop \/ IdleCheck \/ Answer \/ Send
  BY <1>1, <1>4 DEF Prompt, IngestKnown, IngestEnds, WaitLoop, IdleCheck, Answer, Send,
                    vars, laneVars
<1>5. CASE IngestNew
  BY <1>1, <1>5 DEF IngestNew, SubmitAdmitted, SubmitNotSaved, SubmitRefused, laneVars
<1>6. CASE IngestRejected
  BY <1>1, <1>6 DEF IngestRejected, RecordFailed, laneVars
<1>7. CASE RunPicks \/ RunFindsNothing \/ LaneReturns
  BY <1>2, <1>7 DEF RunPicks, RunFindsNothing, LaneReturns, Finish, Goto, laneVars
<1>8. CASE LaneWorks
  <2>1. pc # "idle"
    BY <1>8 DEF LaneWorks, MarkRunning, SaveRunning, SaveRunningFails, RefuseStep,
                SaveRefused, ExecuteTool, RecordResult, SaveResult, SaveResultFails,
                SaveResume, Requeue
  <2>2. UNCHANGED phase \/ phase' = "over"
    BY <1>8 DEF LaneWorks, Over
  <2> QED BY <1>0, <2>1, <2>2 DEF LaneOwned
<1>9. CASE HostRuns
  <2>1. UNCHANGED phase
    BY <1>9 DEF HostRuns, cycleVars
  <2>2. hostLane \/ pc' = "idle"
    BY <1>9 DEF HostRuns, Finish, Goto
  <2> QED BY <1>0, <1>2, <2>1, <2>2 DEF LaneOwned
<1>10. CASE Host
  BY <1>3, <1>10 DEF Host, SubmitAdmitted, SubmitNotSaved, Operator, ResolveCancel,
                     ResolveRequeue, cycleVars, laneVars
<1>11. CASE StopAll
  BY <1>2, <1>11 DEF StopAll, Over
<1>12. CASE UNCHANGED allVars
  BY <1>3, <1>12 DEF allVars, vars, laneVars, cycleVars
<1> QED BY <1>4, <1>5, <1>6, <1>7, <1>8, <1>9, <1>10, <1>11, <1>12
        DEF CycleNext, Cycle, Lane

\* A query the model is told is completed is completed on disk, unless another
\* thread's lane is still saving it, whatever fails and whoever runs.
THEOREM CompletionsToldAreDurable == CycleSpec => CompletedAnswersAreDurable
<1> DEFINE Step1 == \A t \in told' \ told :
                      t[2] = "completed" =>
                        \/ disk[t[1]].state = "completed"
                        \/ hostLane /\ active = t[1] /\ pc = "save_result"
<1>1. CycleInit => CycleShape /\ LaneOwned
  BY CycleAssumption, InteractionAssumption
  DEF CycleInit, Init, CycleShape, CycleTypeOK, NoTurn, LaneOwned
<1>2. CompletedOnDisk /\ CycleShape /\ LaneOwned /\ [CycleNext]_allVars => [Step1]_allVars
  <2> SUFFICES ASSUME CompletedOnDisk, CycleShape, LaneOwned, CycleNext,
                      NEW t \in told' \ told, t[2] = "completed"
               PROVE  \/ disk[t[1]].state = "completed"
                      \/ hostLane /\ active = t[1] /\ pc = "save_result"
    OBVIOUS
  <2>1. Answer
    BY DEF CycleNext, Cycle, Prompt, IngestKnown, IngestNew, IngestRejected, IngestEnds,
           WaitLoop, RunPicks, RunFindsNothing, IdleCheck, Send, Lane, LaneWorks,
           LaneReturns, HostRuns, Host, StopAll, cycleVars, answers
  <2>2. PICK q \in awaited[turn.id] : t = <<q, mem[q].state>>
    BY <2>1 DEF Answer, Results
  <2>3. q \in Query /\ t[1] = q /\ mem[q].state = "completed"
    BY <2>2 DEF CycleShape, CycleTypeOK
  <2>4. ~ hostLane => pc = "idle"
    BY <2>1 DEF Answer, LaneOwned
  <2> QED BY <2>3, <2>4 DEF CompletedOnDisk
<1> QED BY <1>1, <1>2, ShapeStep, LaneOwnedStep, QueueInvariants, PTL
        DEF CycleSpec, CompletedAnswersAreDurable

-----------------------------------------------------------------------------
(* What the model is told does not change afterwards.                      *)

\* A RUNNING that cannot be saved is audited: no behaviour has room for both faults.
RefusalIsAudited ==
  \/ MaxFaults <= 1
  \/ "audit" \notin Faults
  \/ Faults \cap {"fail", "torn"} = {}

\* Execution knows where q is: queued and on its way, running on the lane, or neither.
InPlace(q) ==
  /\ mem[q].state # "paused"
  /\ mem[q].state = "queued" =>
       (\E e \in heap : e.id = q) \/ (active = q /\ pc \in {"picked", "save_result", "requeue"})
  /\ mem[q].state = "running" => active = q /\ pc \in {"save_running", "ready", "executed"}
  /\ active = q =>
       /\ pc \in {"picked", "requeue"} => mem[q].state = "queued"
       /\ pc \in {"save_running", "ready", "executed"} => mem[q].state = "running"
       /\ pc = "save_result" => /\ mem[q].state = snap.state
                                /\ snap.state \in {"queued", "failed", "completed"}
       /\ pc # "save_resume"

\* A query that is in its place stays there, and stays settled once it is, as long as the
\* process runs, the operator does not requeue it and record_failed does not overrule
\* the lane.
LEMMA PlaceStep ==
  ASSUME ReplayInvariant, RefusalIsAudited \/ faults' <= 1, [Next]_vars, up' => up,
         NEW q \in Query, Keyed(q), InPlace(q), requeues'[q] = 0,
         RecordFailed(q) => active # q
  PROVE  /\ InPlace(q)'
         /\ up' /\ mem[q].state \in Settled => mem'[q].state \in Settled
<1> USE DEF ReplayInvariant
<1> DEFINE Goal == /\ InPlace(q)'
                   /\ up' /\ mem[q].state \in Settled => mem'[q].state \in Settled
           InHeap == \E e \in heap : e.id = q
<1>1. /\ pc # "idle" => active \in Query
      /\ pc = "idle" => active \notin Query
      /\ mem \in [Query -> Record]
      /\ requeues[q] \in Nat
      /\ Type[q] = "Aquery"
      /\ pc # "idle" => mem[active].state # "absent"
  BY KeyAssumption, QueryAssumption DEF TypeOK, LaneShape, Keyed
<1>2. ASSUME NEW p \in Query, NEW t \in State, SetState(p, t)
      PROVE  \A r \in Query : mem'[r] = IF r = p THEN In(mem[p], t) ELSE mem[r]
  BY <1>1, <1>2 DEF SetState
<1>3. ASSUME NEW t \in State PROVE In(mem[q], t).state = t
  BY <1>1, <1>3, InType
<1>4. /\ {"absent", "queued", "running", "paused", "completed", "failed", "cancelled",
          "recovery_required"} = State
      /\ Settled = {"completed", "failed", "cancelled", "recovery_required"}
  BY DEF State, Unsettled, Terminal, Settled
<1> HIDE DEF Goal
\* Nothing happens to q.
<1>5. ASSUME mem'[q] = mem[q], InHeap => InHeap', UNCHANGED <<active, pc, snap>>
      PROVE  Goal
  BY <1>5 DEF Goal, InPlace
\* A client or the operator settles q.
<1>6. ASSUME mem'[q].state \in Settled, active # q, active' = active PROVE Goal
  BY <1>4, <1>6 DEF Goal, InPlace
\* The lane works on another query.
<1>7. ASSUME mem'[q] = mem[q], InHeap => InHeap', active # q, active' # q PROVE Goal
  BY <1>7 DEF Goal, InPlace
<1>8. ASSUME NEW p \in Query, Push(p) PROVE heap \subseteq heap' /\ (p = q => InHeap')
  <2>1. [seq |-> sequence + 1, id |-> p] \in heap'
    BY <1>8 DEF Push
  <2> QED BY <1>8, <2>1 DEF Push
<1>9. ASSUME NEW p \in Query, Client(p) PROVE Goal
  <2>1. ASSUME SubmitRefused(p) \/ SubmitNotSaved(p) PROVE Goal
    BY <1>5, <2>1 DEF SubmitRefused, SubmitNotSaved, queueVars, laneVars
  <2>2. ASSUME SubmitAdmitted(p) PROVE Goal
    <3>1. /\ mem' = [mem EXCEPT ![p] = Fresh] /\ Push(p)
          /\ UNCHANGED <<active, pc, snap>> /\ mem[p].state = "absent"
      BY <2>2 DEF SubmitAdmitted, IsNew
    <3>2. CASE p = q
      <4>1. mem'[q].state = "queued" /\ InHeap' /\ active # q
        BY <1>1, <1>8, <3>1, <3>2 DEF Fresh
      <4> QED BY <1>4, <3>1, <3>2, <4>1 DEF Goal, InPlace
    <3>3. CASE p # q
      BY <1>1, <1>5, <1>8, <3>1, <3>3
    <3> QED BY <3>2, <3>3
  <2>3. ASSUME RecordFailed(p) PROVE Goal
    <3> DEFINE r == In(IF mem[p].state = "absent" THEN Fresh ELSE mem[p], "failed")
    <3>1. r.state = "failed"
      BY <1>1, FreshTypes, InType DEF State, Terminal
    <3>2. mem' = mem \/ mem' = [mem EXCEPT ![p] = r]
      BY <2>3 DEF RecordFailed
    <3>3. UNCHANGED <<heap, active, pc, snap>>
      BY <2>3 DEF RecordFailed, laneVars
    <3> HIDE DEF r
    <3>4. CASE mem'[q] = mem[q]
      BY <1>5, <3>3, <3>4
    <3>5. CASE mem'[q] # mem[q]
      BY <1>1, <1>4, <1>6, <2>3, <3>1, <3>2, <3>3, <3>5
    <3> QED BY <3>4, <3>5
  <2> QED BY <1>9, <2>1, <2>2, <2>3 DEF Client
<1>10. ASSUME NEW p \in Query, ResolveCancel(p) PROVE Goal
  <2>1. /\ SetState(p, "cancelled") /\ AwaitsRecovery(p)
        /\ UNCHANGED <<heap, active, pc, snap>>
    BY <1>10 DEF ResolveCancel, laneVars
  <2>2. CASE p = q
    <3>1. mem[q].state = "recovery_required" /\ mem'[q].state = "cancelled"
      BY <1>2, <1>3, <1>4, <2>1, <2>2 DEF AwaitsRecovery
    <3> QED BY <1>4, <2>1, <3>1 DEF Goal, InPlace
  <2>3. CASE p # q
    BY <1>2, <1>4, <1>5, <2>1, <2>3
  <2> QED BY <2>2, <2>3
<1>11. ASSUME NEW p \in Query, ResolveRequeue(p) PROVE Goal
  <2>1. /\ SetState(p, "queued") /\ UNCHANGED <<active, pc, snap>>
        /\ requeues' = [requeues EXCEPT ![p] = @ + 1]
        /\ Push(p) \/ UNCHANGED heap
    BY <1>11 DEF ResolveRequeue, laneVars
  <2>2. p # q
    BY <1>1, <2>1 DEF TypeOK
  <2> QED BY <1>2, <1>4, <1>5, <1>8, <2>1, <2>2
<1>12. ASSUME Pick PROVE Goal
  <2>1. PICK e \in Ready : /\ \A d \in Ready \ {e} : Before(e, d)
                           /\ heap' = AfterPop(e) /\ active' = e.id
    BY <1>12 DEF Pick
  <2>2. mem' = mem /\ pc = "idle" /\ pc' = "picked"
    BY <1>12 DEF Pick, Goto
  <2>3. CASE e.id = q
    <3>1. mem'[q].state = "queued"
      BY <2>1, <2>2, <2>3 DEF Ready
    <3> QED BY <1>4, <2>1, <2>2, <2>3, <3>1 DEF Goal, InPlace
  <2>4. CASE e.id # q
    <3>1. mem[q].state = "queued" => InHeap'
      <4>1. SUFFICES ASSUME mem[q].state = "queued" PROVE InHeap'
        OBVIOUS
      <4>2. PICK d \in heap : d.id = q
        BY <2>2, <4>1 DEF InPlace
      <4>3. d \in Ready \ {e}
        BY <2>4, <4>1, <4>2 DEF Ready
      <4> QED BY <2>1, <4>2, <4>3 DEF AfterPop
    <3> QED BY <1>1, <2>1, <2>2, <2>4, <3>1 DEF Goal, InPlace
  <2> QED BY <2>3, <2>4
<1>13. ASSUME FindIdle PROVE Goal
  <2>1. mem' = mem /\ pc = "idle" /\ Ready = {} /\ UNCHANGED <<active, pc, snap>>
    BY <1>13 DEF FindIdle, laneVars
  <2>2. ~ (mem[q].state = "queued" /\ InHeap)
    BY <2>1 DEF Ready
  <2> QED BY <1>1, <2>1, <2>2 DEF Goal, InPlace
\* Inside run_once: what the lane does to another query, it does not do to q.
<1> DEFINE Elsewhere == pc # "idle" /\ mem'[q] = mem[q] /\ heap \subseteq heap'
                        /\ active' \in {active, NoQuery}
<1>14. ASSUME Elsewhere, active # q PROVE Goal
  BY <1>7, <1>14, QueryAssumption
<1>15. ASSUME MarkRunning PROVE Goal
  <2>1. pc = "picked" /\ UNCHANGED <<heap, active>> /\ active \in Query
    BY <1>1, <1>15 DEF MarkRunning
  <2>2. CASE active = q
    <3>1. mem[q].state = "queued"
      BY <2>1, <2>2 DEF InPlace
    <3>2. mem' = [mem EXCEPT ![q] = RunningRecord] /\ pc' = "save_running"
      BY <1>15, <2>2, <3>1 DEF MarkRunning, Allowed, Goto
    <3>3. mem'[q].state = "running"
      BY <1>1, <1>3, <1>4, <2>2, <3>2 DEF RunningRecord
    <3> QED BY <1>4, <2>1, <2>2, <3>1, <3>2, <3>3 DEF Goal, InPlace
  <2>3. CASE active # q
    <3>1. mem'[q] = mem[q]
      BY <1>1, <1>2, <1>4, <1>15, <2>1, <2>3 DEF MarkRunning, RunningNotPersisted
    <3> QED BY <1>14, <2>1, <2>3, <3>1
  <2> QED BY <2>2, <2>3
<1>16. ASSUME SaveRunning \/ ExecuteTool PROVE Goal
  <2>1. /\ pc \in {"save_running", "ready"} /\ pc' \in {"ready", "executed"}
        /\ UNCHANGED <<mem, heap, active>>
    BY <1>16 DEF SaveRunning, ExecuteTool, Goto, queueVars
  <2> QED BY <1>4, <2>1 DEF Goal, InPlace
<1>17. ASSUME SaveRunningFails PROVE Goal
  <2>1. /\ pc = "save_running" /\ UNCHANGED <<heap, active>> /\ active \in Query
        /\ SetState(active, "queued") /\ faults \in Nat /\ MaxFaults \in Nat
    BY <1>1, <1>17, BoundAssumption DEF SaveRunningFails, TypeOK
  <2>2. pc' = "requeue"
    <3>1. ASSUME faults' = faults + 2 PROVE ~ (RefusalIsAudited \/ faults' <= 1)
                                            \/ ~ ("audit" \in Faults /\ faults + 1 < MaxFaults)
                                            \/ SaveFaults = {}
      BY <2>1, <3>1 DEF SaveFaults, Injectable, RefusalIsAudited
    <3> QED BY <1>17, <3>1 DEF SaveRunningFails, Goto
  <2>3. CASE active = q
    <3>1. mem[q].state = "running" /\ mem'[q].state = "queued"
      BY <1>2, <1>3, <1>4, <2>1, <2>3 DEF InPlace
    <3> QED BY <1>4, <2>1, <2>2, <2>3, <3>1 DEF Goal, InPlace
  <2>4. CASE active # q
    BY <1>2, <1>4, <1>14, <2>1, <2>4
  <2> QED BY <2>3, <2>4
<1>18. ASSUME RefuseStep \/ SaveResultFails PROVE Goal
  <2>1. /\ pc \in {"ready", "save_result"} /\ pc' \in {"save_refused", "finish"}
        /\ UNCHANGED <<heap, active>> /\ active \in Query
        /\ SetState(active, "recovery_required")
    BY <1>1, <1>18 DEF RefuseStep, SaveResultFails, Goto
  <2>2. CASE active = q
    <3>1. mem'[q].state = "recovery_required"
      BY <1>2, <1>3, <1>4, <2>1, <2>2
    <3> QED BY <1>4, <2>1, <2>2, <3>1 DEF Goal, InPlace
  <2>3. CASE active # q
    BY <1>2, <1>4, <1>14, <2>1, <2>3
  <2> QED BY <2>2, <2>3
<1>19. ASSUME SaveRefused PROVE Goal
  <2>1. pc = "save_refused" /\ pc' = "finish" /\ UNCHANGED <<mem, heap, active>>
    BY <1>19 DEF SaveRefused, Goto, queueVars
  <2> QED BY <1>4, <2>1 DEF Goal, InPlace
<1>20. ASSUME RecordResult PROVE Goal
  <2> DEFINE next == mem[active].next_step + 1
             target == ResultState(active, next)
             Advanced(s) == [state |-> s, next_step |-> next]
  <2>1. pc = "executed" /\ UNCHANGED <<heap, active>> /\ active \in Query
    BY <1>1, <1>20 DEF RecordResult
  <2>2. CASE active = q
    <3>1. target \in {"failed", "completed", "queued"}
      BY <1>1, <2>2 DEF ResultState
    <3>2. mem[q].state = "running"
      BY <2>1, <2>2 DEF InPlace
    <3>3. <<mem[active].state, target>> \in Allowed
      BY <2>2, <3>1, <3>2 DEF Allowed
    <3> HIDE DEF target
    <3>4. mem' = [mem EXCEPT ![q] = Advanced(target)] /\ snap' = Advanced(target)
          /\ pc' = "save_result"
      BY <1>20, <2>2, <3>3 DEF RecordResult, Goto, target
    <3>5. mem'[q].state = target /\ snap'.state = target
      BY <1>1, <3>4
    <3> QED BY <1>4, <2>1, <2>2, <3>1, <3>2, <3>4, <3>5 DEF Goal, InPlace
  <2>3. CASE active # q
    <3>1. mem'[q] = mem[q]
      BY <1>1, <1>20, <2>1, <2>3 DEF RecordResult
    <3> QED BY <1>14, <2>1, <2>3, <3>1
  <2> QED BY <2>2, <2>3
<1>21. ASSUME SaveResult PROVE Goal
  <2>1. pc = "save_result" /\ UNCHANGED <<heap, active>> /\ active \in Query
    BY <1>1, <1>21 DEF SaveResult
  <2>2. CASE active = q
    <3>1. mem[q].state = snap.state /\ snap.state \in {"queued", "failed", "completed"}
      BY <2>1, <2>2 DEF InPlace
    <3>2. /\ mem' = mem
          /\ pc' = IF snap.state = "queued" THEN "requeue" ELSE "finish"
      BY <1>21, <3>1 DEF SaveResult, Goto
    <3> QED BY <1>4, <2>1, <2>2, <3>1, <3>2 DEF Goal, InPlace
  <2>3. CASE active # q
    <3>1. mem'[q] = mem[q]
      BY <1>2, <1>4, <1>21, <2>1, <2>3 DEF SaveResult
    <3> QED BY <1>14, <2>1, <2>3, <3>1
  <2> QED BY <2>2, <2>3
<1>22. ASSUME SaveResume PROVE Goal
  <2>1. pc = "save_resume" /\ UNCHANGED <<heap, active>> /\ active \in Query
    BY <1>1, <1>22 DEF SaveResume
  <2>2. active # q
    BY <2>1 DEF InPlace
  <2>3. mem'[q] = mem[q]
    BY <1>2, <1>4, <1>22, <2>1, <2>2 DEF SaveResume
  <2> QED BY <1>14, <2>1, <2>2, <2>3
<1>23. ASSUME Requeue PROVE Goal
  <2>1. /\ pc = "requeue" /\ pc' = "finish" /\ UNCHANGED <<mem, active>>
        /\ Push(active) /\ active \in Query
    BY <1>1, <1>23 DEF Requeue, Goto
  <2>2. CASE active = q
    <3>1. InHeap' /\ mem[q].state = "queued"
      BY <1>8, <2>1, <2>2 DEF InPlace
    <3> QED BY <1>4, <2>1, <2>2, <3>1 DEF Goal, InPlace
  <2>3. CASE active # q
    BY <1>8, <1>14, <2>1, <2>3
  <2> QED BY <2>2, <2>3
<1>24. ASSUME Finish PROVE Goal
  <2>1. /\ pc = "finish" /\ pc' = "idle" /\ active' = NoQuery
        /\ UNCHANGED <<mem, heap>>
    BY <1>24 DEF Finish, Goto, queueVars
  <2>2. active' # q
    BY <2>1, QueryAssumption
  <2> QED BY <1>4, <2>1, <2>2 DEF Goal, InPlace
<1>25. ASSUME Stop PROVE Goal
  <2>1. ~ up' /\ mem'[q].state = "absent" /\ pc' = "idle" /\ active' # q
    BY <1>25, QueryAssumption DEF Stop, NothingInMemory, Absent
  <2> QED BY <2>1 DEF Goal, InPlace
<1>26. ~ Start
  BY DEF Start
<1>27. ASSUME UNCHANGED vars PROVE Goal
  BY <1>5, <1>27 DEF vars, queueVars, laneVars
<1>28. Goal
  BY <1>9, <1>10, <1>11, <1>12, <1>13, <1>15, <1>16, <1>17, <1>18, <1>19, <1>20, <1>21,
     <1>22, <1>23, <1>24, <1>25, <1>26, <1>27
  DEF Next, Operator, RunOnce
<1> QED BY <1>28 DEF Goal

\* A query of a model call that neither the operator nor a failed audit append took
\* out of the hands of the lane.
Ordinary(q) == Keyed(q) /\ requeues[q] = 0 /\ ~ Contested(q)

\* Ordinary queries are in their place.
CallsInPlace == \A q \in Query : Ordinary(q) => InPlace(q)

\* What the cycle is about to answer, and what it has answered, is settled.
AnswersStand ==
  /\ \A t \in told : Keyed(t[1]) /\ (Ordinary(t[1]) => t[2] \in Settled)
  /\ up =>
       /\ phase \in {"check", "answer"} =>
            \A q \in awaited[turn.id] : Ordinary(q) => mem[q].state \in Settled
       /\ \A t \in told : Ordinary(t[1]) => mem[t[1]].state \in Settled

\* The cycle does not restart the process, does not forget whom it overruled, and
\* overrules a query only while it ingests a turn.
LEMMA OverruledGrows ==
  ASSUME ReplayInvariant, CycleShape, [CycleNext]_allVars
  PROVE  /\ UNCHANGED hostLane /\ overruled \subseteq overruled' /\ (up' => up)
         /\ \A q \in Query : RecordFailed(q) =>
              phase = "ingest" /\ (mem[q].state = "absent" \/ q \in overruled')
<1> DEFINE Overrules == \A q \in Query : RecordFailed(q) =>
                          phase = "ingest" /\ (mem[q].state = "absent" \/ q \in overruled')
           Goal == overruled \subseteq overruled' /\ (up' => up) /\ Overrules
<1>1. UNCHANGED hostLane
  BY DEF CycleNext, Cycle, Lane, allVars, cycleVars
<1> SUFFICES Goal
  BY <1>1
<1>2. ASSUME rejected \subseteq rejected', UNCHANGED <<up, overruled>> PROVE Goal
  BY <1>2 DEF RecordFailed
<1>3. ASSUME UNCHANGED vars, UNCHANGED overruled PROVE Goal
  BY <1>2, <1>3 DEF vars
<1>4. CASE Prompt \/ IngestKnown \/ IngestEnds \/ WaitLoop \/ IdleCheck \/ Answer \/ Send
  BY <1>3, <1>4 DEF Prompt, IngestKnown, IngestEnds, WaitLoop, IdleCheck, Answer, Send,
                    answers
<1>5. CASE IngestNew
  <2>1. todo \subseteq Call
    BY DEF CycleShape, CycleTypeOK
  <2>2. rejected \subseteq rejected' /\ up' = up
    BY <1>5, <2>1, IngestNewKeeps
  <2> QED BY <1>2, <1>5, <2>2 DEF IngestNew, answers
<1>6. CASE IngestRejected
  <2>1. PICK q \in Query :
          /\ RecordFailed(q)
          /\ overruled' = IF mem[q].state = "absent" THEN overruled ELSE overruled \cup {q}
    BY <1>6 DEF IngestRejected
  <2>2. UNCHANGED up /\ q \in rejected /\ rejected' = rejected \ {q}
    BY <2>1 DEF RecordFailed
  <2>3. ASSUME NEW p \in Query, RecordFailed(p) PROVE p = q
    BY <2>2, <2>3 DEF RecordFailed
  <2>4. phase = "ingest"
    BY <1>6 DEF IngestRejected
  <2> QED BY <2>1, <2>2, <2>3, <2>4
<1>7. CASE RunPicks \/ RunFindsNothing
  BY <1>2, <1>7 DEF RunPicks, RunFindsNothing, Pick, answers
<1>8. CASE Lane
  <2>1. RunOnce /\ UNCHANGED overruled
    BY <1>8 DEF Lane, LaneWorks, LaneReturns, HostRuns, RunOnce, cycleVars, answers
  <2> QED BY <1>2, <2>1, LaneKeeps DEF Kept
<1>9. CASE Host
  BY <1>2, <1>9, HostKeeps DEF Kept, Host, cycleVars, answers
<1>10. CASE StopAll
  <2>1. ~ up' /\ up /\ UNCHANGED overruled
    BY <1>10 DEF StopAll, Stop, answers
  <2> QED BY <2>1 DEF RecordFailed
<1>11. CASE UNCHANGED allVars
  BY <1>3, <1>11 DEF allVars, cycleVars, answers
<1> QED BY <1>4, <1>5, <1>6, <1>7, <1>8, <1>9, <1>10, <1>11 DEF CycleNext, Cycle

\* The operator's requeues are never taken back, and faults are counted.
LEMMA HistoryGrows ==
  ASSUME TypeOK, [Next]_vars, up' => up
  PROVE  /\ \A q \in Query : requeues'[q] >= requeues[q]
         /\ faults' >= faults
<1>1. requeues \in [Query -> Nat] /\ faults \in Nat
  BY DEF TypeOK
<1>2. ~ Start
  BY DEF Start
<1>3. faults' \in {faults, faults + 1, faults + 2}
  BY <1>1, <1>2 DEF Next, Client, SubmitRefused, SubmitNotSaved, SubmitAdmitted,
     RecordFailed, Operator, ResolveCancel, ResolveRequeue, RunOnce, Pick, FindIdle,
     MarkRunning, RunningNotPersisted, SaveRunning, SaveRunningFails, RefuseStep,
     SaveRefused, ExecuteTool, RecordResult, SaveResult, SaveResultFails, SaveResume,
     Requeue, Finish, Stop, Save, vars
<1>4. CASE UNCHANGED requeues
  BY <1>1, <1>3, <1>4
<1>5. CASE \E p \in Query : ResolveRequeue(p)
  BY <1>1, <1>3, <1>5 DEF ResolveRequeue
<1>6. \/ UNCHANGED requeues
      \/ \E p \in Query : ResolveRequeue(p)
  BY <1>2 DEF Next, Client, SubmitRefused, SubmitNotSaved, SubmitAdmitted, RecordFailed,
     Operator, ResolveCancel, RunOnce, Pick, FindIdle, MarkRunning, SaveRunning,
     SaveRunningFails, RefuseStep, SaveRefused, ExecuteTool, RecordResult, SaveResult,
     SaveResultFails, SaveResume, Requeue, Finish, Stop, vars
<1> QED BY <1>4, <1>5, <1>6

\* A query that is ordinary was so before, and stays in its place and settled.
LEMMA OrdinaryStep ==
  ASSUME ReplayInvariant, RefusalIsAudited \/ faults' <= 1, CycleShape, LaneOwned,
         CallsInPlace, [CycleNext]_allVars, NEW q \in Query, Ordinary(q)'
  PROVE  /\ Ordinary(q) /\ InPlace(q)'
         /\ up' /\ mem[q].state \in Settled => mem'[q].state \in Settled
<1>1. [Next]_vars /\ TypeOK
  BY CycleStepsAreQueueSteps DEF ReplayInvariant
<1>2. UNCHANGED hostLane /\ overruled \subseteq overruled' /\ (up' => up)
  BY OverruledGrows
<1>3. requeues'[q] = 0 /\ requeues[q] = 0
  BY <1>1, <1>2, HistoryGrows DEF Ordinary, TypeOK
<1>4. Ordinary(q)
  BY <1>2, <1>3 DEF Ordinary, Contested, Keyed
<1>5. Keyed(q) /\ InPlace(q)
  BY <1>4 DEF CallsInPlace, Ordinary
<1>6. ASSUME RecordFailed(q) PROVE active # q
  <2>1. phase = "ingest" /\ (mem[q].state = "absent" \/ q \in overruled')
    BY <1>6, OverruledGrows
  <2>2. CASE mem[q].state = "absent"
    BY <1>1, <2>2, QueryAssumption DEF ReplayInvariant, LaneShape, TypeOK
  <2>3. CASE q \in overruled'
    <3>1. ~ hostLane
      BY <1>2, <2>3 DEF Ordinary, Contested
    <3>2. pc = "idle"
      BY <2>1, <3>1 DEF LaneOwned
    <3> QED BY <1>1, <3>2, QueryAssumption DEF TypeOK
  <2> QED BY <2>1, <2>2, <2>3
<1>7. /\ InPlace(q)'
      /\ up' /\ mem[q].state \in Settled => mem'[q].state \in Settled
  BY <1>1, <1>2, <1>3, <1>5, <1>6, PlaceStep
<1> QED BY <1>4, <1>7

\* How the cycle comes to check and to answer.
LEMMA CheckIsReached ==
  ASSUME [CycleNext]_allVars, phase' \in {"check", "answer"}
  PROVE  \/ WaitLoop /\ AllSettled /\ UNCHANGED <<vars, turn, awaited>>
         \/ RunFindsNothing /\ UNCHANGED <<turn, awaited>>
         \/ IdleCheck /\ UNCHANGED <<vars, turn, awaited>>
         \/ UNCHANGED <<phase, turn, awaited>>
<1>1. ASSUME Cycle
      PROVE  WaitLoop \/ RunFindsNothing \/ IdleCheck
  BY <1>1 DEF Cycle, Prompt, IngestKnown, IngestNew, IngestRejected, IngestEnds, Continue,
              RunPicks, Answer, Send, Answers, Over
<1>2. ASSUME WaitLoop \/ RunFindsNothing \/ IdleCheck
      PROVE  \/ WaitLoop /\ AllSettled /\ UNCHANGED <<vars, turn, awaited>>
             \/ RunFindsNothing /\ UNCHANGED <<turn, awaited>>
             \/ IdleCheck /\ UNCHANGED <<vars, turn, awaited>>
  BY <1>2 DEF WaitLoop, RunFindsNothing, IdleCheck, Over
<1>3. ASSUME Lane \/ Host \/ StopAll \/ UNCHANGED allVars
      PROVE  UNCHANGED <<phase, turn, awaited>>
  BY <1>3 DEF Lane, LaneWorks, LaneReturns, HostRuns, Host, StopAll, Over, allVars, cycleVars
<1> QED BY <1>1, <1>2, <1>3 DEF CycleNext

\* Where the queue knows the place of an ordinary query and the lane finds nothing to
\* do, the query is settled.
LEMMA NothingLeft ==
  ASSUME TypeOK, RunFindsNothing, NEW q \in Query, InPlace(q), mem[q].state # "absent"
  PROVE  mem[q].state \in Settled
<1>1. /\ mem[q].state \in State
      /\ active # q /\ ~ \E e \in heap : e.id = q /\ mem[q].state = "queued"
  BY QueryAssumption DEF TypeOK, Record, RunFindsNothing, Ready
<1> QED BY <1>1 DEF InPlace, State, Unsettled, Settled, RunFindsNothing

\* Every step of the cycle, the lane and the host keeps both.
LEMMA AnswersStep ==
  ASSUME RefusalIsAudited \/ faults' <= 1, ReplayInvariant, CycleShape, LaneOwned,
         CallsInPlace, AnswersStand, [CycleNext]_allVars
  PROVE  CallsInPlace' /\ AnswersStand'
<1>1. /\ TypeOK /\ turn.id \in Interaction /\ told \subseteq Query \X State
      /\ \A id \in Interaction : \A q \in awaited[id] :
           q \in Query /\ Keyed(q) /\ mem[q].state # "absent"
  BY DEF ReplayInvariant, CycleShape, CycleTypeOK
<1>2. up' => up
  BY OverruledGrows
<1>3. ASSUME NEW q \in Query, Ordinary(q)'
      PROVE  /\ Ordinary(q) /\ InPlace(q)'
             /\ up' /\ mem[q].state \in Settled => mem'[q].state \in Settled
  BY <1>3, OrdinaryStep
<1>4. CallsInPlace'
  BY <1>3 DEF CallsInPlace
\* What was told before.
<1>5. ASSUME NEW t \in told
      PROVE  /\ Keyed(t[1])
             /\ Ordinary(t[1])' => t[2] \in Settled /\ (up' => mem'[t[1]].state \in Settled)
  <2>1. t[1] \in Query /\ Keyed(t[1])
    BY <1>1, <1>5 DEF AnswersStand
  <2> QED BY <1>2, <1>3, <1>5, <2>1 DEF AnswersStand
\* What is told in this step.
<1>6. ASSUME NEW t \in told', t \notin told
      PROVE  /\ Keyed(t[1])
             /\ Ordinary(t[1])' => t[2] \in Settled /\ (up' => mem'[t[1]].state \in Settled)
  <2>1. Answer
    BY <1>6 DEF CycleNext, Cycle, Prompt, IngestKnown, IngestNew, IngestRejected,
       IngestEnds, WaitLoop, RunPicks, RunFindsNothing, IdleCheck, Send, Lane, LaneWorks,
       LaneReturns, HostRuns, Host, StopAll, allVars, cycleVars, answers
  <2>2. PICK q \in awaited[turn.id] : t = <<q, mem[q].state>>
    BY <1>6, <2>1 DEF Answer, Results
  <2>3. q \in Query /\ Keyed(q) /\ up /\ phase = "answer"
    BY <1>1, <2>1, <2>2 DEF Answer
  <2>4. Ordinary(q)' => Ordinary(q) /\ mem[q].state \in Settled
    BY <1>3, <2>2, <2>3 DEF AnswersStand
  <2> QED BY <1>3, <2>2, <2>3, <2>4
<1>7. ASSUME up', phase' \in {"check", "answer"}, NEW q \in awaited'[turn'.id], Ordinary(q)'
      PROVE  mem'[q].state \in Settled
  <2>1. turn' = turn /\ awaited' = awaited
    BY <1>7, CheckIsReached
  <2>2. q \in awaited[turn.id] /\ q \in Query /\ Keyed(q) /\ mem[q].state # "absent"
    BY <1>1, <1>7, <2>1
  <2>3. Ordinary(q) /\ (mem[q].state \in Settled => mem'[q].state \in Settled)
    BY <1>3, <1>7, <2>2
  <2>4. SUFFICES mem[q].state \in Settled
    BY <2>3
  <2>5. CASE AllSettled
    BY <2>2, <2>5 DEF AllSettled
  <2>6. CASE RunFindsNothing
    BY <1>1, <2>2, <2>3, <2>6, NothingLeft DEF CallsInPlace
  <2>7. CASE phase \in {"check", "answer"}
    BY <1>2, <1>7, <2>2, <2>3, <2>7 DEF AnswersStand
  <2> QED BY <1>7, <2>5, <2>6, <2>7, CheckIsReached DEF IdleCheck
<1>8. AnswersStand'
  BY <1>5, <1>6, <1>7 DEF AnswersStand, Keyed
<1> QED BY <1>4, <1>8

\* In every state of a cycle, unless a RUNNING could be neither saved nor audited,
\* ordinary queries are in their place and answers stand.
LEMMA AnswersStandAlways ==
  CycleSpec => [](RefusalIsAudited \/ faults <= 1 => CallsInPlace /\ AnswersStand)
<1> DEFINE Good == RefusalIsAudited \/ faults <= 1
           Stand == Good => CallsInPlace /\ AnswersStand
<1>1. CycleInit => CycleShape /\ LaneOwned /\ CallsInPlace /\ AnswersStand
  <2> SUFFICES ASSUME CycleInit PROVE CycleShape /\ LaneOwned /\ CallsInPlace /\ AnswersStand
    OBVIOUS
  <2>1. CycleShape /\ LaneOwned
    BY CycleAssumption, InteractionAssumption
    DEF CycleInit, Init, CycleShape, CycleTypeOK, NoTurn, LaneOwned
  <2>2. CallsInPlace
    BY QueryAssumption DEF CycleInit, Init, CallsInPlace, InPlace, Absent
  <2>3. AnswersStand
    BY DEF CycleInit, AnswersStand
  <2> QED BY <2>1, <2>2, <2>3
<1>2. ReplayInvariant /\ CycleShape /\ LaneOwned /\ Stand /\ [CycleNext]_allVars => Stand'
  <2> SUFFICES ASSUME ReplayInvariant, CycleShape, LaneOwned, Stand,
                      [CycleNext]_allVars, Good'
               PROVE  CallsInPlace' /\ AnswersStand'
    OBVIOUS
  <2>1. TypeOK /\ TypeOK'
    BY TypeStep, CycleStepsAreQueueSteps DEF ReplayInvariant
  <2>2. faults' >= faults
    BY <2>1, CycleStepsAreQueueSteps, HistoryGrows, OverruledGrows
  <2>3. faults \in Nat /\ faults' \in Nat
    BY <2>1 DEF TypeOK
  <2>4. Good
    BY <2>2, <2>3 DEF RefusalIsAudited
  <2> QED BY <2>4, AnswersStep
<1> QED BY <1>1, <1>2, ShapeStep, LaneOwnedStep, QueueInvariants, PTL DEF CycleSpec

\* No result the model is told says that a query is still queued, running or paused,
\* for any calls, priorities, threads and stops, if the operator did not requeue it and
\* record_failed did not overrule a lane that has it.
THEOREM AnswersTellTheEnd ==
  ASSUME RefusalIsAudited
  PROVE  CycleSpec => []AnswersAreSettled
<1>1. AnswersStand /\ CycleShape => AnswersAreSettled
  <2> SUFFICES ASSUME AnswersStand, CycleShape, NEW t \in told,
                      requeues[t[1]] = 0, ~ Contested(t[1])
               PROVE  t[2] \in Settled
    BY DEF AnswersAreSettled
  <2> QED BY DEF AnswersStand, Ordinary
<1>2. CycleInit => CycleShape
  BY CycleAssumption, InteractionAssumption
  DEF CycleInit, Init, CycleShape, CycleTypeOK, NoTurn
<1> QED BY <1>1, <1>2, AnswersStandAlways, ShapeStep, QueueInvariants, PTL DEF CycleSpec

\* No tool is called for a query the model has been answered about, under the same
\* conditions.
THEOREM AnsweredIsOver ==
  ASSUME RefusalIsAudited
  PROVE  CycleSpec => NothingRunsAfterAnswer
<1> DEFINE Rests == \A q \in Query : \A t \in told :
                      t[1] = q /\ requeues[q] = 0 /\ ~ Contested(q)
                        => effects'[q] = effects[q]
<1>1. TypeOK /\ CallsInPlace /\ AnswersStand /\ [CycleNext]_allVars => [Rests]_allVars
  <2> SUFFICES ASSUME TypeOK, CallsInPlace, AnswersStand, [CycleNext]_allVars,
                      NEW q \in Query, NEW t \in told, t[1] = q, requeues[q] = 0,
                      ~ Contested(q), effects'[q] # effects[q]
               PROVE  FALSE
    OBVIOUS
  <2>1. Ordinary(q) /\ InPlace(q)
    BY DEF AnswersStand, Ordinary, CallsInPlace
  <2>2. ExecuteTool
    BY CycleStepsAreQueueSteps
    DEF Next, Client, SubmitRefused, SubmitNotSaved, SubmitAdmitted, RecordFailed,
        Operator, ResolveCancel, ResolveRequeue, RunOnce, Pick, FindIdle, MarkRunning,
        SaveRunning, SaveRunningFails, RefuseStep, SaveRefused, RecordResult, SaveResult,
        SaveResultFails, SaveResume, Requeue, Finish, Stop, Start, vars, history
  <2>3. up /\ pc = "ready" /\ active = q
    BY <2>2 DEF ExecuteTool, TypeOK
  <2>4. mem[q].state = "running"
    BY <2>1, <2>3 DEF InPlace
  <2>5. mem[q].state \in Settled
    BY <2>1, <2>3 DEF AnswersStand
  <2> QED BY <2>4, <2>5 DEF Settled, Terminal
<1>2. ReplayInvariant => TypeOK
  BY DEF ReplayInvariant
<1> QED BY <1>1, <1>2, AnswersStandAlways, QueueInvariants, PTL
        DEF CycleSpec, NothingRunsAfterAnswer

-----------------------------------------------------------------------------
(* The steps of a round are enough.                                        *)

\* There are more steps in a round than calls in a turn, and nothing but calls of the
\* model competes with them in their class.
EnoughSteps ==
  /\ MaxCalls < Budget
  /\ \A q \in Query : Type[q] = "Aquery" => Keyed(q)

\* Nothing happened that costs a step: no fault, no requeue.
Calm == faults = 0 /\ \A q \in Query : requeues[q] = 0

\* One run of the lane settles q.
Straight(q) ==
  active = q =>
    /\ pc # "requeue"
    /\ pc \in {"save_refused", "save_result", "finish"} => mem[q].state \in Settled

\* While it is calm, record_failed overrules nobody and the lane runs each call once.
CalmLane ==
  Calm => /\ overruled = {}
          /\ \A q \in rejected : mem[q].state = "absent"
          /\ \A q \in Query : Keyed(q) => Straight(q)

\* Each step keeps a call straight as long as no save fails and nobody requeues it.
LEMMA StraightStep ==
  ASSUME ReplayInvariant, [Next]_vars, up' => up, faults' = 0,
         NEW q \in Query, Keyed(q), InPlace(q), Straight(q), requeues'[q] = 0,
         RecordFailed(q) => active # q
  PROVE  Straight(q)'
<1> USE DEF ReplayInvariant
<1>1. /\ pc # "idle" => active \in Query
      /\ mem \in [Query -> Record] /\ faults \in Nat
      /\ Type[q] = "Aquery" /\ Steps[q] = 1
      /\ q # NoQuery
  BY KeyAssumption, QueryAssumption DEF TypeOK, Keyed
<1>2. up' /\ mem[q].state \in Settled => mem'[q].state \in Settled
  BY PlaceStep
<1>3. ASSUME UNCHANGED <<active, pc>>, up' PROVE Straight(q)'
  BY <1>2, <1>3 DEF Straight
<1>4. ASSUME pc' \notin {"save_refused", "save_result", "finish", "requeue"} \/ active' # q
      PROVE  Straight(q)'
  BY <1>4 DEF Straight
<1>5. ASSUME NEW p \in Query, Client(p) \/ Operator(p) PROVE Straight(q)'
  <2>1. UNCHANGED <<up, active, pc>> /\ up
    BY <1>5 DEF Client, SubmitRefused, SubmitNotSaved, SubmitAdmitted, RecordFailed,
       Operator, ResolveCancel, ResolveRequeue, laneVars
  <2> QED BY <1>3, <2>1
<1>6. ASSUME Pick \/ MarkRunning \/ SaveRunning \/ ExecuteTool \/ Finish \/ Stop
      PROVE  Straight(q)'
  <2>1. CASE Pick \/ SaveRunning \/ ExecuteTool
    BY <1>4, <2>1 DEF Pick, SaveRunning, ExecuteTool, Goto
  <2>2. CASE Finish \/ Stop
    BY <1>1, <1>4, <2>2 DEF Finish, Stop
  <2>3. CASE MarkRunning
    <3>1. CASE active = q
      <4>1. mem[active].state = "queued"
        BY <2>3, <3>1 DEF MarkRunning, InPlace
      <4>2. pc' = "save_running"
        BY <2>3, <4>1 DEF MarkRunning, Allowed, Goto
      <4> QED BY <1>4, <4>2
    <3>2. CASE active # q
      BY <1>4, <2>3, <3>2 DEF MarkRunning
    <3> QED BY <3>1, <3>2
  <2> QED BY <1>6, <2>1, <2>2, <2>3
<1>7. ASSUME SaveRunningFails PROVE FALSE
  BY <1>1, <1>7 DEF SaveRunningFails, Save, SaveFaults, Injectable
<1>8. ASSUME RefuseStep \/ SaveResultFails PROVE Straight(q)'
  <2>1. SetState(active, "recovery_required") /\ active \in Query /\ active' = active
        /\ pc' \in {"save_refused", "finish"}
    BY <1>1, <1>8 DEF RefuseStep, SaveResultFails, Goto
  <2>2. CASE active = q
    <3>1. mem'[q].state = "recovery_required"
      BY <1>1, <2>1, <2>2, InType DEF SetState, State, Unsettled
    <3> QED BY <2>1, <3>1 DEF Straight, Settled
  <2>3. CASE active # q
    BY <1>4, <2>1, <2>3
  <2> QED BY <2>2, <2>3
<1>9. ASSUME SaveRefused PROVE Straight(q)'
  <2>1. pc = "save_refused" /\ pc' = "finish" /\ UNCHANGED <<mem, active>>
    BY <1>9 DEF SaveRefused, Goto, queueVars
  <2> QED BY <2>1 DEF Straight
<1>10. ASSUME RecordResult PROVE Straight(q)'
  <2> DEFINE next == mem[active].next_step + 1
             target == ResultState(active, next)
             Advanced(t) == [state |-> t, next_step |-> next]
  <2>1. pc = "executed" /\ active' = active
    BY <1>10 DEF RecordResult
  <2>2. CASE active = q
    <3>1. mem[q].state = "running" /\ next = Steps[q]
      BY <1>1, <2>1, <2>2 DEF InPlace, LaneShape, Record
    <3>2. target \in {"failed", "completed"}
      BY <2>2, <3>1 DEF ResultState
    <3>3. <<mem[active].state, target>> \in Allowed
      BY <2>2, <3>1, <3>2 DEF Allowed
    <3> HIDE DEF target
    <3>4. mem' = [mem EXCEPT ![q] = Advanced(target)] /\ pc' = "save_result"
      BY <1>10, <2>2, <3>3 DEF RecordResult, Goto, target
    <3>5. mem'[q].state = target
      BY <1>1, <3>4
    <3> QED BY <3>2, <3>4, <3>5 DEF Straight, Settled, Terminal
  <2>3. CASE active # q
    BY <1>4, <2>1, <2>3
  <2> QED BY <2>2, <2>3
<1>11. ASSUME SaveResult PROVE Straight(q)'
  <2>1. pc = "save_result" /\ active' = active
    BY <1>11 DEF SaveResult
  <2>2. CASE active = q
    <3>1. snap.state = mem[q].state /\ mem[q].state \in Settled
      BY <2>1, <2>2 DEF InPlace, Straight
    <3>2. mem' = mem /\ pc' = "finish"
      BY <1>11, <3>1 DEF SaveResult, Goto, Settled, Terminal
    <3> QED BY <3>1, <3>2 DEF Straight
  <2>3. CASE active # q
    BY <1>4, <2>1, <2>3
  <2> QED BY <2>2, <2>3
<1>12. ASSUME SaveResume PROVE Straight(q)'
  BY <1>4, <1>12 DEF SaveResume, InPlace
<1>13. ASSUME Requeue PROVE Straight(q)'
  BY <1>4, <1>13 DEF Requeue, Straight
<1>14. ASSUME FindIdle \/ UNCHANGED vars PROVE Straight(q)'
  BY <1>14 DEF FindIdle, vars, queueVars, laneVars, Straight
<1>15. ~ Start
  BY DEF Start
<1> QED BY <1>5, <1>6, <1>7, <1>8, <1>9, <1>10, <1>11, <1>12, <1>13, <1>14, <1>15
        DEF Next, RunOnce

\* A step that leaves the behaviour calm keeps the lane so.
LEMMA CalmStep ==
  ASSUME ReplayInvariant, CycleShape, LaneOwned, CallsInPlace, CalmLane,
         [CycleNext]_allVars, Calm'
  PROVE  /\ Calm /\ CalmLane'
         /\ \A q \in Query : Keyed(q) =>
              /\ Ordinary(q) /\ Ordinary(q)'
              /\ up' /\ mem[q].state \in Settled => mem'[q].state \in Settled
<1>1. /\ [Next]_vars /\ TypeOK /\ TypeOK' /\ (up' => up)
      /\ \A q \in rejected : Keyed(q)
  BY CycleStepsAreQueueSteps, TypeStep, OverruledGrows DEF ReplayInvariant, CycleShape
<1>2. Calm
  BY <1>1, HistoryGrows DEF Calm, TypeOK
<1>3. /\ overruled = {} /\ \A q \in rejected : mem[q].state = "absent"
      /\ \A q \in Query : Keyed(q) => Straight(q)
  BY <1>2 DEF CalmLane
\* A fault is not calm.
<1>4. ASSUME NEW q \in Query, UNCHANGED mem \/ mem' = [mem EXCEPT ![q] = Fresh],
             SubmitAdmitted(q) \/ SubmitNotSaved(q) \/ SubmitRefused(q)
      PROVE  \A p \in rejected' \ rejected : mem'[p].state = "absent"
  <2>1. CASE SubmitAdmitted(q)
    BY <1>1, <1>2, <2>1 DEF SubmitAdmitted, Calm
  <2>2. CASE SubmitNotSaved(q)
    BY <1>1, <1>2, <2>2 DEF SubmitNotSaved, Calm, Save, SaveFaults, Injectable
  <2>3. CASE SubmitRefused(q)
    BY <2>3 DEF SubmitRefused, Reject, IsNew, queueVars
  <2> QED BY <1>4, <2>1, <2>2, <2>3
<1>5. overruled' = {} /\ \A q \in rejected' : mem'[q].state = "absent"
  <2> DEFINE Goal == overruled' = {} /\ \A q \in rejected' : mem'[q].state = "absent"
  <2>1. ASSUME Kept, UNCHANGED overruled PROVE Goal
    BY <1>1, <1>3, <2>1 DEF Kept, TypeOK
  <2>2. ASSUME UNCHANGED vars, UNCHANGED overruled PROVE Goal
    BY <1>3, <2>2 DEF vars, queueVars
  <2>3. CASE Prompt \/ IngestKnown \/ IngestEnds \/ WaitLoop \/ IdleCheck \/ Answer \/ Send
    BY <2>2, <2>3 DEF Prompt, IngestKnown, IngestEnds, WaitLoop, IdleCheck, Answer, Send,
                      answers
  <2>4. CASE IngestNew
    <3>1. PICK c \in todo, q \in Query :
            /\ Key[q] = c
            /\ SubmitAdmitted(q) \/ SubmitNotSaved(q) \/ SubmitRefused(q)
      BY <2>4 DEF IngestNew
    <3>2. UNCHANGED mem \/ mem' = [mem EXCEPT ![q] = Fresh]
      BY <3>1 DEF SubmitAdmitted, SubmitNotSaved, SubmitRefused, queueVars
    <3>3. rejected = {} /\ UNCHANGED overruled
      BY <2>4 DEF IngestNew, answers
    <3> QED BY <1>3, <1>4, <3>1, <3>2, <3>3
  <2>5. CASE IngestRejected
    <3>1. PICK q \in Query :
            /\ RecordFailed(q)
            /\ overruled' = IF mem[q].state = "absent" THEN overruled
                            ELSE overruled \cup {q}
      BY <2>5 DEF IngestRejected
    <3>2. q \in rejected /\ rejected' = rejected \ {q}
      BY <3>1 DEF RecordFailed
    <3>3. \A p \in Query \ {q} : mem'[p] = mem[p]
      BY <1>1, <3>1 DEF RecordFailed, TypeOK
    <3> QED BY <1>1, <1>3, <3>1, <3>2, <3>3 DEF TypeOK
  <2>6. CASE RunPicks \/ RunFindsNothing
    BY <1>3, <2>6 DEF RunPicks, RunFindsNothing, Pick, answers
  <2>7. CASE Lane
    <3>1. RunOnce /\ UNCHANGED overruled
      BY <2>7 DEF Lane, LaneWorks, LaneReturns, HostRuns, RunOnce, cycleVars, answers
    <3> QED BY <2>1, <3>1, LaneKeeps
  <2>8. CASE Host
    BY <2>1, <2>8, HostKeeps DEF Host, cycleVars, answers
  <2>9. CASE StopAll
    BY <1>3, <2>9 DEF StopAll, Stop, answers
  <2>10. CASE UNCHANGED allVars
    BY <2>2, <2>10 DEF allVars, cycleVars, answers
  <2> QED BY <2>3, <2>4, <2>5, <2>6, <2>7, <2>8, <2>9, <2>10 DEF CycleNext, Cycle
<1>6. ASSUME NEW q \in Query, Keyed(q)
      PROVE  /\ Ordinary(q) /\ Ordinary(q)' /\ Straight(q)'
             /\ up' /\ mem[q].state \in Settled => mem'[q].state \in Settled
  <2>1. Ordinary(q) /\ Ordinary(q)'
    BY <1>2, <1>3, <1>5, <1>6 DEF Ordinary, Contested, Calm, Keyed
  <2>2. RecordFailed(q) => active # q
    <3>1. SUFFICES ASSUME RecordFailed(q) PROVE active # q
      OBVIOUS
    <3>2. mem[q].state = "absent"
      BY <1>3, <3>1 DEF RecordFailed
    <3> QED BY <1>1, <3>2, QueryAssumption DEF ReplayInvariant, LaneShape, TypeOK
  <2>3. faults' = 0 /\ requeues'[q] = 0
    BY DEF Calm
  <2>4. Straight(q)'
    BY <1>1, <1>3, <1>6, <2>1, <2>2, <2>3, StraightStep DEF CallsInPlace
  <2>5. up' /\ mem[q].state \in Settled => mem'[q].state \in Settled
    BY <1>1, <1>6, <2>1, <2>2, <2>3, PlaceStep DEF CallsInPlace
  <2> QED BY <2>1, <2>4, <2>5
<1>7. CalmLane'
  BY <1>5, <1>6 DEF CalmLane, Keyed
<1> QED BY <1>2, <1>6, <1>7

\* A turn is ingested call by call: what is collected and what is to do are together no
\* more than the calls it may have.
TurnFits ==
  phase = "ingest" =>
    /\ Cardinality(collected) + Cardinality(todo) <= MaxCalls
    /\ IsFiniteSet(collected) /\ IsFiniteSet(todo)
    /\ \A q \in rejected : Key[q] \in todo /\ \A p \in rejected : p = q

\* Collecting one call keeps the sum.
LEMMA CollectCounts ==
  ASSUME IsFiniteSet(collected), IsFiniteSet(todo),
         NEW c \in todo, NEW q, Collect(c, q)
  PROVE  /\ IsFiniteSet(collected') /\ IsFiniteSet(todo')
         /\ Cardinality(collected') + Cardinality(todo')
              <= Cardinality(collected) + Cardinality(todo)
<1>1. /\ Cardinality(collected) \in Nat /\ Cardinality(todo) \in Nat
  BY FS_CardinalityType
<1>2. /\ IsFiniteSet(collected')
      /\ Cardinality(collected') \in {Cardinality(collected), Cardinality(collected) + 1}
  BY <1>1, FS_AddElement DEF Collect
<1>3. IsFiniteSet(todo') /\ Cardinality(todo') = Cardinality(todo) - 1
  BY FS_RemoveElement DEF Collect
<1> QED BY <1>1, <1>2, <1>3

\* The model can ask for no more calls than there are queries.
LEMMA AskableIsFinite ==
  ASSUME TypeOK, CycleShape
  PROVE  IsFiniteSet(Askable)
<1> DEFINE Keys == {Key[q] : q \in Query}
           key == [q \in Query |-> Key[q]]
<1>1. key \in Surjection(Query, Keys)
  BY DEF Surjection
<1>2. IsFiniteSet(Keys)
  BY <1>1, QueryAssumption, FS_Surjection
<1>3. Askable \subseteq Keys
  BY DEF Askable, CycleShape, TypeOK
<1> QED BY <1>2, <1>3, FS_Subset

\* Every step of the cycle, the lane and the host keeps it.
LEMMA TurnFitsStep ==
  ASSUME ReplayInvariant, CycleShape, Ledger, TurnFits, [CycleNext]_allVars
  PROVE  TurnFits'
<1>1. TypeOK /\ todo \subseteq Call /\ (verdict # "none" <=> phase = "over")
      /\ (phase \notin {"ingest", "over"} => rejected = {})
  BY DEF ReplayInvariant, CycleShape, CycleTypeOK, Ledger
<1>2. ASSUME phase' # "ingest" PROVE TurnFits'
  BY <1>2 DEF TurnFits
<1>3. ASSUME UNCHANGED <<phase, todo, collected, rejected>> PROVE TurnFits'
  BY <1>3 DEF TurnFits
<1>4. ASSUME Answers, rejected' = {} PROVE TurnFits'
  <2>1. /\ collected' = {} /\ todo' \subseteq Askable /\ Cardinality(todo') <= MaxCalls
    BY <1>4 DEF Answers
  <2>2. /\ IsFiniteSet(todo') /\ IsFiniteSet(collected')
        /\ Cardinality(collected') = 0 /\ Cardinality(todo') \in Nat
    BY <1>1, <2>1, AskableIsFinite, FS_EmptySet, FS_Subset, FS_CardinalityType
  <2>3. MaxCalls \in Nat
    BY CycleAssumption
  <2> QED BY <1>4, <2>1, <2>2, <2>3 DEF TurnFits
<1>5. CASE Prompt \/ Send
  <2>1. rejected' = {}
    BY <1>1, <1>5 DEF Prompt, Send, vars
  <2> QED BY <1>2, <1>4, <1>5, <2>1 DEF Prompt, Send, Over
<1>6. CASE IngestKnown
  <2>1. PICK c \in todo : Collect(c, ext[c])
    BY <1>6 DEF IngestKnown
  <2>2. phase = "ingest" /\ rejected' = {}
    BY <1>6 DEF IngestKnown, vars
  <2> QED BY <2>1, <2>2, CollectCounts, CycleAssumption, FS_CardinalityType DEF TurnFits
<1>7. CASE IngestNew
  <2>1. PICK c \in todo, q \in Query :
          /\ Key[q] = c
          /\ \/ rejected' = rejected /\ Collect(c, q)
             \/ rejected' = rejected \cup {q} /\ UNCHANGED <<todo, collected>>
    BY <1>1, <1>7, IngestNewKeeps DEF Collect
  <2>2. phase = "ingest" /\ rejected = {}
    BY <1>7 DEF IngestNew
  <2> QED BY <2>1, <2>2, CollectCounts, CycleAssumption, FS_CardinalityType DEF TurnFits
<1>8. CASE IngestRejected
  <2>1. PICK q \in rejected :
          /\ rejected' = rejected \ {q}
          /\ Collect(Key[q], q) \/ Over("raised")
    BY <1>8, IngestRejectedKeeps
  <2>2. phase = "ingest"
    BY <1>8 DEF IngestRejected
  <2>3. CASE Over("raised")
    BY <1>2, <2>3 DEF Over
  <2>4. CASE Collect(Key[q], q)
    <3>1. Key[q] \in todo /\ rejected' = {}
      BY <2>1, <2>2 DEF TurnFits
    <3> QED BY <2>2, <2>4, <3>1, CollectCounts, CycleAssumption, FS_CardinalityType
            DEF TurnFits
  <2> QED BY <2>1, <2>3, <2>4
<1>9. CASE IngestEnds \/ WaitLoop \/ RunPicks \/ RunFindsNothing \/ IdleCheck \/ Answer
  BY <1>2, <1>9 DEF IngestEnds, Continue, WaitLoop, RunPicks, RunFindsNothing, IdleCheck,
                    Answer, Over
<1>10. CASE Lane
  <2>1. UNCHANGED rejected
    BY <1>10, LaneKeeps DEF Lane, LaneWorks, LaneReturns, HostRuns, RunOnce, Kept
  <2>2. UNCHANGED <<todo, collected>>
    BY <1>10 DEF Lane, LaneWorks, LaneReturns, HostRuns, cycleVars
  <2>3. phase' = phase \/ phase' # "ingest"
    BY <1>10 DEF Lane, LaneWorks, LaneReturns, HostRuns, Over, cycleVars
  <2> QED BY <1>2, <1>3, <2>1, <2>2, <2>3
<1>11. CASE Host
  BY <1>3, <1>11, HostKeeps DEF Host, cycleVars, Kept
<1>12. CASE StopAll
  BY <1>2, <1>12 DEF StopAll, Over
<1>13. CASE UNCHANGED allVars
  BY <1>3, <1>13 DEF allVars, vars, cycleVars
<1> QED BY <1>5, <1>6, <1>7, <1>8, <1>9, <1>10, <1>11, <1>12, <1>13 DEF CycleNext, Cycle

\* The queries the cycle still waits for.
Unanswered == {q \in awaited[turn.id] : mem[q].state \notin Settled}
Left == Cardinality(Unanswered)

\* While it is calm there are more steps left than queries to wait for; what the cycle's
\* own step may be wasted on, another thread has already done.
BudgetLeft ==
  Calm =>
    /\ phase = "wait" => budget > Left
    /\ phase = "run" => budget > Left /\ (Left = 0 => budget > 1)
    /\ phase = "lane" => \/ budget > Left + 1
                         \/ budget > Left /\ active \in Unanswered
    /\ phase = "check" => budget > Left + 1
    /\ verdict # "budget"

LEMMA QueriesAreCounted ==
  ASSUME NEW S \in SUBSET Query
  PROVE  IsFiniteSet(S) /\ Cardinality(S) \in Nat /\ (Cardinality(S) = 0 <=> S = {})
BY QueryAssumption, FS_Subset, FS_CardinalityType, FS_EmptySet

\* What is waited for is finite and known.
LEMMA LeftIsCounted ==
  ASSUME TypeOK, CycleShape
  PROVE  /\ IsFiniteSet(Unanswered) /\ Left \in Nat /\ budget \in Nat
         /\ \A q \in Unanswered : q \in Query /\ Keyed(q) /\ mem[q].state # "absent"
         /\ Left = 0 <=> Unanswered = {}
<1>1. \A q \in awaited[turn.id] : q \in Query /\ Keyed(q) /\ mem[q].state # "absent"
  BY DEF CycleShape, CycleTypeOK
<1>2. Unanswered \in SUBSET Query
  BY <1>1 DEF Unanswered
<1>3. IsFiniteSet(Unanswered) /\ Left \in Nat /\ (Left = 0 <=> Unanswered = {})
  BY <1>2, QueriesAreCounted DEF Left
<1>4. budget \in Nat
  BY CycleAssumption DEF CycleShape, CycleTypeOK
<1> QED BY <1>1, <1>3, <1>4 DEF Unanswered

\* In a calm step of the same wait, no query is waited for that was not.
LEMMA LeftShrinks ==
  ASSUME TypeOK, TypeOK', CycleShape, CycleShape', UNCHANGED <<turn, awaited>>,
         \A q \in Query : Keyed(q) /\ mem[q].state \in Settled => mem'[q].state \in Settled
  PROVE  /\ Left' <= Left /\ Left' \in Nat
         /\ \A q \in Unanswered : q \in Unanswered' \/ Left' < Left
<1>1. \A q \in awaited[turn.id] : q \in Query /\ Keyed(q)
  BY DEF CycleShape, CycleTypeOK
<1>2. Unanswered' \subseteq Unanswered /\ Unanswered \subseteq Query
  BY <1>1 DEF Unanswered
<1>3. IsFiniteSet(Unanswered) /\ Left \in Nat /\ Left' \in Nat
  BY <1>2, QueriesAreCounted DEF Left
<1>4. Left' <= Left /\ (Left' = Left => Unanswered' = Unanswered)
  BY <1>2, <1>3, FS_Subset DEF Left
<1> QED BY <1>3, <1>4

\* A cycle whose run takes a query takes one it waits for, if there is one.
LEMMA OwnCallIsPicked ==
  ASSUME \A q \in Query : Type[q] = "Aquery" => Keyed(q),
         TypeOK, CycleShape, Ledger, OneTurnAwaited, AnswersStand,
         \A q \in Query : Keyed(q) => Ordinary(q) /\ InPlace(q),
         RunPicks, Unanswered # {}
  PROVE  active' \in Unanswered
<1>1. PICK q \in Unanswered : TRUE
  OBVIOUS
<1>2. q \in Query /\ Keyed(q) /\ mem[q].state # "absent" /\ mem[q].state \notin Settled
  BY LeftIsCounted DEF Unanswered
<1>3. up /\ pc = "idle" /\ phase = "run" /\ verdict = "none" /\ rejected = {}
  BY DEF RunPicks, Pick, CycleShape, CycleTypeOK, Ledger
<1>4. PICK e \in Ready : (\A d \in Ready \ {e} : Before(e, d)) /\ active' = e.id
  BY DEF RunPicks, Pick
<1>5. e.id \in Query /\ mem[e.id].state = "queued"
  BY <1>4 DEF Ready, TypeOK
<1>6. mem[q].state = "queued" /\ \E d \in heap : d.id = q
  BY <1>2, <1>3 DEF InPlace, TypeOK, Record, State, Unsettled, Settled
<1>7. PICK d \in Ready : d.id = q
  BY <1>6 DEF Ready
<1>8. Type[q] = "Aquery" /\ \A p \in Query : Class(p) \in {0, 1}
  BY <1>2, KeyAssumption DEF Class, Keyed
<1>9. Type[e.id] = "Aquery"
  <2>1. Class(e.id) <= Class(q)
    BY <1>2, <1>4, <1>5, <1>7, <1>8 DEF Before, Outranks
  <2> QED BY <1>5, <1>8, <2>1 DEF Class
<1>10. Keyed(e.id) /\ Ordinary(e.id)
  BY <1>5, <1>9
<1>11. ~ \E t \in told : t[1] = e.id
  BY <1>3, <1>5, <1>10 DEF AnswersStand, Settled, Terminal
<1>12. \E id \in Interaction : e.id \in awaited[id]
  BY <1>3, <1>5, <1>10, <1>11 DEF Ledger, Accounted
<1>13. e.id \in awaited[turn.id]
  BY <1>3, <1>12 DEF OneTurnAwaited
<1> QED BY <1>4, <1>5, <1>13 DEF Unanswered, Settled, Terminal

\* A margin over a number is a margin over what that number falls to.
LEMMA MarginStays ==
  ASSUME NEW b \in Nat, NEW n \in Nat, NEW m \in Nat
  PROVE  /\ b > n + 1 /\ m <= n => b > m + 1
         /\ b > n /\ m < n => b > m + 1
  OBVIOUS

\* Every step of the cycle, the lane and the host keeps the balance.
LEMMA BudgetStep ==
  ASSUME EnoughSteps, ReplayInvariant, CycleShape, Ledger, OneTurnAwaited, LaneOwned,
         Calm => CallsInPlace /\ AnswersStand, CalmLane, TurnFits, BudgetLeft,
         [CycleNext]_allVars
  PROVE  CalmLane' /\ BudgetLeft'
<1>1. CASE ~ Calm'
  <2>1. TypeOK /\ TypeOK' /\ [Next]_vars /\ (up' => up)
    BY CycleStepsAreQueueSteps, TypeStep, OverruledGrows DEF ReplayInvariant
  <2> QED BY <1>1 DEF CalmLane, BudgetLeft
<1>2. CASE Calm'
  <2>1. /\ TypeOK /\ TypeOK' /\ [Next]_vars /\ (up' => up) /\ Calm
    BY <1>2, CycleStepsAreQueueSteps, TypeStep, OverruledGrows, HistoryGrows
    DEF ReplayInvariant, Calm, TypeOK
  <2>2. /\ CalmLane'
        /\ \A q \in Query : Keyed(q) =>
             /\ Ordinary(q) /\ InPlace(q) /\ Straight(q)
             /\ up' /\ mem[q].state \in Settled => mem'[q].state \in Settled
    BY <1>2, <2>1, CalmStep DEF CallsInPlace, CalmLane
  <2>3. CycleShape' /\ MaxCalls \in Nat /\ Budget \in Nat
    BY ShapeStep, CycleAssumption
  <2>4. /\ Left \in Nat /\ Left' \in Nat /\ budget \in Nat /\ budget' \in Nat
        /\ (Left = 0 <=> Unanswered = {})
    <3>1. Left \in Nat /\ budget \in Nat /\ (Left = 0 <=> Unanswered = {})
      BY <2>1, LeftIsCounted
    <3>2. Unanswered' \in SUBSET Query /\ budget' \in Nat
      BY <2>3 DEF CycleShape, CycleTypeOK, Unanswered
    <3>3. Left' \in Nat
      BY <3>2, QueriesAreCounted DEF Left
    <3> QED BY <3>1, <3>2, <3>3
  <2>5. /\ phase = "wait" => budget > Left
        /\ phase = "run" => budget > Left /\ (Left = 0 => budget > 1)
        /\ phase = "lane" => \/ budget > Left + 1
                             \/ budget > Left /\ active \in Unanswered
        /\ phase = "check" => budget > Left + 1
        /\ verdict # "budget" /\ (verdict # "none" <=> phase = "over")
    BY <2>1 DEF BudgetLeft, CycleShape, CycleTypeOK
  <2> DEFINE Goal == /\ phase' = "wait" => budget' > Left'
                     /\ phase' = "run" => budget' > Left' /\ (Left' = 0 => budget' > 1)
                     /\ phase' = "lane" => \/ budget' > Left' + 1
                                           \/ budget' > Left' /\ active' \in Unanswered'
                     /\ phase' = "check" => budget' > Left' + 1
                     /\ verdict' # "budget"
  <2> SUFFICES Goal
    BY <2>2 DEF BudgetLeft
  <2>6. ASSUME phase' \notin {"wait", "run", "lane", "check"}, verdict' # "budget" PROVE Goal
    BY <2>6
  <2>7. ASSUME UNCHANGED <<mem, turn, awaited>>
        PROVE  Left' = Left /\ Unanswered' = Unanswered
    BY <2>7 DEF Left, Unanswered
\* The queue moves, the cycle does not.
  <2>8. ASSUME UNCHANGED <<phase, budget, turn, awaited, verdict>>,
               phase = "lane" => active' = active, up' \/ UNCHANGED mem
        PROVE  Goal
    <3>1. CASE UNCHANGED mem
      BY <2>4, <2>5, <2>7, <2>8, <3>1
    <3>2. CASE up'
      <4>1. \A q \in Query : Keyed(q) /\ mem[q].state \in Settled => mem'[q].state \in Settled
        BY <2>2, <3>2
      <4>2. Left' <= Left /\ \A q \in Unanswered : q \in Unanswered' \/ Left' < Left
        BY <2>1, <2>3, <2>8, <4>1, LeftShrinks
      <4>3. phase' = phase /\ budget' = budget /\ verdict' = verdict
        BY <2>8
      <4>4. ASSUME phase' = "lane"
            PROVE  budget' > Left' + 1 \/ (budget' > Left' /\ active' \in Unanswered')
        <5>1. phase = "lane" /\ active' = active
          BY <2>8, <4>3, <4>4
        <5>2. CASE budget > Left + 1
          <6>1. budget > Left' + 1
            BY <2>4, <4>2, <5>2, MarginStays
          <6> QED BY <4>3, <6>1
        <5>3. CASE budget > Left /\ active \in Unanswered
          <6>1. active \in Unanswered' \/ Left' < Left
            BY <4>2, <5>3
          <6>2. CASE Left' < Left
            <7>1. budget > Left' + 1
              BY <2>4, <5>3, <6>2, MarginStays
            <7> QED BY <4>3, <7>1
          <6>3. CASE active \in Unanswered'
            <7>1. active' \in Unanswered'
              BY <5>1, <6>3
            <7>2. budget' > Left'
              BY <2>4, <4>2, <4>3, <5>3
            <7> QED BY <7>1, <7>2
          <6> QED BY <6>1, <6>2, <6>3
        <5> QED BY <2>5, <5>1, <5>2, <5>3
      <4>5. ASSUME phase' = "run" PROVE budget' > Left' /\ (Left' = 0 => budget' > 1)
        <5>1. budget > Left /\ (Left = 0 => budget > 1)
          BY <2>5, <4>3, <4>5
        <5> QED BY <2>4, <4>2, <4>3, <5>1
      <4>6. phase' = "wait" => budget' > Left'
        BY <2>4, <2>5, <4>2, <4>3
      <4>7. ASSUME phase' = "check" PROVE budget' > Left' + 1
        <5>1. budget > Left' + 1
          BY <2>4, <2>5, <4>2, <4>3, <4>7, MarginStays
        <5> QED BY <4>3, <5>1
      <4>8. verdict' # "budget"
        BY <2>5, <4>3
      <4> QED BY <4>4, <4>5, <4>6, <4>7, <4>8
    <3> QED BY <2>8, <3>1, <3>2
  <2>9. CASE Prompt \/ IngestKnown \/ IngestNew \/ IngestRejected \/ Answer \/ Send
    BY <2>5, <2>6, <2>9, IngestRejectedKeeps
    DEF Prompt, IngestKnown, IngestNew, IngestRejected, Answer, Send, Answers, Over
  <2>10. CASE IngestEnds
    <3>1. CASE phase' = "wait"
      <4>1. /\ budget' = Budget /\ awaited' = [awaited EXCEPT ![turn.id] = collected]
            /\ todo = {} /\ phase = "ingest" /\ turn' = turn /\ UNCHANGED mem
        BY <2>10 DEF IngestEnds, vars, queueVars
      <4>2. awaited'[turn'.id] = collected
        BY <4>1 DEF CycleShape, CycleTypeOK
      <4>3. Cardinality(collected) <= MaxCalls /\ IsFiniteSet(collected)
        BY <2>3, <4>1, FS_EmptySet, FS_CardinalityType DEF TurnFits
      <4>4. Left' <= Cardinality(collected)
        BY <4>2, <4>3, FS_Subset DEF Left, Unanswered
      <4>5. Left' < Budget
        BY <2>3, <2>4, <4>3, <4>4, FS_CardinalityType DEF EnoughSteps
      <4>6. verdict' # "budget"
        BY <2>5, <2>10, <3>1 DEF IngestEnds, Continue, Over
      <4> QED BY <2>3, <2>4, <3>1, <4>1, <4>5, <4>6
    <3>2. CASE phase' # "wait"
      BY <2>6, <2>10, <3>2 DEF IngestEnds, Continue, Over
    <3> QED BY <3>1, <3>2
  <2>11. CASE WaitLoop
    <3>1. /\ phase = "wait" /\ budget # 0 /\ UNCHANGED <<mem, turn, awaited, budget, verdict>>
          /\ phase' = IF AllSettled THEN "answer" ELSE "run"
      BY <2>4, <2>5, <2>11 DEF WaitLoop, vars, queueVars
    <3>2. ~ AllSettled => Unanswered # {}
      BY DEF AllSettled, Unanswered
    <3> QED BY <2>4, <2>5, <2>7, <3>1, <3>2
  <2>12. CASE RunPicks
    <3>1. /\ phase = "run" /\ phase' = "lane" /\ UNCHANGED <<mem, turn, awaited, budget, verdict>>
      BY <2>12 DEF RunPicks, Pick
    <3>2. Unanswered # {} => active' \in Unanswered
      BY <2>1, <2>2, <2>12, OwnCallIsPicked DEF EnoughSteps
    <3> QED BY <2>4, <2>5, <2>7, <3>1, <3>2
  <2>13. CASE RunFindsNothing
    <3>1. /\ phase = "run" /\ phase' = "check" /\ UNCHANGED <<mem, turn, awaited, budget, verdict>>
      BY <2>13 DEF RunFindsNothing
    <3>2. Unanswered = {}
      BY <2>1, <2>2, <2>13, LeftIsCounted, NothingLeft DEF Unanswered
    <3> QED BY <2>4, <2>5, <2>7, <3>1, <3>2
  <2>14. CASE IdleCheck
    <3>1. /\ phase = "check" /\ UNCHANGED <<mem, turn, awaited, verdict>>
          /\ \/ phase' = "answer" /\ UNCHANGED budget
             \/ phase' = "wait" /\ budget' = budget - 1
      BY <2>14 DEF IdleCheck, vars, queueVars
    <3> QED BY <2>4, <2>5, <2>7, <3>1
  <2>15. CASE LaneReturns
    <3>1. /\ phase = "lane" /\ pc = "finish" /\ UNCHANGED <<mem, turn, awaited>>
          /\ \/ phase' = "wait" /\ budget' = budget - 1 /\ UNCHANGED verdict
             \/ Over("raised")
      BY <2>15 DEF LaneReturns, Finish, queueVars
    <3>2. active \notin Unanswered
      BY <2>1, <2>2, <3>1, LeftIsCounted DEF Straight, Unanswered
    <3> QED BY <2>4, <2>5, <2>7, <3>1, <3>2 DEF Over
  <2>16. CASE LaneWorks
    <3>1. /\ active' = active /\ up' /\ UNCHANGED <<turn, awaited, budget>>
      BY <2>16 DEF LaneWorks, MarkRunning, SaveRunning, SaveRunningFails, RefuseStep,
         SaveRefused, ExecuteTool, RecordResult, SaveResult, SaveResultFails, SaveResume,
         Requeue
    <3>2. Over("raised") \/ UNCHANGED <<phase, verdict>>
      BY <2>16 DEF LaneWorks
    <3> QED BY <2>6, <2>8, <3>1, <3>2 DEF Over
  <2>17. CASE HostRuns
    BY <2>8, <2>17 DEF HostRuns, Pick, FindIdle, Finish, queueVars, cycleVars
  <2>18. CASE Host
    <3>1. UNCHANGED active /\ up' /\ UNCHANGED cycleVars
      BY <2>18 DEF Host, SubmitAdmitted, SubmitNotSaved, Operator, ResolveCancel,
         ResolveRequeue, laneVars
    <3> QED BY <2>8, <3>1 DEF cycleVars
  <2>19. CASE StopAll
    BY <2>6, <2>19 DEF StopAll, Over
  <2>20. CASE UNCHANGED allVars
    BY <2>8, <2>20 DEF allVars, vars, queueVars, laneVars, cycleVars
  <2> QED BY <2>9, <2>10, <2>11, <2>12, <2>13, <2>14, <2>15, <2>16, <2>17, <2>18, <2>19,
             <2>20 DEF CycleNext, Cycle, Lane
<1> QED BY <1>1, <1>2

\* No cycle runs out of steps, for any number of queries of a lower class, with or without
\* another thread on the lane, unless a save or an audit append raised or the operator
\* requeued.
THEOREM RoundHasStepsEnough ==
  ASSUME EnoughSteps
  PROVE  CycleSpec => []BudgetSuffices
<1> DEFINE Shape == CycleShape /\ Ledger /\ OneTurnAwaited /\ LaneOwned
           Stand == RefusalIsAudited \/ faults <= 1 => CallsInPlace /\ AnswersStand
           Balance == CalmLane /\ TurnFits /\ BudgetLeft
<1>1. CycleInit => Shape /\ Balance
  <2> SUFFICES ASSUME CycleInit PROVE Shape /\ Balance
    OBVIOUS
  <2>1. CycleShape /\ LaneOwned
    BY CycleAssumption, InteractionAssumption
    DEF CycleInit, Init, CycleShape, CycleTypeOK, NoTurn, LaneOwned
  <2>2. Ledger /\ OneTurnAwaited
    BY BoundAssumption DEF CycleInit, Init, Ledger, OneTurnAwaited, Absent, Step
  <2>3. Balance
    BY QueryAssumption
    DEF CycleInit, Init, CalmLane, Straight, TurnFits, BudgetLeft
  <2> QED BY <2>1, <2>2, <2>3
<1>2. ReplayInvariant /\ Shape /\ Stand /\ Balance /\ [CycleNext]_allVars => Balance'
  <2> SUFFICES ASSUME ReplayInvariant, Shape, Stand, Balance, [CycleNext]_allVars
               PROVE  Balance'
    OBVIOUS
  <2>1. Calm => CallsInPlace /\ AnswersStand
    BY DEF Calm
  <2> QED BY <2>1, BudgetStep, TurnFitsStep
<1>3. ReplayInvariant /\ Balance => BudgetSuffices
  BY DEF ReplayInvariant, TypeOK, BudgetLeft, Calm, BudgetSuffices
<1>4. ReplayInvariant /\ Shape /\ [CycleNext]_allVars => Shape'
  BY ShapeStep, LedgerStep, LaneOwnedStep
<1> QED BY <1>1, <1>2, <1>3, <1>4, AnswersStandAlways, QueueInvariants, PTL DEF CycleSpec
=============================================================================
