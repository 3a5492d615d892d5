------------------------------ MODULE AgentCycle ------------------------------
(***************************************************************************)
(* The agent cycle of ABIYSS (runtime.py): the model is asked, the calls   *)
(* of its turn enter the query queue, the cycle runs the lane until they   *)
(* are settled, the results go back to the model, and so on for a bounded  *)
(* number of rounds.  It is composed with the queue: every step of         *)
(* QueryQueue is a step here, taken by the thread that takes it in the     *)
(* code.                                                                   *)
(*                                                                         *)
(* The model is external and says anything; the provider (gemini.py) makes *)
(* of it a turn of a known interaction with some of its calls, each once   *)
(* and no more than MaxCalls, or raises.  A turn without an interaction id *)
(* is left out: its calls are queries without an external identity.        *)
(***************************************************************************)
EXTENDS QueryQueue

CONSTANTS
  Interaction,    \* interaction ids
  InteractionOf,  \* [Call -> Interaction]
  MaxCalls,       \* the calls a provider takes from one reply (64)
  MaxRounds,      \* max_rounds (8)
  Budget          \* max_steps_per_round (1000)

ASSUME InteractionAssumption ==
  Interaction # {} /\ InteractionOf \in [Call -> Interaction]
ASSUME CycleAssumption == {MaxCalls, MaxRounds, Budget} \subseteq Nat \ {0}

VARIABLES
  hostLane,   \* whether other threads of the host run the lane too; never changes
  phase,      \* where the thread of the cycle is
  turn,       \* the interaction and the calls of the last turn
  todo,       \* its calls that are not ingested yet
  collected,  \* the queries of those that are
  awaited,    \* _model_queries: the queries of each interaction, {} if it has none
  round,      \* rounds completed
  budget,     \* iterations left in _wait_for_model_queries
  verdict,    \* how the cycle ended, "none" while it runs
  told,       \* history: the states of queries the model was told
  overruled   \* history: queries record_failed found admitted

answers   == <<told, overruled>>
cycleVars == <<hostLane, phase, turn, todo, collected, awaited, round, budget,
               verdict, answers>>
allVars == <<vars, cycleVars>>

Settled == Terminal \cup {"recovery_required"}
NoTurn  == [id |-> CHOOSE id \in Interaction : TRUE, calls |-> {}]

-----------------------------------------------------------------------------
(* The model and the ingestion of its turn.                                *)

New(q) == mem[q].state = "absent" /\ disk[q].state = "absent" /\ q \notin rejected

\* The bound on query ids: the model asks only for what a query is left for.
Askable == {c \in Call : ext[c] # NoQuery \/ \E q \in Query : Key[q] = c /\ New(q)}

\* The provider makes a turn of the reply: a call id that is repeated and a call too
\* many raise, as does the request itself.  Then ingest_model_turn begins.
Answers ==
  \E id \in Interaction :
  \E calls \in SUBSET {c \in Askable : InteractionOf[c] = id} :
    /\ Cardinality(calls) <= MaxCalls
    /\ turn' = [id |-> id, calls |-> calls]
    /\ todo' = calls
    /\ collected' = {}
    /\ phase' = "ingest"

Over(how) == phase' = "over" /\ verdict' = how

\* provider.turn answers or raises, before anything is ingested.
Prompt ==
  /\ up /\ phase = "idle"
  /\ \/ Answers /\ UNCHANGED verdict
     \/ Over("raised") /\ UNCHANGED <<turn, todo, collected>>
  /\ UNCHANGED <<vars, awaited, round, budget, answers>>

Collect(c, q) == /\ todo' = todo \ {c}
                 /\ collected' = collected \cup {q}

\* find_external_call knows the identity: the call joins the query it has.
IngestKnown ==
  /\ phase = "ingest" /\ rejected = {}
  /\ \E c \in todo : ext[c] # NoQuery /\ Collect(c, ext[c])
  /\ UNCHANGED <<vars, phase, turn, awaited, round, budget, verdict, answers>>

\* A query whose submit raised is awaited, and record_failed is forgotten.
IngestNewMutant ==
  /\ phase = "ingest" /\ rejected = {}
  /\ \E c \in todo : \E q \in Query :
       /\ Key[q] = c /\ ext[c] = NoQuery
       /\ SubmitAdmitted(q) \/ SubmitNotSaved(q) \/ SubmitRefused(q)
       /\ Collect(c, q)
  /\ UNCHANGED <<phase, turn, awaited, round, budget, verdict, answers>>

\* A new query is submitted; if submit raises, record_failed comes next.
IngestNew ==
  /\ phase = "ingest" /\ rejected = {}
  /\ \E c \in todo : \E q \in Query :
       /\ Key[q] = c /\ ext[c] = NoQuery
       /\ SubmitAdmitted(q) \/ SubmitNotSaved(q) \/ SubmitRefused(q)
       /\ IF rejected' = {} THEN Collect(c, q) ELSE UNCHANGED <<todo, collected>>
  /\ UNCHANGED <<phase, turn, awaited, round, budget, verdict, answers>>

\* record_failed; if it cannot save the rejection the whole cycle raises.
IngestRejected ==
  /\ phase = "ingest"
  /\ \E q \in Query :
       /\ RecordFailed(q)
       /\ overruled' = IF mem[q].state = "absent" THEN overruled ELSE overruled \cup {q}
       /\ IF faults' = faults
          THEN Collect(Key[q], q) /\ UNCHANGED <<phase, verdict>>
          ELSE Over("raised") /\ UNCHANGED <<todo, collected>>
  /\ UNCHANGED <<turn, awaited, round, budget, told>>

\* execute_agent_cycle looks at the turn: the rounds may be used up, whatever the
\* turn says; a turn without calls is returned; else the calls are waited for.
Continue ==
  \/ round = MaxRounds /\ Over("rounds")
  \/ round < MaxRounds /\ turn.calls = {} /\ Over("returned")
  \/ round < MaxRounds /\ turn.calls # {} /\ phase' = "wait" /\ UNCHANGED verdict

\* The queries of the turn are registered in _model_queries.
IngestEnds ==
  /\ phase = "ingest" /\ todo = {} /\ rejected = {}
  /\ awaited' = [awaited EXCEPT ![turn.id] = collected]
  /\ budget' = Budget
  /\ Continue
  /\ UNCHANGED <<vars, turn, todo, collected, round, answers>>

-----------------------------------------------------------------------------
(* _wait_for_model_queries.                                                *)

\* One settled query is enough.
AllSettledMutant == \E q \in awaited[turn.id] : mem[q].state \in Settled

AllSettled == \A q \in awaited[turn.id] : mem[q].state \in Settled

\* The head of the loop.
WaitLoop ==
  /\ up /\ phase = "wait"
  /\ IF budget = 0 THEN Over("budget")
     ELSE phase' = (IF AllSettled THEN "answer" ELSE "run") /\ UNCHANGED verdict
  /\ UNCHANGED <<vars, turn, todo, collected, awaited, round, budget, answers>>

\* run_until_idle(1) takes the execution lock and a query.
RunPicks ==
  /\ phase = "run" /\ Pick
  /\ phase' = "lane"
  /\ UNCHANGED <<turn, todo, collected, awaited, round, budget, verdict, answers>>

\* run_until_idle(1) finds nothing.
RunFindsNothing ==
  /\ up /\ phase = "run" /\ pc = "idle" /\ Ready = {}
  /\ heap' = {}
  /\ phase' = "check"
  /\ UNCHANGED <<up, accepted, mem, sequence, ext, disk, laneVars, rejected,
                 history, requeues, faults, stops>>
  /\ UNCHANGED <<turn, todo, collected, awaited, round, budget, verdict, answers>>

\* An idle lane: an ambiguous query ends the wait; otherwise the thread sleeps.
IdleCheck ==
  /\ up /\ phase = "check"
  /\ IF \E q \in awaited[turn.id] : mem[q].state = "recovery_required"
     THEN phase' = "answer" /\ UNCHANGED budget
     ELSE phase' = "wait" /\ budget' = budget - 1
  /\ UNCHANGED <<vars, turn, todo, collected, awaited, round, verdict, answers>>

-----------------------------------------------------------------------------
(* The lane, run by the cycle or by another thread of the host.            *)

\* run_once returns to the cycle, or an audit append in it raised.
LaneReturns ==
  /\ phase = "lane" /\ Finish
  /\ \/ phase' = "wait" /\ budget' = budget - 1 /\ UNCHANGED verdict
     \/ "audit" \in Faults /\ Over("raised") /\ UNCHANGED budget
  /\ UNCHANGED <<turn, todo, collected, awaited, round, answers>>

\* A RUNNING that could not be saved nor audited raises out of run_once.
Raises == pc \in {"picked", "save_running"} /\ pc' = "finish"

LaneWorks ==
  /\ \/ MarkRunning \/ SaveRunning \/ SaveRunningFails \/ RefuseStep \/ SaveRefused
     \/ ExecuteTool \/ RecordResult \/ SaveResult \/ SaveResultFails \/ SaveResume
     \/ Requeue
  /\ IF phase = "lane" /\ Raises THEN Over("raised") ELSE UNCHANGED <<phase, verdict>>
  /\ UNCHANGED <<turn, todo, collected, awaited, round, budget, answers>>

HostRuns ==
  /\ phase # "lane"
  /\ (hostLane /\ (Pick \/ FindIdle)) \/ Finish
  /\ UNCHANGED cycleVars

-----------------------------------------------------------------------------
(* Results.                                                                *)

\* Only what was completed is worth telling.
ResultsMutant == {<<q, mem[q].state>> : q \in {r \in awaited[turn.id] :
                                                mem[r].state = "completed"}}

\* _model_results_for_interaction: each query of the turn with its state.
Results == {<<q, mem[q].state>> : q \in awaited[turn.id]}

\* The entry of the interaction is popped.
Answer ==
  /\ up /\ phase = "answer"
  /\ told' = told \cup Results
  /\ awaited' = [awaited EXCEPT ![turn.id] = {}]
  /\ phase' = "send"
  /\ UNCHANGED <<vars, turn, todo, collected, round, budget, verdict, overruled>>

\* The rounds are not counted.
SendMutant ==
  /\ up /\ phase = "send"
  /\ Answers
  /\ UNCHANGED <<vars, awaited, round, budget, verdict, answers>>

\* send_results returns the next turn, or raises: the results are gone.
Send ==
  /\ up /\ phase = "send"
  /\ \/ Answers /\ round' = round + 1 /\ UNCHANGED verdict
     \/ Over("raised") /\ UNCHANGED <<turn, todo, collected, round>>
  /\ UNCHANGED <<vars, awaited, budget, answers>>

-----------------------------------------------------------------------------
(* Everyone else.                                                          *)

\* Host queries, and the operator; they do not touch the cycle.
Host ==
  /\ \E q \in Query : \/ ~ Keyed(q) /\ (SubmitAdmitted(q) \/ SubmitNotSaved(q))
                      \/ Operator(q)
  /\ UNCHANGED cycleVars

\* The process stops, and the cycle with it; what a restart makes of the queue is
\* the matter of QueryQueue.
StopAll ==
  /\ Stop
  /\ Over("stopped")
  /\ turn' = NoTurn /\ todo' = {} /\ collected' = {}
  /\ awaited' = [id \in Interaction |-> {}]
  /\ round' = 0 /\ budget' = Budget
  /\ UNCHANGED answers

CycleInit ==
  /\ Init
  /\ hostLane \in BOOLEAN
  /\ phase = "idle" /\ verdict = "none"
  /\ turn = NoTurn /\ todo = {} /\ collected = {}
  /\ awaited = [id \in Interaction |-> {}]
  /\ round = 0 /\ budget = Budget
  /\ told = {} /\ overruled = {}

Cycle == /\ \/ Prompt \/ IngestKnown \/ IngestNew \/ IngestRejected \/ IngestEnds
            \/ WaitLoop \/ RunPicks \/ RunFindsNothing \/ IdleCheck
            \/ Answer \/ Send
         /\ UNCHANGED hostLane
Lane  == (LaneWorks \/ LaneReturns \/ HostRuns) /\ UNCHANGED hostLane

CycleNext == \/ Cycle \/ Lane
             \/ (Host \/ StopAll) /\ UNCHANGED hostLane

CycleSpec == CycleInit /\ [][CycleNext]_allVars

\* As long as the thread of the cycle or a lane that has begun can go on, one of them
\* does; a tool call returns (tools.py and skills.py bound it).  Nothing is assumed of
\* the host, of the operator, or of which of the two threads is faster.
FairCycleSpec == CycleSpec /\ WF_allVars(Cycle \/ Lane)

-----------------------------------------------------------------------------
\* Every variable of the cycle has its type; the queries of the cycle are the
\* model's own, and known to the queue while the process runs.
CycleTypeOK ==
  /\ phase \in {"idle", "ingest", "wait", "run", "lane", "check", "answer",
                "send", "over"}
  /\ turn \in [id : Interaction, calls : SUBSET Call] /\ todo \subseteq Call
  /\ collected \subseteq Query /\ awaited \in [Interaction -> SUBSET Query]
  /\ round \in 0..MaxRounds /\ budget \in 0..Budget
  /\ verdict \in {"none", "returned", "rounds", "budget", "raised", "stopped"}
  /\ (verdict # "none" <=> phase = "over")
  /\ told \subseteq Query \X State /\ overruled \subseteq Query
  /\ \A q \in collected \cup UNION {awaited[id] : id \in Interaction} :
       Keyed(q) /\ mem[q].state # "absent"

\* An admission that was reported as a failure while another thread's lane may have
\* had the query: record_failed says FAILED, and the lane may yet run it.
Contested(q) == hostLane /\ q \in overruled

\* The model is told only states that execution will not change on its own: no
\* result says that a query is still queued, running or paused, unless the operator
\* requeued it after the cycle had looked, or the query is contested.
AnswersAreSettled ==
  \A t \in told : requeues[t[1]] = 0 /\ ~ Contested(t[1]) => t[2] \in Settled

\* A tool call the model has been answered about does not happen afterwards,
\* unless the operator requeued it or the query is contested.
NothingRunsAfterAnswer ==
  [][\A q \in Query : \A t \in told :
       t[1] = q /\ requeues[q] = 0 /\ ~ Contested(q)
         => effects'[q] = effects[q]]_allVars

\* docs/SECURITY.md, "durable result/checkpoint" before the answer: a query the
\* model is told is completed is completed on disk, unless another thread's lane is
\* still saving it.
CompletedAnswersAreDurable ==
  [][\A t \in told' \ told :
       t[2] = "completed" =>
         \/ disk[t[1]].state = "completed"
         \/ hostLane /\ active = t[1] /\ pc = "save_result"]_allVars

\* A cycle that returns a turn has answered every effect it caused.
EffectsAreAnswered ==
  verdict = "returned" =>
    \A q \in Query : Keyed(q) /\ effects[q][0] > 0 => \E t \in told : t[1] = q

\* A cycle comes to an end, with a turn or with an exception, unless it is stopped.
CycleEnds == <>(phase = "over")

\* Work of a lower class does not use up the steps of a round: without faults and
\* requeues, which cost a step each, one step per call and one to notice suffice.
BudgetSuffices ==
  verdict = "budget" => faults > 0 \/ \E q \in Query : requeues[q] > 0
=============================================================================
