# A verification project for the ABIYSS runtime

ABIYSS is a local agent runtime: a model proposes tool calls, the runtime turns
them into durable *Queries*, and one execution lane runs them against the
operating system.  Its central promise is about failure: whatever crashes or
fails to be written, an operation that may have happened is never repeated
without an operator asking for it.  This project models the parts of
`src/src/abiyss` where that promise and its neighbours are kept, checks them
with TLC on small instances and proves the central ones with TLAPS.

## 1. Inventory

| component | code | state it keeps | operations | interacts with |
|---|---|---|---|---|
| query queue | `qq.py` | `_queries`, `_heap`, `_sequence`, `_external_calls`, `_active`, `_preempt` | `submit`, `record_failed`, `run_once`, `resolve_recovery`, `restore` | store (saves), runtime (clients), tools (`tool_execute`), audit |
| query, checkpoint | `models.py` | state, step index, result, error | `transition`, `to_dict`, `from_dict` | used by queue and store |
| durable store | `qups.py`, `atomic.py` | one `.qups` file per query | `save`, `load` | written by the queue, read by `restore` |
| runtime | `runtime.py` | `_model_queries`, `last_interaction_id`, `_closed` | construction, `ingest_model_turn`, `execute_agent_cycle`, `shutdown` | owns every other component |
| model provider | `gemini.py` | none of its own (a network client) | `turn`, `send_results` | called by the agent cycle |
| memory | `memory.py` | SQLite tables keys, memories, relations, recaps | `add_memory`, `unrecapped_memories`, `create_immutable_recap` | read and written by sleep |
| sleep | `sleep.py` | `_last_tick`, `_last_review` | `tick`, `review` | memory, Obsidian directory, audit |
| tool plane | `tools.py`, `schema.py` | the registry; a child process and its reader thread | `validate_call`, `execute`, `ProcessTool.run` | called by the lane |
| skills | `skills.py` | a manifest and its files | `load`, `verify`, `execute` | a child process, like the tool plane |
| audit | `audit.py` | the audit file | `append` | called by everyone, may raise |
| configuration, CLI | `config.py`, `cli.py` | none; a root directory it shares with every other command | `prompt`, `recover`, `status` | each builds a runtime of its own on the root |
| alignment, security | `alignment.py`, `security.py` | none | pure checks | construction of the runtime |
| Rust stub, installers | outside `src/src/abiyss` | none | none | none |

What makes each correct:

- *queue and store*: no automatic replay; evidence of an effect survives every
  failure; a tool is called only behind a durable RUNNING; checkpoints only
  advance; a file that says a query is over stays; an identity is executed once;
  the best query runs next; equal queries run in order; no queued query is
  forgotten, and an idle lane leaves nothing half done.
- *one file*: a save that returned survives a loss of power, and a load meets one
  whole document, whatever else is saved to the path.
- *agent cycle*: the model hears of settled queries only, of every effect it
  caused, and of a completion that is on disk; each cycle ends.
- *memory and sleep*: a source is not recapped twice, what was sensitive at first
  is in no recap, a note has its recap, and what counts as represented is in one
  (which the code does not keep, see section 3).
- *process execution*: a child never outlives its deadline unnoticed, and a
  result never claims success over truncated output.

What is hard to test here: three kinds of actor share the queue, and the lane
holds `_lock` only while it takes, requeues and releases a query, not while it
changes the query, writes it and calls the tool; every write can fail
before or after the file is replaced; the process can stop between any two of
these; an audit append can fail after the work it reports is done; a restart
rebuilds everything from files in an order unrelated to admission; and a second
command may do all this on the same files.

## 2. The modules

| module | models | built on |
|---|---|---|
| `QueryQueue` | `qq.py`, the state machine of `models.py`, the outcomes of `qups.py`/`atomic.py`, the admission path of `runtime.py` | |
| `QueryQueueFifo` | a history variable for the order of admission | extends `QueryQueue` |
| `DurableEffect` | what the queue promises about effects, without lane, lock, heap or states | implemented by `QueryQueue` |
| `AtomicWrite` | saves and loads of one `.qups` file, call by call (`atomic.py`, `qups.py`) | |
| `DurableRegister` | a file that is replaced as a whole, as the queue takes it to be | implemented by `AtomicWrite` |
| `SharedRoot` | two processes on one root (`cli.py`) | two instances of `QueryQueue` that share files and effects |
| `AgentCycle` | `execute_agent_cycle` and what it calls | extends `QueryQueue`; every step of it is a step of the queue |
| `SleepMemory` | `memory.py` and the tick of `sleep.py` | |
| `ToolProcess` | `ProcessTool.run` and `SkillLoader.execute` | |
| `QueryQueueProofs` | theorems about `QueryQueue`: replay, checkpoints, RUNNING, and that it implements `DurableEffect` | |
| `QueryQueueOutcome` | theorems about `QueryQueue`: outcomes, final states, final files and identities | |
| `QueryQueueScheduling` | theorems about `QueryQueue` and `QueryQueueFifo`: the heap, the order of execution, capacity | |
| `DurableEffectProofs` | theorems about `DurableEffect` | |
| `AtomicWriteProofs` | theorems about `AtomicWrite`, and that it implements `DurableRegister` | |
| `AgentCycleProofs`, `SleepMemoryProofs`, `ToolProcessProofs` | theorems about the modules they are named after | |
| `MC...` | values for the constants of the module they are named after | |

A definition whose name ends in `Mutant` is a plausible slip of the code; it is
put in the place of its original to see that a property notices it.

### QueryQueue

State: `mem` is `_queries` with the `Query` objects in it, `disk` the `.qups`
files, `heap` and `sequence` the priority queue, `ext` `_external_calls`,
`active` and `preempt` their namesakes, `pc` and `snap` the place of the lane in
`run_once` and what it is about to save, `rejected` the queries whose `submit`
raised and for which `ingest_model_turn` has yet to call `record_failed`.  A
query is its state and the next step; payloads, times, attempts and messages
change nothing the queue decides.  `effects`, `unsuccessful` and `requeues`
only record what happened.

Actions: `SubmitRefused`, `SubmitNotSaved`, `SubmitAdmitted` and `RecordFailed`
are the clients, each atomic under `_lock`.  The lane, `run_once`, is split where
another actor can come in or a failure changes what follows: `Pick`/`FindIdle`
(`_next_id`), `MarkRunning`, `SaveRunning`/`SaveRunningFails`, `RefuseStep`,
`SaveRefused`, `ExecuteTool`, `RecordResult`, `SaveResult`/`SaveResultFails`,
`SaveResume`, `Requeue`, `Finish`.  `ResolveCancel` and `ResolveRequeue` are the
operator, `Stop` and `Start` the end of the process, by exit or crash, and the
constructor with `restore`.

A save has three outcomes, as `atomic_write_bytes` has: done; not done ("fail");
the file replaced and then an exception, from the directory sync ("torn").  An
audit append may raise ("audit") where the exception changes what follows:
behind the admission of a query and behind a failed save of RUNNING.  A file may
be unreadable at restore ("read").  Which of these can happen is the constant
`Faults`, how often `MaxFaults`.

Granularity.  The lane's change of a query object and the snapshot it writes are
one step, the write another; the tool call is one step; `restore` is one step
because nobody can use the runtime before its constructor returns.  Submission
to a closed runtime is left out.  Neither the change nor the snapshot is made under
`_lock`, and `store.save` takes the snapshot, so that three finer orders are left out:

- An actor that comes in between change and snapshot is met by the snapshot: memory
  and file end as if it had come right behind the save.  If its own save fails and
  the lane's succeeds they end as with a torn save of its own.
- `record_failed` may come in between the test and the assignment of
  `Query.transition` (`models.py:163-165`); its FAILED is then lost, as it is when
  it comes just before a failing save of RUNNING (`qq.py:157`).
- `_step_index` may raise outside the inner `try` (`qq.py:216`) on a checkpoint that
  holds no number; no code writes one.

### DurableEffect

A query is open at a step if somebody who knows only the files could run it from
there, and closed otherwise.  The abstract system closes queries as it likes,
opens one only at a step with nothing spent from there on, runs a step only of a
closed query, and lets somebody grant one more run.  `ImplementsDurableEffect`
maps the files to `start` (a file in a state that `restore` starts from is open
at its checkpoint), `effects` to `ran` and `requeues` to `granted`.  Nothing of
the queue's memory takes part in the mapping, which is the point of it: the
promise is kept by the files alone.

### AtomicWrite

Each save of a path is a document with a temporary file of its own; `pc` is its
place in `atomic_write_bytes`, `written` and `synced` how much of the file exists
and how much survives a loss of power, `name` the document the path names,
`behind` the documents the directory may hold after a loss of power, `fd` and
`got` the reader in `load`.  Every call may raise, a save may be killed, power
may be lost at any point.  Saves of one path overlap freely, since the lane saves
outside `_lock`.  A document that fails its hash is not `Whole`;
`ImplementsRegister` maps the path to the whole document a reader finds, and
`behind` to those it may find after a loss of power.

Why three outcomes are enough for `Save` in `QueryQueue`: the register is
replaced at the renaming, and a save returns normally only when it is settled.  A
stop before the renaming is a stop before the save, one after it a stop after
it; an exception before it is "fail", one after it "torn".  Both leave the same
process behind, so a loss of power that takes a torn save back is a behaviour in
which the save was "fail".  Left out of the queue is the longer chain of a process
killed between renaming and settling, a restart that reads the new document, and
a loss of power that takes it back before anything is saved to that path again.

### SharedRoot

Two instances of `QueryQueue`, each with the variables a process keeps in memory,
over the same `disk`, `effects` and history.  A second command is modelled as what
it is: the whole of `AbiyssRuntime.__init__`, its restore and its lane.

### AgentCycle

Extends `QueryQueue`.  `phase` is the place of the cycle's thread in `prompt`,
`ingest_model_turn`, `_wait_for_model_queries`, `_model_results_for_interaction`
and `send_results`; `turn`, `todo` and `collected` the turn being ingested;
`awaited` is `_model_queries`; `round` and `budget` are the loop counters; `told`
records what the model was told, `overruled` the queries that `record_failed`
found admitted already, because an audit append raised behind the admission.
`RunPicks` to `LaneReturns` are the cycle inside `run_until_idle(1)`; `HostRuns`
is another thread in `execute_pending`; the two exclude each other through `pc`,
as through `_execution_lock`.  `hostLane` is chosen in the initial state and never
changes, so one run covers hosts with and without such a thread.  The provider is
external: it answers with any turn of a known interaction, at most `MaxCalls`
calls, each once, or raises (as `gemini.py` does on a repeated id or a call beyond
64).  Left out: turns without an interaction id (their calls are host queries) and the
branch `if not results`, which no cycle of one thread can take.  The states the
cycle reads in one comprehension are read in one step.

### SleepMemory

`rows` is the memories table in insertion order, `recaps` the recaps table,
`notes` the Obsidian files, `sinceTick` the age of `_last_tick`; `pc`, `sinceNow`
and `batch` are the place of each ticker in `tick`, the age of its `now` and the
row ids it read; `crew`, chosen once, the threads that call `tick`.  A row stands
for a (key, content, source) triple; a source is a number because
`create_immutable_recap` sorts source ids before it cuts them.  Rows, batches and
recaps are sets of ids: ORDER BY id DESC with a limit is the newest of a set.  The
steps are those another thread, a host or a crash can fall between: the check of
the interval, the read (with the summary, a pure function of it), the recap (with
`_last_tick`, which only another ticker could see in between), and the note.  The
wall clock does not go back.  Any memory may be added at any time, again and with
any flag; `secret` records those that were sensitive at first.  The newline between
joined contents, `review` and relations are left out.

### ToolProcess

One call.  `kind` is which of the two it is: `SkillLoader.execute`, which kills a
child that exceeds the limit, or `ProcessTool.run`, which does not.  `child` and
`descendant` are the processes of the group, `pipe` the output not yet returned
by `read`, `reader` and `main` the two threads, `stop`, `exceeded` and `captured`
what they share; `forked` and `written` only record what happened.  `read(8192)`
on the buffered stream returns a full chunk or the rest at end of file, and holds
the stream's lock meanwhile, which is why `Close` waits for a reader inside it.
`join(timeout=2)` gives up only on a reader that waits for data: two seconds are
taken as enough for the reader to do anything else.  `WaitExpires` finds the
deadline and kills the group in one step, and the second `process.wait(timeout=2)`
(`tools.py:166-178`), which raises if the killed child does not go within two
seconds, is taken to return.

## 3. What the runs check

Passing runs:

| run | question | bounds |
|---|---|---|
| `scheduling` | Is a queued query ever forgotten? Does the best one run next, and equal ones in order? Is capacity kept? Does an idle lane leave anything half done? | 4 queries (3 foreground, 2 of them equal, and 1 background of 2 steps), capacity 2, 1 stop, no fault, 1 requeue each, a tool that may be gone after a restart |
| `recovery` | Is a step ever replayed without an operator? Does the file always show that it may have happened? Is RUNNING durable at each tool call? Does a checkpoint go back? Does the queue implement `DurableEffect`? | a foreground and a background query, 2 faults of any kind, 2 stops, 1 requeue each, a tool that may be gone after a restart |
| `identity` | Are two queries of one model call both executed? Does COMPLETED mean that each step succeeded? Does the final file of a query without a call stay? | 3 queries, two of one call, 2 failing saves or audit appends, 2 stops, no requeue |
| `durable_write` | Does a save that returned survive a loss of power? Does a load ever meet a document in parts? Is the file a register? | 4 documents of one, two and three pieces, of which two are the limit, any of them interrupted, any number of losses of power |
| `agent_cycle` | Is the model told the truth, and all of it? Does each cycle end, and has it steps enough? | 2 calls of one interaction, 1 background query of 2 steps, with and without a second thread on the lane, 1 failing save or audit append, 1 stop, no requeue, 2 rounds of 3 steps |
| `consolidation` | Is a source recapped twice, by one thread or by several? Is a memory that was sensitive at first in a recap or a note? Is there a note without a recap? | 4 memories of 3 sources, each with any flag, one blank, two pairs that exceed a recap together; batch 3, window 3, excerpt 2, 2 sources a recap; one or two tickers, 1 crash |
| `tool_process` | Does the call return? Does "ok" carry all the output? Is the group gone after a timeout? Is a skill that floods killed? | both kinds, limit 5, chunk 2, pipe 3, any descendant |

Why these bounds are enough to mean something: two queries and a lane show every
overlap of client, lane and operator, and preemption; the third brings a
duplicate call, the fourth a full queue behind an unsettled pair.  Two
steps are the fewest with a checkpoint that is neither the first nor the last.
Two faults let a save and its compensation both fail; one stop divides a
behaviour into before and after, two let a restored state be restored again.
Four saves let one be refused, one be replaced, and two race.  Up to four memories
may be read, so that the window of 3 leaves the oldest out before the filter, the
batch holds more than the excerpt and more sources than a recap names; the cycle's
two calls leave one awaited while the other is settled, and three steps are one
more than they need.  With chunk 2 and limit 5 the limit falls inside a
chunk; a pipe of 3 makes the child wait.  Unreadable files in `scheduling`, and
requeues and faults of both kinds together in the cycle, are left to the theorems.
Each property fails in its run when the mutant named in `PROJECT.json` replaces the
code.  `CHECK_DEADLOCK FALSE` throughout: a queue without work, a bounded fault
counter and a returned call may stop.

Violation runs, each one property the repository states and the code does not
keep:

| run | what the code does | what the repository says |
|---|---|---|
| `lost_cancel` | an operator cancels, under `_lock`, while the lane, without it, is inside the save of RECOVERY_REQUIRED, which then replaces the cancelled file | `models.py`: CANCELLED has no successor |
| `torn_admission` | a QUEUED file nobody registered and its retry are both executed, if the process stops before `record_failed` replaces the file or that save fails too | BUILD_REPORT: identities are not executed twice |
| `two_commands` | a second command restores a query the first is about to run, and both execute it | the same |
| `excerpt_only` | a tick names every source of its batch, but its recap holds only the excerpt (16 of up to 256): the rest counts as represented, is in no recap and never read again | ARCHITECTURE: a tick consumes memories that no recap represents |
| `flood_times_out` | nothing kills a flooding child of a process tool before its deadline | the repository's test, and CONTRACTS: killed on output violation |

### The conditions of the properties

Some properties hold only under a condition, which is written in the property or
in the constants of its run.  Each stands for something the code does:

| property | condition | because |
|---|---|---|
| `DurableRunningBeforeEffect` | the query is RUNNING in memory | an audit append that raises behind an admission makes `record_failed` put FAILED over the RUNNING of a query already on the lane; its tool is still called |
| `DurableTerminalIsFinal` | not a query whose `submit` raised | the same |
| `DurableTerminalIsFinal` | no other file of the same call | `restore` assigns RECOVERY_REQUIRED to the later file of a call, whatever its state (`qq.py:335`) |
| `DurableTerminalIsFinal` | the passing run knows every tool, and only the query without a call is in its reach | `lost_cancel`, where a tool is gone after a restart; queries of one call, see above |
| `DuplicateCallOnce` | one process, no save that replaces the file and then raises, no unreadable file | `two_commands`, `torn_admission`; an unreadable file takes the evidence with it |
| `CompletedMeansSucceeded` | not requeued | an operator's requeue may pass a failed step over |
| `BestQueuedRunsNext`, `QueuedIsScheduled` | no fault but unreadable files (`NothingDropped`, section 4) | `resolve_recovery` sets QUEUED before its save and pushes after it (`qq.py:374`) |
| `IdleMeansSettled` | no save and no audit append raises (`OnlyReadsFail`, section 4) | a failing second save leaves a preempted query PAUSED until a restart (`qq.py:264`), and a failing result is RECOVERY_REQUIRED over a RUNNING file |
| `FifoAdmissionOrder`, `CapacityRespected` | within one run of the process, no fault but unreadable files | `restore` numbers queries in the order of random file names, and restores all of them; a query that `record_failed` overruled comes back as RECOVERY_REQUIRED if its result cannot be saved |
| `AnswersAreSettled`, `NothingRunsAfterAnswer` | not requeued, not `Contested`; one fault | a second thread may run a query whose admission was reported as a failure; with two faults a RUNNING that can be neither saved nor audited on another thread's lane leaves the query QUEUED in no heap, and a neighbour of its turn that is RECOVERY_REQUIRED ends the wait (`runtime.py:161`) |
| `CompletedAnswersAreDurable` | not while another thread's lane is saving the query | `_wait_for_model_queries` reads COMPLETED before that save, which may fail |
| `BudgetSuffices` | no fault, no requeue in the behaviour | each costs a step |
| `FreshSourcesOnly` | one ticker | two ticks that overlap read the same memories |
| `RecapsPerSource` | as many recaps of a source as threads that tick | each of them may have read the source before another stored its recap |
| `SecretIsNotRecapped` | the flag of the first call counts | INSERT OR IGNORE keeps the row (`memory.py:119`): a memory that is flagged later is recapped as before, although CONTRACTS excludes sensitive memory without a condition |
| `CallReturns` | the child left no descendant | `close()` waits for the reader, and the reader for whoever holds the pipe |
| `OkMeansComplete` | a process tool without descendants | `SkillLoader` sets the event before it joins its reader, which may leave a pipe that still holds output |

### Fairness

- `FairCycleSpec`: as long as the cycle's thread or a lane that has begun can go on,
  one of them does.  Which of them is left open; a thread that waits for
  `_execution_lock` needs only that its holder goes on.  A tool call is assumed to
  return; `ToolProcess` says when it does.
- `ThreadsSpec` of `ToolProcess`: the two threads run.  Nothing is assumed of the
  child, which may write, sleep or live for ever, nor of the deadline:
  `CallReturns` starts from it, and `FloodIsKilled` must not need it.

No liveness is claimed of the queue or of Sleep.  An agent cycle stops running the
lane as soon as its own queries are settled (`runtime.py:156-158`), no other command
runs it but `execute_pending` of a host, there is no daemon, and Aqueries that keep
coming starve Squeries by design; nothing makes a host call `tick`.  What holds
whoever calls is stated as safety: `IdleMeansSettled`, `QueuedIsScheduled`.

## 4. What is proved

All theorems hold for any values of the constants that satisfy the ASSUMEs of
the module: the sets are finite where they are counted, a query has 1 to
`MaxSteps` steps, a model call is a one-step Aquery, file names are distinct, a
pipe holds a chunk, limits are positive.  A further condition of a theorem is
written in its statement.

| module | theorems, and the property each establishes |
|---|---|
| `QueryQueueProofs` | `ReplayInvariantHolds`, `NeverReplayed` (`NoAutomaticReplay`), `EffectsStayEvident` (`EffectIsEvident`), `TypesHold` (`TypeOK`), `CheckpointsAdvance` (`CheckpointNeverRegresses`), `RunningBeforeEffect` (`DurableRunningBeforeEffect`), `QueueImplementsDurableEffect` (`ImplementsDurableEffect`) |
| `QueryQueueOutcome` | `CompletionIsEarned` (`CompletedMeansSucceeded`), `CompletionIsBacked`, `IdentitiesRunOnce` (`DuplicateCallOnce`, if faults are failing saves and audit appends), `FilesStayFinal` (`DurableTerminalIsFinal`, under `FilesAreKept`) |
| `QueryQueueScheduling` | `LaneNeverChooses`; under `NothingDropped`: `NoneIsForgotten` (`QueuedIsScheduled`), `BestIsTakenFirst` (`BestQueuedRunsNext`); under `OnlyReadsFail`: `CapacityIsRespected` (`CapacityRespected`), `EqualsRunInOrder` (`FifoAdmissionOrder`), `NothingIsLeft` (`IdleMeansSettled`) |
| `DurableEffectProofs` | `OncePerGrantHolds` |
| `AtomicWriteProofs` | `TypesHold` (`TypeOK`), `SaveInvariantHolds`, `SavesAreDurable` (`AcknowledgedSurvives`), `LoadsMeetWholeDocuments` (`LoadsAreWhole`), `FileImplementsRegister` (`ImplementsRegister`) |
| `AgentCycleProofs` | `CycleRunsQueue`, `CycleTypesHold` (`CycleTypeOK`), `EffectsAreTold` (`EffectsAreAnswered`), `CompletionsToldAreDurable` (`CompletedAnswersAreDurable`); under `RefusalIsAudited`: `AnswersTellTheEnd` (`AnswersAreSettled`), `AnsweredIsOver` (`NothingRunsAfterAnswer`); under `EnoughSteps`: `RoundHasStepsEnough` (`BudgetSuffices`) |
| `SleepMemoryProofs` | `TypesHold` (`TypeOK`), `NotesAreBacked` (`NotesHaveRecaps`), `FreshRecaps` (`FreshSourcesOnly`), `OverlapIsBounded` (`RecapsPerSource`), `FirstFlagHolds` (`SecretIsNotRecapped`) |
| `ToolProcessProofs` | `ToolTypesHold` (`TypeOK`), `TimeoutIsClean` (`TimeoutLeavesNobody`), `OkIsComplete` (`OkMeansComplete`) |

Every invariant and every action property of the passing runs is a theorem, for
every value of the constants or under one of these conditions.  They are
conditions because TLC has a counterexample without each part of them:

| condition | says | without it |
|---|---|---|
| `NothingDropped` | no audit append raises behind another fault; no save raises if there are requeues | a RUNNING that can be neither made durable (its save failed, or `record_failed` overruled the query) nor audited leaves the query QUEUED in no heap, and so does a requeue whose save fails (`qq.py:374`) |
| `OnlyReadsFail` | no save and no audit append raises | a result whose save fails becomes RECOVERY_REQUIRED, and a query that `record_failed` overruled QUEUED, both unsettled again after a client was given the place; a query whose RUNNING cannot be saved goes to the back of its rank before it ever ran; a preempted one stays PAUSED when its second save fails |
| `FilesAreKept` | no save replaces the file and then raises; no save raises if there are requeues; tools stay registered; no audit append raises behind the only query of a call | `lost_cancel`; a torn save of a result, whose file the operator then reopens; a step refused by the registry over a final file |
| `RefusalIsAudited` | not both a failing save and a failing audit append | a RUNNING that can be neither saved nor audited on another thread's lane stays QUEUED in no heap, and the cycle answers it |
| `EnoughSteps` | a round has more steps than a turn has calls; every Aquery is a call of the model | the last step of a round is taken before the loop looks again; an Aquery of a host may be run in the place of the awaited one.  The code has 1000 steps and at most 64 calls |

*Replay.*  `NoAutomaticReplay` is not inductive: nothing in it says why a query
about to run has not run before.  `ReplayInvariant` adds that.  A record in a
state from which its next step may be started automatically (absent, queued,
paused) is *unspent*: from its next step on, nothing was executed beyond what the
operator asked for.  That holds of every record on disk, in memory, and in the
hand of the lane (`snap`); and while the lane is between RUNNING and the result,
the disk is in a state a restart does not start from.  A save moves an unspent
record from one place to another; an effect happens only when memory and disk are
both out of the startable states; the checkpoint advances before the record
becomes startable again; the operator's requeue raises the allowance.  `TypeStep`
and `ReplayStep` go through the actions one by one.  For checkpoints, the lane's
record is never behind the file, an invariant of the same shape
(`CheckpointStep`).  For the calls of tools, `RunningIsDurable` says that from
the snapshot of RUNNING to the call, snapshot, file and memory agree, unless
`record_failed` came in between.

*Refinement.*  `ReplayInvariant` also makes every step of the queue one of
`DurableEffect`: a save that leaves a file startable opens the query at an unspent
step, any other save closes it or leaves it, `ExecuteTool` runs a step of a
closed query, `ResolveRequeue` is a grant, and a restart closes the files it
finds ambiguous.  `OncePerGrantHolds` then says what that is worth.

*Scheduling.*  `HeapOrdered` says that no two entries of the heap have the same
number, so `FirstEntry`, which counts what is ahead of each, finds the one entry that
comes before all others: a lane is a function of the heap, whatever the heap's
layout.  `QueuedIsScheduled` needs `ResultInHand`, which says what the lane holds
between the snapshot of a result and its save, and `TakenAsQueued`, which says that
until the first fault a query the lane has taken stays QUEUED.  `Undisturbed` describes a lane
whose saves succeed, and gives `NoneReopens`: no step but an admission makes a
query unsettled, which is the whole of the argument for the capacity.
`AdmissionOrder` relates the numbers in the heap to the history of admissions, for
queries that never ran; a query that ran and was preempted has a new number and
does not take part.  `IdleMeansSettled` is not inductive: `OthersAtRest` adds that
while the lane works only its own query is on the way, every other one being queued
or over on both sides, and that the lane comes to its end only with a query at rest.

*Outcomes.*  `OutcomeInvariant` says of every record in memory, on disk and in the
hand of the lane that it has only successful steps behind it while it is in one
of the regular states, and of the lane that it starts from such a record even
where `record_failed` overrules it; it leaves requeued queries out.
`CompletedOnDisk` ties COMPLETED in memory to the file.  `IdentityInvariant`
says that what was admitted or executed is on file, that a process which is up
has registered the call of each query it knows more of than a failure, and that
of the queries of one call at most one may be run without the operator or has
been run; `Least` finds the file of a call that `restore` reads first and
registers.  `FinalFiles` is about files that say a query is over: from then on
memory holds the same state or nothing, and the lane has nothing left to save for
the query; before it, a query that can reach the lane has a step left, so that
`run_once` never refuses a step whose file is final.

*One file.*  `SaveInvariant`: a file is complete on disk before it gets the name
and is never written again; what the directory may hold got there by a renaming;
a save that synchronises the directory is behind the current name.

*Agent cycle.*  Every step of the cycle is a step of the queue or leaves it alone
(`CycleStepsAreQueueSteps`), so the queue's invariants hold in the cycle.
`CycleShape` describes each phase.  `Ledger` accounts for every query of a model
call: it was told, or is among the queries to be rejected, collected or awaited; with `OneTurnAwaited` nothing is awaited when a cycle returns.
`LaneOwned` says who is on the lane, which bounds the window in which COMPLETED
is read before its save.  `InPlace` says of a query of the model that it is in the
heap or on the lane as its state tells, which `PlaceStep` carries through every
step that neither requeues nor overrules it; with it `CheckIsReached` and
`NothingLeft` show that when `run_until_idle` finds nothing, everything awaited is
settled, and `AnswersStand` that what was told stays so (`AnswersStep`).  `BudgetLeft`
is a balance: the steps left of a round exceed the queries that are awaited and
not settled (`Left`).  A step of the lane is charged when it returns, and then it
has settled a query of `Left`, because `OwnCallIsPicked`: an awaited query is in
the heap and outranks whatever is not a call of the model, and `Straight`: a
call has one step and is never pushed back.

*Sleep.*  `RecapIsStored` (a ticker that is about to write a note has stored the
recap) and `BatchIsFresh` (with one ticker, what was read is still fresh).  With
several tickers what was read may be stale; `OverlapInvariant` is a balance for each
source: the recaps that name it and the tickers that hold it unrecorded are together
no more than the crew, and once a recap names it no ticker takes it up.
`FlagInvariant` says that an item that was sensitive at first has that flag in its
row for ever, and that what was read, recapped or noted is of rows that may be read.

*Process.*  `OutputInvariant` counts: as long as nothing was cut, what was
captured and what is in the pipe add up to what was written; the reader leaves
an open pipe only when it is empty and no writer is left, or after a deadline,
whose result is not "ok".  `KilledIsGone` says that from the kill on nobody of
the group is left, and nobody is there to fork.

Only model-checked: the liveness properties `CycleEnds`, `CallReturns` and
`FloodIsKilled`, which under fairness are outside TLAPS; and the violation runs, which are counterexamples.

## 5. What is not modelled

- Validation of fields, schemas, arguments and manifests, encodings, digests,
  redaction: sequential functions of their arguments.
- The requests and responses of `gemini.py` beyond the calls a turn takes, and the
  model itself, which says anything.
- The alignment of keys and the emergence of skills: nothing in the runtime calls
  them.
- The checks of `security.py`, file modes and symbolic links: a file system and
  its users would have to be modelled for them to mean something.
- `review`, relations and key creation of the memory: one statement each.
- Turns without an interaction id and a closed runtime; a cycle after a restart
  (the queue goes on without it).
- Parsing of configuration and arguments, installers and the Rust stub.

## 6. How the project grew, and what could follow

The order was: `QueryQueue` with its proofs, `QueryQueueFifo`, `SleepMemory`,
`ToolProcess`, `AgentCycle`; then the two abstract specifications with their
refinements, `AtomicWrite` and `SharedRoot`, the proofs of outcomes, sleep
and the cycle; then those of scheduling, final files, answers, steps and overlapping ticks.  What a change of the code would call for first:

1. A lock on the root (`cli.py`): `IdentityExecutedOnce` becomes a passing
   property of `SharedRoot`.
2. A save under `_lock`, or a check of the state before it, in `run_once`:
   `DurableTerminalIsFinal` without its conditions.
3. A registration of the identity before the save, or a restore that compares it
   before it pushes: `DuplicateCallOnce` with torn saves.
4. A push before the save in `resolve_recovery`, or a compensation behind it:
   `QueuedIsScheduled` without the second part of `NothingDropped`.
5. A place in the queue that is kept until the result is saved: `CapacityRespected`
   with failing saves.
6. A tick that names only the sources of its excerpt: `RepresentedIsRecapped`.
