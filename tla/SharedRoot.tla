------------------------------ MODULE SharedRoot ------------------------------
(***************************************************************************)
(* Two ABIYSS processes on one root directory.  Each CLI command builds a  *)
(* runtime of its own on the configured root (cli.py), restores the queue  *)
(* from the files it finds and works on them; _lock and _execution_lock    *)
(* are private to a process, and nothing marks the root as taken.          *)
(*                                                                         *)
(* Each process is a QueryQueue with variables of its own; they share the  *)
(* files and the effects.                                                  *)
(***************************************************************************)
EXTENDS Integers, FiniteSets

CONSTANTS Query, Call, NoQuery, NoCall, Type, Priority, Steps, Key, Rank,
          MaxQueries, Registries, Faults, MaxSteps, MaxFaults, MaxStops,
          MaxRequeues,
          Mine   \* the queries that clients of the first process submit

VARIABLES
  up, accepted, mem, heap, sequence, ext, active, preempt, pc, snap, outcome,
  rejected,                                                \* the first process
  up2, accepted2, mem2, heap2, sequence2, ext2, active2, preempt2, pc2, snap2,
  outcome2, rejected2,                                     \* the second process
  disk, effects, unsuccessful, requeues, faults, stops     \* shared

one == <<up, accepted, mem, heap, sequence, ext, active, preempt, pc, snap,
         outcome, rejected>>
two == <<up2, accepted2, mem2, heap2, sequence2, ext2, active2, preempt2, pc2,
         snap2, outcome2, rejected2>>
vars == <<one, two, disk, effects, unsuccessful, requeues, faults, stops>>

One == INSTANCE QueryQueue
Two == INSTANCE QueryQueue
         WITH up <- up2, accepted <- accepted2, mem <- mem2, heap <- heap2,
              sequence <- sequence2, ext <- ext2, active <- active2,
              preempt <- preempt2, pc <- pc2, snap <- snap2,
              outcome <- outcome2, rejected <- rejected2

Init == One!Init /\ Two!Init

\* A process: its clients submit what is theirs, its operator sees all it restored.
StepOfOne == \/ \E q \in Mine : One!Client(q)
             \/ \E q \in Query : One!Operator(q)
             \/ One!RunOnce \/ One!Stop \/ One!Start

StepOfTwo == \/ \E q \in Query \ Mine : Two!Client(q)
             \/ \E q \in Query : Two!Operator(q)
             \/ Two!RunOnce \/ Two!Stop \/ Two!Start

Next == \/ StepOfOne /\ UNCHANGED two
        \/ StepOfTwo /\ UNCHANGED one

Spec == Init /\ [][Next]_vars

-----------------------------------------------------------------------------
\* docs/BUILD_REPORT.md, "Duplicate identities are not executed twice": whatever
\* the processes on one root do, the call of one external identity is executed once,
\* and once more for each requeue of an operator.
IdentityExecutedOnce ==
  \A q \in Query : One!Keyed(q) => effects[q][0] <= 1 + requeues[q]
=============================================================================
