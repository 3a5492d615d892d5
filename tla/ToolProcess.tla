----------------------------- MODULE ToolProcess -----------------------------
(***************************************************************************)
(* One run of a child process by ProcessTool.run (tools.py) or by          *)
(* SkillLoader.execute (skills.py).  The caller waits for the child with a *)
(* deadline, a reader thread drains its output through a pipe, and only    *)
(* SkillLoader kills a child whose output exceeds the limit.  The child    *)
(* may leave a descendant behind that inherits the pipe.                   *)
(*                                                                         *)
(* Output is counted in units; what the buffered reader has taken from the *)
(* pipe but not yet returned counts as still in the pipe.  A thread.join   *)
(* with its timeout of two seconds gives up only on a reader that waits    *)
(* for data, never on one that is merely slow.                             *)
(*                                                                         *)
(* Definitions whose name ends in Mutant are plausible slips of the code,  *)
(* each used to show that a property notices the slip; nothing here refers *)
(* to them.                                                                *)
(***************************************************************************)
EXTENDS Naturals

CONSTANTS
  Chunk,         \* what one read asks for (8192 bytes)
  Limit,         \* max_output_bytes
  Pipe           \* what the pipe and the reader's buffer hold

ASSUME SizeAssumption == /\ {Chunk, Limit, Pipe} \subseteq Nat \ {0}
                         /\ Chunk <= Pipe

VARIABLES
  kind,         \* which of the two runs: "ProcessTool" or "SkillLoader"
  child,        \* "running", or how it ended: "ok", "error", "killed"
  descendant,   \* whether a process of the group still holds the pipe
  forked,       \* history: whether the child has left a descendant behind
  pipe,         \* output nobody has read yet
  written,      \* history: output so far, counted up to one more than Limit
  captured,     \* length of `output`
  exceeded,     \* the flag the reader and the caller share
  stop,         \* the event
  closed,       \* process.stdout is closed
  reader,       \* where the reader thread is
  main,         \* where the caller is
  expired,      \* the deadline has passed
  status        \* status of the result, "none" before there is one

group  == <<child, descendant, forked>>
output == <<pipe, written>>
shared == <<captured, exceeded, stop>>
vars == <<kind, group, output, shared, closed, reader, main, expired, status>>

KillsOnFlood == kind = "SkillLoader"
Exited  == child # "running"
Writers == ~ Exited \/ descendant
Min2(a, b) == IF a < b THEN a ELSE b

-----------------------------------------------------------------------------
(* The child, its descendant and the clock.                                *)

Write ==
  /\ Writers /\ pipe < Pipe
  /\ pipe' = pipe + 1
  /\ written' = Min2(written + 1, Limit + 1)
  /\ UNCHANGED <<kind, group, shared, closed, reader, main, expired, status>>

Fork ==
  /\ ~ Exited
  /\ descendant' = TRUE /\ forked' = TRUE
  /\ UNCHANGED <<kind, child, output, shared, closed, reader, main, expired,
                 status>>

Exit ==
  /\ ~ Exited
  /\ child' \in {"ok", "error"}
  /\ UNCHANGED <<kind, forked, descendant, output, shared, closed, reader, main,
                 expired, status>>

DescendantExits ==
  /\ descendant /\ Exited
  /\ descendant' = FALSE
  /\ UNCHANGED <<kind, forked, child, output, shared, closed, reader, main,
                 expired, status>>

Expire ==
  /\ ~ expired /\ main = "waiting"
  /\ expired' = TRUE
  /\ UNCHANGED <<kind, group, output, shared, closed, reader, main, status>>

\* Only the child is killed.
KillGroupMutant == /\ child' = IF Exited THEN child ELSE "killed"
                   /\ UNCHANGED descendant

\* killpg with SIGKILL: the whole group ends; none is left to be found later.
KillGroup == /\ child' = IF Exited THEN child ELSE "killed"
             /\ descendant' = FALSE

-----------------------------------------------------------------------------
(* The reader thread.                                                      *)

\* read() is entered and takes the lock of the buffered reader.
ReaderEnters ==
  /\ reader = "ready" /\ ~ closed
  /\ reader' = "reading"
  /\ UNCHANGED <<kind, group, output, shared, closed, main, expired, status>>

\* read() returns nothing: every writer has gone.
ReaderEnds ==
  /\ reader = "reading" /\ pipe = 0 /\ ~ Writers
  /\ reader' = "done"
  /\ UNCHANGED <<kind, group, output, shared, closed, main, expired, status>>

\* The stream was closed between two reads: the thread dies of a ValueError.
ReaderFindsClosed ==
  /\ reader = "ready" /\ closed
  /\ reader' = "done"
  /\ UNCHANGED <<kind, group, output, shared, closed, main, expired, status>>

\* A chunk that is only cut does not count as too much.
ExceedsMutant(n) == Limit - captured = 0

Exceeds(n) == n > Limit - captured

\* Whatever was read is kept.
KeptMutant(n) == n

Kept(n) == Min2(n, Limit - captured)

\* read() returns a full chunk, or less after the last writer has gone.
ReaderReturns ==
  /\ reader = "reading" /\ pipe > 0 /\ (pipe >= Chunk \/ ~ Writers)
  /\ LET n == Min2(pipe, Chunk)
     IN /\ pipe' = pipe - n
        /\ captured' = captured + Kept(n)
        /\ exceeded' = (exceeded \/ Exceeds(n))
        /\ reader' = IF KillsOnFlood /\ Exceeds(n) THEN "flooded"
                     ELSE IF stop THEN "done" ELSE "ready"
  /\ UNCHANGED <<kind, group, written, stop, closed, main, expired, status>>

\* The reader only stops reading.
ReaderStopsMutant ==
  /\ reader = "flooded"
  /\ reader' = "done"
  /\ UNCHANGED <<kind, group, output, shared, closed, main, expired, status>>

\* SkillLoader: the reader sets the event,
ReaderStops ==
  /\ reader = "flooded"
  /\ stop' = TRUE
  /\ reader' = "killing"
  /\ UNCHANGED <<kind, group, output, captured, exceeded, closed, main, expired,
                 status>>

\* and kills the group itself.
ReaderKills ==
  /\ reader = "killing"
  /\ KillGroup
  /\ reader' = "done"
  /\ UNCHANGED <<kind, forked, output, shared, closed, main, expired, status>>

-----------------------------------------------------------------------------
(* The caller.                                                             *)

\* process.wait returns; SkillLoader sets the event before it joins.
WaitReturns ==
  /\ main = "waiting" /\ Exited
  /\ stop' = (stop \/ KillsOnFlood)
  /\ main' = "joining"
  /\ UNCHANGED <<kind, group, output, captured, exceeded, closed, reader,
                 expired, status>>

\* SkillLoader polls and finds the event set by the reader: it kills as well.
PollFindsStop ==
  /\ main = "waiting" /\ ~ Exited /\ KillsOnFlood /\ stop
  /\ KillGroup
  /\ main' = "joining"
  /\ UNCHANGED <<kind, forked, output, shared, closed, reader, expired, status>>

\* At the deadline the child is given up, not killed.
WaitExpiresMutant ==
  /\ main = "waiting" /\ ~ Exited /\ expired /\ ~ (KillsOnFlood /\ stop)
  /\ stop' = TRUE
  /\ main' = "joining_killed"
  /\ UNCHANGED <<kind, group, output, captured, exceeded, closed, reader,
                 expired, status>>

\* The deadline: the event is set, the group killed and the child reaped.
WaitExpires ==
  /\ main = "waiting" /\ ~ Exited /\ expired /\ ~ (KillsOnFlood /\ stop)
  /\ stop' = TRUE
  /\ KillGroup
  /\ main' = "joining_killed"
  /\ UNCHANGED <<kind, forked, output, captured, exceeded, closed, reader,
                 expired, status>>

ReaderWaits == reader = "reading" /\ pipe < Chunk /\ Writers

\* thread.join(timeout=2) has returned.
Joined == reader = "done" \/ ReaderWaits

\* The result of a run that met its deadline is composed before the stream is
\* closed, the other one after.
Join ==
  /\ main \in {"joining", "joining_killed"} /\ Joined
  /\ status' = IF main = "joining_killed" THEN "timeout" ELSE status
  /\ main' = "closing"
  /\ UNCHANGED <<kind, group, output, shared, closed, reader, expired>>

\* process.stdout.close() needs the lock that a reader inside read() holds.
Close ==
  /\ main = "closing" /\ reader # "reading"
  /\ closed' = TRUE
  /\ status' = IF status = "timeout" THEN status
               ELSE IF child = "ok" /\ ~ exceeded THEN "ok" ELSE "error"
  /\ main' = "returned"
  /\ UNCHANGED <<kind, group, output, shared, reader, expired>>

-----------------------------------------------------------------------------
Init ==
  /\ kind \in {"ProcessTool", "SkillLoader"}
  /\ child = "running" /\ descendant = FALSE /\ forked = FALSE
  /\ pipe = 0 /\ written = 0 /\ captured = 0
  /\ exceeded = FALSE /\ stop = FALSE /\ closed = FALSE
  /\ reader = "ready" /\ main = "waiting" /\ expired = FALSE /\ status = "none"

Processes == Write \/ Fork \/ Exit \/ DescendantExits
Reader == ReaderEnters \/ ReaderEnds \/ ReaderFindsClosed \/ ReaderReturns
          \/ ReaderStops \/ ReaderKills
Caller == WaitReturns \/ PollFindsStop \/ WaitExpires \/ Join \/ Close

Next == Processes \/ Expire \/ Reader \/ Caller

Spec == Init /\ [][Next]_vars

\* The threads of the runtime run; nothing is assumed of the child or the clock.
ThreadsSpec == Spec /\ WF_vars(Reader) /\ WF_vars(Caller)

-----------------------------------------------------------------------------
\* Every variable has its type, and a result exists when the call returns.
TypeOK ==
  /\ kind \in {"ProcessTool", "SkillLoader"}
  /\ child \in {"running", "ok", "error", "killed"}
  /\ pipe \in 0..Pipe /\ written \in 0..(Limit + 1) /\ captured \in 0..Limit
  /\ {descendant, forked, exceeded, stop, closed, expired} \subseteq BOOLEAN
  /\ reader \in {"ready", "reading", "flooded", "killing", "done"}
  /\ main \in {"waiting", "joining", "joining_killed", "closing", "returned"}
  /\ status \in {"none", "ok", "error", "timeout"}
  /\ main = "returned" => status # "none" /\ closed

\* The result "ok" of a process tool promises an exit without error and every unit
\* of the output: it is never composed before the reader has drained the pipe, nor
\* over a cut.  A descendant that holds the pipe is given up after two seconds.
OkMeansComplete ==
  kind = "ProcessTool" /\ ~ forked /\ status = "ok"
    => child = "ok" /\ captured = written

\* A run that ends at its deadline leaves no process of its group behind.
TimeoutLeavesNobody == status = "timeout" => Exited /\ ~ descendant

\* docs/SECURITY.md, "wall-clock/CPU budgets are bounded": once the child has ended
\* or its deadline has passed the call returns, unless a descendant of the child
\* holds the pipe.
CallReturns == (Exited \/ expired) ~> (main = "returned" \/ forked)

\* SkillLoader: a child that exceeds the output limit is killed, and without
\* waiting for its deadline.
FloodIsKilled == (KillsOnFlood /\ exceeded) ~> Exited

\* tests/test_v0_1.py, test_process_output_flood_is_killed: a child of a process
\* tool that writes more than the limit yields the status "error".
FloodIsError ==
  kind = "ProcessTool" /\ main = "returned" /\ exceeded => status = "error"
=============================================================================
