-------------------------- MODULE ToolProcessProofs --------------------------
(***************************************************************************)
(* What one run of a child process promises, for any sizes of chunk, limit *)
(* and pipe, and for both kinds of run.                                    *)
(***************************************************************************)
EXTENDS ToolProcess, TLAPS

-----------------------------------------------------------------------------
(* Types.                                                                  *)

\* What a read keeps fits the rest of the limit.
LEMMA KeptFits ==
  ASSUME captured \in 0..Limit, NEW n \in Nat
  PROVE  /\ captured + Kept(n) \in 0..Limit
         /\ ~ Exceeds(n) => Kept(n) = n
  BY SizeAssumption DEF Kept, Exceeds, Min2

\* A chunk is never more than the pipe holds.
LEMMA ChunkFits ==
  ASSUME pipe \in 0..Pipe
  PROVE  /\ Min2(pipe, Chunk) \in Nat
         /\ pipe - Min2(pipe, Chunk) \in 0..Pipe
  BY SizeAssumption DEF Min2

LEMMA TypeStep == TypeOK /\ [Next]_vars => TypeOK'
<1> SUFFICES ASSUME TypeOK, [Next]_vars PROVE TypeOK'
  OBVIOUS
<1> USE DEF TypeOK, group, output, shared
<1>1. CASE Write
  <2>1. pipe' \in 0..Pipe /\ written' \in 0..(Limit + 1)
    BY <1>1, SizeAssumption DEF Write, Min2
  <2> QED BY <1>1, <2>1 DEF Write
<1>2. CASE Fork
  BY <1>2 DEF Fork
<1>3. CASE Exit
  BY <1>3 DEF Exit
<1>4. CASE DescendantExits
  BY <1>4 DEF DescendantExits
<1>5. CASE Expire
  BY <1>5 DEF Expire
<1>6. CASE ReaderEnters
  BY <1>6 DEF ReaderEnters
<1>7. CASE ReaderEnds
  BY <1>7 DEF ReaderEnds
<1>8. CASE ReaderFindsClosed
  BY <1>8 DEF ReaderFindsClosed
<1>9. CASE ReaderReturns
  <2> DEFINE n == Min2(pipe, Chunk)
  <2>1. pipe' \in 0..Pipe /\ captured' \in 0..Limit
    BY <1>9, ChunkFits, KeptFits DEF ReaderReturns
  <2>2. exceeded' \in BOOLEAN /\ reader' \in {"flooded", "done", "ready"}
    BY <1>9 DEF ReaderReturns
  <2> QED BY <1>9, <2>1, <2>2 DEF ReaderReturns
<1>10. CASE ReaderStops
  BY <1>10 DEF ReaderStops
<1>11. CASE ReaderKills
  BY <1>11 DEF ReaderKills, KillGroup
<1>12. CASE WaitReturns
  <2>1. stop' \in BOOLEAN
    BY <1>12 DEF WaitReturns
  <2> QED BY <1>12, <2>1 DEF WaitReturns
<1>13. CASE PollFindsStop
  BY <1>13 DEF PollFindsStop, KillGroup
<1>14. CASE WaitExpires
  BY <1>14 DEF WaitExpires, KillGroup
<1>15. CASE Join
  BY <1>15 DEF Join
<1>16. CASE Close
  BY <1>16 DEF Close
<1>17. CASE UNCHANGED vars
  BY <1>17 DEF vars
<1> QED BY <1>1, <1>2, <1>3, <1>4, <1>5, <1>6, <1>7, <1>8, <1>9, <1>10, <1>11,
           <1>12, <1>13, <1>14, <1>15, <1>16, <1>17
        DEF Next, Processes, Reader, Caller

\* Every variable of a run keeps its type, the captured output never exceeds the
\* limit, and a call that returned has a result and a closed stream.
THEOREM ToolTypesHold == Spec => []TypeOK
<1>1. ASSUME Init PROVE TypeOK
  <2>1. pipe \in 0..Pipe /\ written \in 0..(Limit + 1) /\ captured \in 0..Limit
    BY <1>1, SizeAssumption DEF Init
  <2>2. {descendant, forked, exceeded, stop, closed, expired} \subseteq BOOLEAN
    BY <1>1 DEF Init
  <2>3. /\ kind \in {"ProcessTool", "SkillLoader"}
        /\ child = "running" /\ reader = "ready" /\ main = "waiting" /\ status = "none"
    BY <1>1 DEF Init
  <2> QED BY <2>1, <2>2, <2>3 DEF TypeOK
<1> QED BY <1>1, TypeStep, PTL DEF Spec

-----------------------------------------------------------------------------
(* The deadline.                                                           *)

\* From the kill on, nobody of the group is left, and nobody can come back.
KilledIsGone ==
  main = "joining_killed" \/ status = "timeout" => Exited /\ ~ descendant

LEMMA KilledStep == TypeOK /\ KilledIsGone /\ [Next]_vars => KilledIsGone'
<1> SUFFICES ASSUME TypeOK, KilledIsGone, [Next]_vars PROVE KilledIsGone'
  OBVIOUS
<1> USE DEF KilledIsGone, Exited, group, output, shared
\* The group changes, the caller does not.
<1>1. CASE Fork \/ Exit \/ DescendantExits \/ ReaderKills
  BY <1>1 DEF Fork, Exit, DescendantExits, ReaderKills, KillGroup
\* The caller changes.
<1>2. CASE WaitReturns
  BY <1>2 DEF WaitReturns
<1>3. CASE PollFindsStop
  BY <1>3 DEF PollFindsStop, KillGroup
<1>4. CASE WaitExpires
  BY <1>4 DEF WaitExpires, KillGroup
<1>5. CASE Join
  BY <1>5 DEF Join
<1>6. CASE Close
  BY <1>6 DEF Close
\* Neither does.
<1>7. CASE UNCHANGED <<child, descendant, main, status>>
  BY <1>7
<1> QED BY <1>1, <1>2, <1>3, <1>4, <1>5, <1>6, <1>7
        DEF Next, Processes, Reader, Caller, Write, Expire, ReaderEnters, ReaderEnds,
            ReaderFindsClosed, ReaderReturns, ReaderStops, vars

\* Whatever the child writes and whoever it leaves behind: a run that ends at its
\* deadline leaves no process of its group behind.
THEOREM TimeoutIsClean == Spec => []TimeoutLeavesNobody
<1>1. Init => KilledIsGone
  BY DEF Init, KilledIsGone
<1>2. KilledIsGone => TimeoutLeavesNobody
  BY DEF KilledIsGone, TimeoutLeavesNobody
<1> QED BY <1>1, <1>2, KilledStep, ToolTypesHold, PTL DEF Spec

-----------------------------------------------------------------------------
(* The whole output.                                                       *)

\* As long as nothing was cut, what was captured and what is still in the pipe
\* add up to what was written.
Accounted ==
  ~ exceeded => written = Min2(captured + pipe, Limit + 1)

\* A process tool's reader leaves before its caller only when the pipe is empty
\* and nobody can write any more, or after the deadline.
ReaderSawTheEnd ==
  /\ reader \notin {"flooded", "killing"}
  /\ stop => main = "joining_killed" \/ status = "timeout"
  /\ closed => main = "returned"
  /\ reader = "done" => stop \/ closed \/ (pipe = 0 /\ ~ Writers)

\* A caller that has joined without killing has seen its reader end.
CallerJoined ==
  /\ main \in {"joining", "closing"} /\ status = "none" => Exited
  /\ main = "closing" /\ status = "none" => reader = "done"
  /\ status \in {"ok", "error"} => main = "returned"
  /\ status = "ok" => /\ child = "ok" /\ ~ exceeded /\ ~ stop
                       /\ reader = "done" /\ pipe = 0 /\ ~ Writers

OutputInvariant ==
  /\ forked \/ ~ descendant
  /\ Accounted
  /\ kind = "ProcessTool" /\ ~ forked => ReaderSawTheEnd /\ CallerJoined

LEMMA AccountedStep == TypeOK /\ Accounted /\ [Next]_vars => Accounted'
<1> SUFFICES ASSUME TypeOK, Accounted, [Next]_vars PROVE Accounted'
  OBVIOUS
<1> USE DEF TypeOK, Accounted, group, output, shared
<1>1. CASE Write
  <2>1. written' = Min2(written + 1, Limit + 1) /\ pipe' = pipe + 1
        /\ UNCHANGED <<captured, exceeded>>
    BY <1>1 DEF Write
  <2> QED BY <2>1, SizeAssumption DEF Min2
<1>2. CASE ReaderReturns
  <2> DEFINE n == Min2(pipe, Chunk)
  <2>1. /\ pipe' = pipe - n /\ captured' = captured + Kept(n)
        /\ exceeded' = (exceeded \/ Exceeds(n)) /\ written' = written
    BY <1>2 DEF ReaderReturns
  <2>2. n \in Nat
    BY ChunkFits
  <2>3. ~ exceeded' => ~ exceeded /\ Kept(n) = n
    BY <2>1, <2>2, KeptFits
  <2>4. ~ exceeded' => captured' + pipe' = captured + pipe
    BY <2>1, <2>2, <2>3
  <2> QED BY <2>1, <2>3, <2>4
<1>3. CASE UNCHANGED <<written, captured, pipe, exceeded>>
  BY <1>3 DEF Min2
<1> QED BY <1>1, <1>2, <1>3
        DEF Next, Processes, Reader, Caller, Fork, Exit, DescendantExits, Expire,
            ReaderEnters, ReaderEnds, ReaderFindsClosed, ReaderStops, ReaderKills,
            WaitReturns, PollFindsStop, WaitExpires, Join, Close, vars

LEMMA OutputStep == TypeOK /\ OutputInvariant /\ [Next]_vars => OutputInvariant'
<1> SUFFICES ASSUME TypeOK, OutputInvariant, [Next]_vars PROVE OutputInvariant'
  OBVIOUS
<1> DEFINE Goal == ReaderSawTheEnd' /\ CallerJoined'
<1>1. Accounted'
  BY AccountedStep DEF OutputInvariant
<1>2. (forked' \/ ~ descendant') /\ kind' = kind /\ (~ forked' => ~ forked)
  BY DEF Next, Processes, Reader, Caller, Write, Fork, Exit, DescendantExits, Expire,
         ReaderEnters, ReaderEnds, ReaderFindsClosed, ReaderReturns, ReaderStops,
         ReaderKills, WaitReturns, PollFindsStop, WaitExpires, Join, Close, KillGroup,
         OutputInvariant, TypeOK, vars, group, output, shared
<1>3. SUFFICES ASSUME kind = "ProcessTool", ~ forked' PROVE Goal
  BY <1>1, <1>2 DEF OutputInvariant
<1>4. ReaderSawTheEnd /\ CallerJoined /\ ~ forked /\ ~ descendant
  BY <1>2, <1>3 DEF OutputInvariant
<1>5. (Writers <=> child = "running") /\ ~ KillsOnFlood
  BY <1>3, <1>4 DEF Writers, Exited, KillsOnFlood
<1> USE <1>3, <1>4, <1>5
        DEF TypeOK, ReaderSawTheEnd, CallerJoined, Writers, Exited, group, output, shared
<1>6. CASE Write
  BY <1>6 DEF Write
<1>7. CASE Fork
  BY <1>7 DEF Fork
<1>8. CASE Exit
  BY <1>8 DEF Exit
<1>9. CASE DescendantExits
  BY <1>9 DEF DescendantExits
<1>10. CASE Expire
  BY <1>10 DEF Expire
<1>11. CASE ReaderEnters
  BY <1>11 DEF ReaderEnters
<1>12. CASE ReaderEnds
  BY <1>12 DEF ReaderEnds
<1>13. CASE ReaderFindsClosed
  BY <1>13 DEF ReaderFindsClosed
<1>14. CASE ReaderReturns
  BY <1>14 DEF ReaderReturns
<1>15. CASE ReaderStops \/ ReaderKills
  BY <1>15 DEF ReaderStops, ReaderKills
<1>16. CASE WaitReturns
  BY <1>16 DEF WaitReturns
<1>17. CASE PollFindsStop
  BY <1>17 DEF PollFindsStop
<1>18. CASE WaitExpires
  BY <1>18 DEF WaitExpires, KillGroup
<1>19. CASE Join
  BY <1>19 DEF Join, Joined, ReaderWaits
<1>20. CASE Close
  BY <1>20 DEF Close
<1>21. CASE UNCHANGED vars
  BY <1>21 DEF vars
<1> QED BY <1>6, <1>7, <1>8, <1>9, <1>10, <1>11, <1>12, <1>13, <1>14, <1>15, <1>16,
           <1>17, <1>18, <1>19, <1>20, <1>21
        DEF Next, Processes, Reader, Caller

\* For any sizes: the result "ok" of a process tool whose child left nobody behind
\* carries every unit the child wrote.
THEOREM OkIsComplete == Spec => []OkMeansComplete
<1>1. Init => OutputInvariant
  BY SizeAssumption
  DEF Init, OutputInvariant, Accounted, Min2, ReaderSawTheEnd, CallerJoined
<1>2. TypeOK /\ OutputInvariant => OkMeansComplete
  BY SizeAssumption
  DEF TypeOK, OutputInvariant, Accounted, Min2, CallerJoined, OkMeansComplete
<1> QED BY <1>1, <1>2, OutputStep, ToolTypesHold, PTL DEF Spec
=============================================================================
