---------------------------- MODULE MCAgentCycle ----------------------------
(***************************************************************************)
(* Small instances of AgentCycle: the model may make two calls, a and b    *)
(* are the queries for them and c is a background query of the host.       *)
(***************************************************************************)
EXTENDS MCQueryQueue, AgentCycle

CONSTANTS call2, n1   \* the second call and the interaction, as model values

TwoCalls == {call, call2}
CycleKey == [q \in Query |-> IF q = a THEN call ELSE IF q = b THEN call2 ELSE NoCall]

\* Both calls belong to one interaction.
OneInteraction == {n1}
OneTurn == [k \in Call |-> n1]
=============================================================================
