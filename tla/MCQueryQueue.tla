----------------------------- MODULE MCQueryQueue -----------------------------
(***************************************************************************)
(* Small instances of QueryQueue: the cfg chooses the queries and which of *)
(* the definitions below gives each CONSTANT its value, which faults may   *)
(* happen and how often.                                                   *)
(***************************************************************************)
EXTENDS QueryQueue

CONSTANTS a, b, c, u, call   \* queries and an external identity, as model values

Three   == {a, b, c}
Two     == {a, c}
MCCall  == {call}

\* c is a background query; a and b are foreground queries.
MCType == [q \in Query |-> IF q = c THEN "Squery" ELSE "Aquery"]

\* a and b answer one model call (a retried interaction); only c has two steps.
TwinKey   == [q \in Query |-> IF q = c THEN NoCall ELSE call]
TwinSteps == [q \in Query |-> IF q = c THEN 2 ELSE 1]

\* Only a answers a model call; b is a host query of two steps, like c.
LoneKey   == [q \in Query |-> IF q = a THEN call ELSE NoCall]
LoneSteps == [q \in Query |-> IF q = a THEN 1 ELSE 2]

\* Every query has one step.
HostSteps == [q \in Query |-> 1]

FlatPriority == [q \in Query |-> 1]
\* b outranks a although both are Aqueries; c, an Squery, has the highest number.
MixedPriority == [q \in Query |-> IF q = a THEN 1 ELSE IF q = b THEN 2 ELSE 3]

\* Four queries: a and b are equal, u is a host Aquery of a higher priority, and c,
\* the Squery, has the highest number.
Four == {a, b, c, u}
FourPriority == [q \in Query |-> IF q = c THEN 3 ELSE IF q = u THEN 2 ELSE 1]

\* Files are named by uuid4: their order is not the order of submission.
FileOrder == [q \in Query |-> IF q = a THEN 1 ELSE IF q = b THEN 2 ELSE IF q = c THEN 3 ELSE 4]

EveryToolKnown == {Query}
\* A registry that lacks the tool of a: after a restart a may not validate.
ToolMayVanish  == {Query, Query \ {a}}
=============================================================================
