----------------------------- MODULE MCSharedRoot -----------------------------
(***************************************************************************)
(* Two processes on one root; the first one asks a model, which makes one  *)
(* call (a), and the second one works on a background query (c).           *)
(***************************************************************************)
EXTENDS SharedRoot

CONSTANTS a, c, call

MCQuery == {a, c}
MCCall  == {call}
MCMine  == {a}
MCType  == [q \in Query |-> IF q = a THEN "Aquery" ELSE "Squery"]
MCKey   == [q \in Query |-> IF q = a THEN call ELSE NoCall]
MCSteps == [q \in Query |-> 1]
MCRank  == [q \in Query |-> IF q = a THEN 1 ELSE 2]
MCPriority   == [q \in Query |-> 1]
MCRegistries == {Query}
=============================================================================
