---------------------------- MODULE DurableEffect ----------------------------
(***************************************************************************)
(* What the query queue of ABIYSS promises about external effects,         *)
(* whatever its lane, its lock, its heap and its states look like (README: *)
(* "never replayed automatically").                                        *)
(*                                                                         *)
(* A query is a row of steps.  It is open at a step if a process that knew *)
(* nothing but the files could run it from there; otherwise it is closed.  *)
(* A step is run only while its query is closed, a query is opened only at *)
(* a step with nothing spent from there on, and a spent step becomes       *)
(* runnable again only when somebody grants the query another run.         *)
(***************************************************************************)
EXTENDS Integers

CONSTANTS
  Query,    \* queries
  MaxSteps  \* bound on the steps of one query, a natural number

VARIABLES
  start,    \* the step each query is open at, or Closed
  ran,      \* how often each step of each query was run
  granted   \* how many more runs each query was granted

effectVars == <<start, ran, granted>>

Step   == 0..(MaxSteps - 1)
Closed == -1

\* With this many grants, q may be opened at the steps in front of nothing spent.
MayOpen(q, grants) ==
  {n \in 0..MaxSteps : \A s \in Step : s >= n => ran[q][s] <= grants}

Close(S) ==
  /\ start' = [q \in Query |-> IF q \in S THEN Closed ELSE start[q]]
  /\ UNCHANGED <<ran, granted>>

Open(q) ==
  /\ \E n \in MayOpen(q, granted[q]) : start' = [start EXCEPT ![q] = n]
  /\ UNCHANGED <<ran, granted>>

Run(q, s) ==
  /\ start[q] = Closed /\ ran[q][s] <= granted[q]
  /\ ran' = [ran EXCEPT ![q][s] = @ + 1]
  /\ UNCHANGED <<start, granted>>

\* One more run of each step is granted; the query may be opened with it.
Grant(q) ==
  /\ granted' = [granted EXCEPT ![q] = @ + 1]
  /\ \E n \in MayOpen(q, granted[q] + 1) \cup {start[q]} :
       start' = [start EXCEPT ![q] = n]
  /\ UNCHANGED ran

EffectInit ==
  /\ start = [q \in Query |-> 0]
  /\ ran = [q \in Query |-> [s \in Step |-> 0]]
  /\ granted = [q \in Query |-> 0]

EffectNext ==
  \/ \E S \in SUBSET Query : Close(S)
  \/ \E q \in Query : Open(q) \/ Grant(q)
  \/ \E q \in Query, s \in Step : Run(q, s)

EffectSpec == EffectInit /\ [][EffectNext]_effectVars

-----------------------------------------------------------------------------
EffectTypeOK ==
  /\ start \in [Query -> 0..MaxSteps \cup {Closed}]
  /\ ran \in [Query -> [Step -> Nat]]
  /\ granted \in [Query -> Nat]

\* No step is run more often than once and once more for each grant.
OnceAndPerGrant == \A q \in Query, s \in Step : ran[q][s] <= 1 + granted[q]

\* No query is open in front of a spent step.
OpenIsUnspent ==
  \A q \in Query : start[q] # Closed => start[q] \in MayOpen(q, granted[q])

EffectInvariant == EffectTypeOK /\ OnceAndPerGrant /\ OpenIsUnspent
=============================================================================
