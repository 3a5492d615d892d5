------------------------- MODULE DurableEffectProofs -------------------------
(***************************************************************************)
(* What DurableEffect says about repeated effects.                         *)
(***************************************************************************)
EXTENDS DurableEffect, TLAPS

\* Opening only in front of unspent steps and running only behind a closed query is
\* enough: no step is run more than once, and once more for each grant.
THEOREM OncePerGrantHolds ==
  ASSUME MaxSteps \in Nat
  PROVE  EffectSpec => []EffectInvariant
<1>1. EffectInit => EffectInvariant
  BY DEF EffectInit, EffectInvariant, EffectTypeOK, OnceAndPerGrant, OpenIsUnspent,
     MayOpen, Step, Closed
<1>2. EffectInvariant /\ [EffectNext]_effectVars => EffectInvariant'
  <2> SUFFICES ASSUME EffectInvariant, [EffectNext]_effectVars
               PROVE  EffectInvariant'
    OBVIOUS
  <2> USE DEF EffectInvariant, EffectTypeOK, OnceAndPerGrant, OpenIsUnspent, MayOpen
  <2>1. ASSUME NEW S \in SUBSET Query, Close(S) PROVE EffectInvariant'
    BY <2>1 DEF Close
  <2>2. ASSUME NEW q \in Query, Open(q) PROVE EffectInvariant'
    BY <2>2 DEF Open, Step, Closed
  <2>3. ASSUME NEW q \in Query, Grant(q) PROVE EffectInvariant'
    <3>1. PICK n \in MayOpen(q, granted[q] + 1) \cup {start[q]} :
            /\ start' = [start EXCEPT ![q] = n]
            /\ granted' = [granted EXCEPT ![q] = @ + 1] /\ ran' = ran
      BY <2>3 DEF Grant
    <3>2. EffectTypeOK' /\ granted'[q] = granted[q] + 1
      BY <3>1 DEF Step
    <3>3. OnceAndPerGrant'
      BY <3>1, <3>2 DEF Step
    <3>4. n # Closed => n \in MayOpen(q, granted'[q])
      BY <3>1, <3>2 DEF Step, Closed
    <3>5. OpenIsUnspent'
      BY <3>1, <3>2, <3>4
    <3> QED BY <3>2, <3>3, <3>5
  <2>4. ASSUME NEW q \in Query, NEW s \in Step, Run(q, s) PROVE EffectInvariant'
    <3>1. /\ start' = start /\ granted' = granted /\ start[q] = Closed
          /\ \A p \in Query, t \in Step :
               ran'[p][t] = IF p = q /\ t = s THEN ran[q][s] + 1 ELSE ran[p][t]
      BY <2>4 DEF Run
    <3>2. ran' \in [Query -> [Step -> Nat]]
      BY <2>4 DEF Run
    <3>3. OnceAndPerGrant'
      BY <2>4, <3>1 DEF Run, Step
    <3>4. OpenIsUnspent'
      BY <3>1
    <3> QED BY <3>1, <3>2, <3>3, <3>4
  <2>5. ASSUME UNCHANGED effectVars PROVE EffectInvariant'
    BY <2>5 DEF effectVars
  <2> QED BY <2>1, <2>2, <2>3, <2>4, <2>5 DEF EffectNext
<1> QED BY <1>1, <1>2, PTL DEF EffectSpec
=============================================================================
