--------------------------- MODULE DurableRegister ---------------------------
(***************************************************************************)
(* A file that is only ever replaced as a whole, as the query queue takes  *)
(* it to be: a register of documents, of which a loss of power keeps the   *)
(* current one or one that was current since it last was settled.          *)
(***************************************************************************)
CONSTANTS
  Doc,      \* documents
  NoDoc     \* the register is empty

VARIABLES
  value,    \* the document a reader finds
  may       \* the documents a reader may find after a loss of power

registerVars == <<value, may>>

Replace(d) == value' = d /\ may' = may \cup {d}
Settle     == may' = {value} /\ UNCHANGED value
Lose       == \E v \in may : value' = v /\ may' = {v}

RegisterInit == value = NoDoc /\ may = {NoDoc}
RegisterNext == (\E d \in Doc : Replace(d)) \/ Settle \/ Lose
RegisterSpec == RegisterInit /\ [][RegisterNext]_registerVars
=============================================================================
