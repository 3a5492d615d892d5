---------------------------- MODULE MCAtomicWrite ----------------------------
(***************************************************************************)
(* Saves of documents of one, two and three pieces, of which two are the   *)
(* limit.                                                                  *)
(***************************************************************************)
EXTENDS AtomicWrite

CONSTANTS small, full, full2, large

MCDoc    == {small, full, full2, large}
MCLength == [d \in Doc |-> IF d = small THEN 1 ELSE IF d = large THEN 3 ELSE 2]
=============================================================================
