-------------------------- MODULE AtomicWriteProofs --------------------------
(***************************************************************************)
(* Theorems about AtomicWrite, for any number of saves of any length.      *)
(***************************************************************************)
EXTENDS AtomicWrite, TLAPS

USE NoDocAssumption, LengthAssumption

\* Every step of a save, of the reader, a kill and a loss of power keep the inductive
\* invariant.
LEMMA SaveStepKeeps == SaveInvariant /\ [Next]_vars => SaveInvariant'
<1> SUFFICES ASSUME SaveInvariant, [Next]_vars PROVE SaveInvariant'
  OBVIOUS
<1> USE DEF SaveInvariant
<1>1. ASSUME NEW d \in Doc, Refuse(d) \/ Create(d) \/ Fail(d) \/ Kill(d)
      PROVE  SaveInvariant'
  <2>1. /\ UNCHANGED <<written, synced, name, behind, renamed, over, reader, fd, got>>
        /\ \A e \in Doc \ {d} : pc'[e] = pc[e] /\ result'[e] = result[e]
        /\ pc'[d] = "returned" \/ (pc'[d] = "write" /\ pc[d] = "begin" /\ Fits(d))
        /\ result'[d] = result[d] \/ result'[d] = "error"
    BY <1>1 DEF Refuse, Create, Fail, Kill, Return, Goto, history, loadVars, TypeOK
  <2>2. TypeOK'
    BY <1>1, <2>1 DEF Refuse, Create, Fail, Kill, Return, Goto, TypeOK
  <2>3. CompleteOnDisk'
    BY <2>1 DEF CompleteOnDisk, Fits
  <2>4. OrderOnDisk' /\ AcknowledgedSurvives' /\ ReaderHolds'
    BY <2>1 DEF OrderOnDisk, AcknowledgedSurvives, ReaderHolds, Follows
  <2> QED BY <2>2, <2>3, <2>4
<1>2. ASSUME NEW d \in Doc, Write(d) \/ Sync(d) PROVE SaveInvariant'
  <2>1. /\ pc[d] = "write" /\ d \notin renamed /\ Fits(d)
        /\ UNCHANGED <<result, name, behind, renamed, over, reader, fd, got>>
        /\ \A e \in Doc \ {d} : /\ pc'[e] = pc[e] /\ written'[e] = written[e]
                                 /\ synced'[e] = synced[e]
        /\ pc'[d] # "sync_directory"
    BY <1>2 DEF Write, Sync, Goto, history, loadVars, TypeOK, CompleteOnDisk
  <2>2. TypeOK'
    BY <1>2, <2>1 DEF Write, Sync, Goto, TypeOK, Fits
  <2>3. CompleteOnDisk'
    BY <1>2, <2>1 DEF CompleteOnDisk, Write, Sync, Goto, Fits, TypeOK
  <2>4. OrderOnDisk' /\ AcknowledgedSurvives' /\ ReaderHolds'
    BY <2>1 DEF OrderOnDisk, AcknowledgedSurvives, ReaderHolds, Follows
  <2> QED BY <2>2, <2>3, <2>4
<1>3. ASSUME NEW d \in Doc, Rename(d) PROVE SaveInvariant'
  <2>1. /\ pc[d] = "rename" /\ d \notin renamed /\ name' = d
        /\ behind' = behind \cup {d} /\ renamed' = renamed \cup {d}
        /\ over' = [over EXCEPT ![d] = renamed]
        /\ pc' = [pc EXCEPT ![d] = "sync_directory"]
        /\ UNCHANGED <<written, synced, result, reader, fd, got>>
    BY <1>3 DEF Rename, Goto, loadVars, CompleteOnDisk
  <2>2. TypeOK'
    BY <2>1 DEF TypeOK
  <2>3. CompleteOnDisk'
    BY <2>1 DEF CompleteOnDisk, Fits, TypeOK
  <2>4. \A e \in behind, a \in Doc : Follows(e, a) => Follows(e, a)'
    BY <2>1 DEF OrderOnDisk, Follows, TypeOK
  <2>5. \A a \in renamed \cup {d} : Follows(d, a)'
    BY <2>1 DEF Follows, TypeOK
  <2>6. OrderOnDisk'
    BY <2>1, <2>5 DEF OrderOnDisk, TypeOK
  <2>7. AcknowledgedSurvives'
    BY <2>1, <2>4, <2>5 DEF AcknowledgedSurvives, OrderOnDisk
  <2>8. ReaderHolds'
    BY <2>1 DEF ReaderHolds
  <2> QED BY <2>2, <2>3, <2>6, <2>7, <2>8
<1>4. ASSUME NEW d \in Doc, SyncDirectory(d) PROVE SaveInvariant'
  <2>1. /\ pc[d] = "sync_directory" /\ behind' = {name}
        /\ pc' = [pc EXCEPT ![d] = "returned"] /\ result' = [result EXCEPT ![d] = "ok"]
        /\ UNCHANGED <<written, synced, name, renamed, over, reader, fd, got>>
    BY <1>4 DEF SyncDirectory, Return, Goto, history, loadVars
  <2>2. TypeOK'
    BY <2>1 DEF TypeOK
  <2>3. CompleteOnDisk' /\ ReaderHolds'
    BY <2>1 DEF CompleteOnDisk, Fits, TypeOK, ReaderHolds
  <2>4. OrderOnDisk'
    BY <2>1 DEF OrderOnDisk, Follows, TypeOK
  <2>5. AcknowledgedSurvives'
    BY <2>1 DEF AcknowledgedSurvives, OrderOnDisk, Follows, TypeOK
  <2> QED BY <2>2, <2>3, <2>4, <2>5
<1>5. ASSUME Load PROVE SaveInvariant'
  <2>1. UNCHANGED <<pc, written, synced, name, behind, result, renamed, over>>
    BY <1>5 DEF Load, Open, Read, Deliver, saveVars, history
  <2>2. TypeOK'
    BY <1>5, <2>1 DEF Load, Open, Read, Deliver, TypeOK
  <2>3. ReaderHolds'
    BY <1>5, <2>1 DEF Load, Open, Read, Deliver, ReaderHolds, OrderOnDisk,
       CompleteOnDisk, Fits, TypeOK
  <2>4. CompleteOnDisk' /\ OrderOnDisk' /\ AcknowledgedSurvives'
    BY <2>1 DEF CompleteOnDisk, Fits, OrderOnDisk, AcknowledgedSurvives, Follows
  <2> QED BY <2>2, <2>3, <2>4
<1>6. ASSUME PowerLoss PROVE SaveInvariant'
  <2>1. /\ name' \in behind /\ behind' = {name'}
        /\ reader' = "idle" /\ fd' = NoDoc /\ got' = 0
        /\ UNCHANGED <<result, renamed, over>>
        /\ \A d \in Doc : (pc'[d] = pc[d] /\ pc[d] = "begin") \/ pc'[d] = "returned"
    BY <1>6 DEF PowerLoss, UnderWay, history, TypeOK
  <2>2. /\ written' = synced' /\ written' \in [Doc -> 0..MaxLength]
        /\ \A d \in Doc : synced[d] <= synced'[d] /\ written'[d] <= written[d]
    BY <1>6 DEF PowerLoss
  <2>3. TypeOK'
    <3>1. pc' \in [Doc -> {"begin", "write", "rename", "sync_directory", "returned"}]
      BY <1>6 DEF PowerLoss, TypeOK
    <3> QED BY <2>1, <2>2, <3>1 DEF TypeOK
  <2>4. CompleteOnDisk'
    BY <2>1, <2>2 DEF CompleteOnDisk, Fits, TypeOK
  <2>5. OrderOnDisk' /\ ReaderHolds'
    BY <2>1 DEF OrderOnDisk, ReaderHolds
  <2>6. AcknowledgedSurvives'
    BY <2>1 DEF AcknowledgedSurvives, Follows
  <2> QED BY <2>3, <2>4, <2>5, <2>6
<1>7. ASSUME UNCHANGED vars PROVE SaveInvariant'
  BY <1>7 DEF vars, saveVars, loadVars, history, TypeOK, CompleteOnDisk, Fits, OrderOnDisk,
     AcknowledgedSurvives, Follows, ReaderHolds
<1> QED BY <1>1, <1>2, <1>3, <1>4, <1>5, <1>6, <1>7 DEF Next, SaveStep

\* Many saves of one query, interrupted anywhere: the invariant always holds.
THEOREM SaveInvariantHolds == Spec => []SaveInvariant
<1>1. Init => SaveInvariant
  BY DEF Init, SaveInvariant, TypeOK, CompleteOnDisk, OrderOnDisk, AcknowledgedSurvives,
     ReaderHolds
<1> QED BY <1>1, SaveStepKeeps, PTL DEF Spec

\* Files, descriptors, program counter and history keep their types, through every
\* failure, kill and power loss.
THEOREM TypesHold == Spec => []TypeOK
<1>1. SaveInvariant => TypeOK
  BY DEF SaveInvariant
<1> QED BY <1>1, SaveInvariantHolds, PTL

\* docs/CONTRACTS.md: a save that returned normally has durably replaced the file.
THEOREM SavesAreDurable == Spec => []AcknowledgedSurvives
<1>1. SaveInvariant => AcknowledgedSurvives
  BY DEF SaveInvariant
<1> QED BY <1>1, SaveInvariantHolds, PTL

\* QuPsStore.load never meets a document in parts, whoever saves meanwhile.
THEOREM LoadsMeetWholeDocuments == Spec => []LoadsAreWhole
<1>1. SaveInvariant => LoadsAreWhole
  BY DEF SaveInvariant, LoadsAreWhole, ReaderHolds, CompleteOnDisk, Fits, Valid, TypeOK
<1> QED BY <1>1, SaveInvariantHolds, PTL

-----------------------------------------------------------------------------
(* The refinement.                                                         *)

\* Nothing that is or may be named is damaged.
LEMMA NothingDamaged ==
  SaveInvariant =>
    Whole(name, written) = name /\ {Whole(d, synced) : d \in behind} = behind
<1> SUFFICES ASSUME SaveInvariant
             PROVE  Whole(name, written) = name /\ {Whole(d, synced) : d \in behind} = behind
  OBVIOUS
<1>1. ASSUME NEW d \in behind, d # NoDoc
      PROVE  d \in Doc /\ synced[d] = Length[d] /\ written[d] = Length[d]
  <2>1. d \in renamed /\ d \in Doc
    BY <1>1 DEF SaveInvariant, OrderOnDisk, TypeOK
  <2>2. synced[d] <= written[d] /\ written[d] <= Length[d] /\ synced[d] = Length[d]
    BY <2>1 DEF SaveInvariant, CompleteOnDisk
  <2>3. synced[d] \in Nat /\ written[d] \in Nat /\ Length[d] \in Nat
    BY <2>1 DEF SaveInvariant, TypeOK
  <2> HIDE DEF SaveInvariant
  <2> QED BY <2>1, <2>2, <2>3
<1>2. name \in behind
  BY DEF SaveInvariant, OrderOnDisk
<1> QED BY <1>1, <1>2 DEF Whole

\* For any number of saves of any length, interrupted anywhere, the file is a register
\* that is replaced as a whole.
THEOREM FileImplementsRegister == Spec => ImplementsRegister
<1>1. Init => Register!RegisterInit
  BY DEF Init, Register!RegisterInit, Whole
<1>2. SaveInvariant /\ SaveInvariant' /\ [Next]_vars
        => [Register!RegisterNext]_(Register!registerVars)
  <2> SUFFICES ASSUME SaveInvariant, SaveInvariant', [Next]_vars
               PROVE  Register!RegisterNext \/ UNCHANGED Register!registerVars
    OBVIOUS
  <2> DEFINE value == Whole(name, written)
             may == {Whole(d, synced) : d \in behind}
  <2>1. value = name /\ may = behind
    BY NothingDamaged
  <2>2. value' = name' /\ may' = behind'
    <3>1. (SaveInvariant => value = name /\ may = behind)'
      BY NothingDamaged, PTL
    <3> QED BY <3>1
  <2> HIDE DEF value, may
  <2>3. ASSUME NEW d \in Doc, Rename(d) PROVE Register!Replace(d)
    BY <2>1, <2>2, <2>3 DEF Rename, Register!Replace, value, may
  <2>4. ASSUME NEW d \in Doc, SyncDirectory(d) PROVE Register!Settle
    BY <2>1, <2>2, <2>4 DEF SyncDirectory, Register!Settle, value, may
  <2>5. ASSUME PowerLoss PROVE Register!Lose
    BY <2>1, <2>2, <2>5 DEF PowerLoss, Register!Lose, value, may
  <2>6. ASSUME UNCHANGED <<name, behind>> PROVE UNCHANGED Register!registerVars
    BY <2>1, <2>2, <2>6 DEF Register!registerVars, value, may
  <2>7. ASSUME NEW d \in Doc, SaveStep(d) \/ Kill(d)
        PROVE  Rename(d) \/ SyncDirectory(d) \/ UNCHANGED <<name, behind>>
    BY <2>7 DEF SaveStep, Refuse, Create, Write, Sync, Fail, Kill
  <2>8. ASSUME Load \/ UNCHANGED vars PROVE UNCHANGED <<name, behind>>
    BY <2>8 DEF Load, Open, Read, Deliver, vars, saveVars
  <2> QED BY <2>3, <2>4, <2>5, <2>6, <2>7, <2>8 DEF Next, Register!RegisterNext
<1> QED BY <1>1, <1>2, SaveInvariantHolds, PTL
        DEF Spec, ImplementsRegister, Register!RegisterSpec
=============================================================================
