----------------------------- MODULE AtomicWrite -----------------------------
(***************************************************************************)
(* One .qups file of ABIYSS: QuPsStore.save with atomic_write_bytes        *)
(* (qups.py, atomic.py), several of which may be under way at once on the  *)
(* same path, and QuPsStore.load.  The lane saves outside `_lock` while an *)
(* operator or a client saves under it, and any CLI command may load.      *)
(*                                                                         *)
(* Each save writes a document and, with it, a file of its own that gets   *)
(* the name last.  Of a file, a loss of power keeps what was synchronised  *)
(* and possibly more; of the directory, any entry it had since it was last *)
(* synchronised.  A killed process loses neither.  A temporary file that   *)
(* stays behind is never loaded: the queue reads names that end in .qups.  *)
(*                                                                         *)
(* Documents are measured in the pieces in which they are read and written.*)
(***************************************************************************)
EXTENDS Integers

CONSTANTS
  Doc,        \* the saves of one query, each of its own document
  NoDoc,      \* the path does not exist
  Length,     \* [Doc -> Nat \ {0}], the pieces of each document
  MaxLength   \* MAX_QUPS_BYTES

ASSUME NoDocAssumption  == NoDoc \notin Doc
ASSUME LengthAssumption == Length \in [Doc -> Nat \ {0}] /\ MaxLength \in Nat

VARIABLES
  pc,       \* where each save is in atomic_write_bytes
  written,  \* how much of its file each save has written
  synced,   \* how much of it survives a loss of power
  name,     \* the document the path names
  behind,   \* the documents the path may name after a loss of power
  result,   \* what each save returned
  renamed,  \* history: the saves that reached the name
  over,     \* history: for each of them, those that had reached it before
  reader,   \* where the reader is in QuPsStore.load
  fd,       \* the document whose file the reader has open
  got       \* how much of it the reader has read

history  == <<renamed, over>>
saveVars == <<pc, written, synced, name, behind, result, history>>
loadVars == <<reader, fd, got>>
vars == <<saveVars, loadVars>>

-----------------------------------------------------------------------------
(* QuPsStore.save and atomic_write_bytes.                                  *)

Goto(d, label)   == pc' = [pc EXCEPT ![d] = label]
Return(d, value) == Goto(d, "returned") /\ result' = [result EXCEPT ![d] = value]

\* The limit admits one piece more than load takes.
FitsMutant(d) == Length[d] <= MaxLength + 1

Fits(d) == Length[d] <= MaxLength

\* The document exceeds MAX_QUPS_BYTES: nothing is touched.
Refuse(d) ==
  /\ pc[d] = "begin" /\ ~ Fits(d)
  /\ Return(d, "error")
  /\ UNCHANGED <<written, synced, name, behind, history, loadVars>>

\* mkdir, mkstemp and fchmod: an empty file under a name of its own.
Create(d) ==
  /\ pc[d] = "begin" /\ Fits(d)
  /\ Goto(d, "write")
  /\ UNCHANGED <<written, synced, name, behind, result, history, loadVars>>

\* handle.write and handle.flush.
Write(d) ==
  /\ pc[d] = "write" /\ written[d] < Length[d]
  /\ written' = [written EXCEPT ![d] = @ + 1]
  /\ UNCHANGED <<pc, synced, name, behind, result, history, loadVars>>

\* The file is not synchronised.
SyncMutant(d) ==
  /\ pc[d] = "write" /\ written[d] = Length[d]
  /\ Goto(d, "rename")
  /\ UNCHANGED <<written, synced, name, behind, result, history, loadVars>>

\* os.fsync of the file.
Sync(d) ==
  /\ pc[d] = "write" /\ written[d] = Length[d]
  /\ synced' = [synced EXCEPT ![d] = written[d]]
  /\ Goto(d, "rename")
  /\ UNCHANGED <<written, name, behind, result, history, loadVars>>

\* The name is taken while the file is being written.
RenameMutant(d) ==
  /\ pc[d] \in {"write", "rename"}
  /\ name' = d /\ behind' = behind \cup {d}
  /\ renamed' = renamed \cup {d} /\ over' = [over EXCEPT ![d] = renamed]
  /\ Goto(d, "sync_directory")
  /\ UNCHANGED <<written, synced, result, loadVars>>

\* os.replace.
Rename(d) ==
  /\ pc[d] = "rename"
  /\ name' = d /\ behind' = behind \cup {d}
  /\ renamed' = renamed \cup {d} /\ over' = [over EXCEPT ![d] = renamed]
  /\ Goto(d, "sync_directory")
  /\ UNCHANGED <<written, synced, result, loadVars>>

\* The directory is not synchronised.
SyncDirectoryMutant(d) ==
  /\ pc[d] = "sync_directory"
  /\ Return(d, "ok")
  /\ UNCHANGED <<written, synced, name, behind, history, loadVars>>

\* os.open, os.fsync and os.close of the directory, and the return.
SyncDirectory(d) ==
  /\ pc[d] = "sync_directory"
  /\ behind' = {name}
  /\ Return(d, "ok")
  /\ UNCHANGED <<written, synced, name, history, loadVars>>

\* Any of these calls raises, before the renaming or after it.  The temporary file
\* is unlinked; what that raises is swallowed.
Fail(d) ==
  /\ pc[d] \in {"begin", "write", "rename", "sync_directory"}
  /\ pc[d] = "begin" => Fits(d)
  /\ Return(d, "error")
  /\ UNCHANGED <<written, synced, name, behind, history, loadVars>>

-----------------------------------------------------------------------------
(* QuPsStore.load: _read_nofollow, one piece at a time, then the parser    *)
(* and the hash of the envelope.                                           *)

\* The file is opened by its name; a renaming later does not move the reader.
Open ==
  /\ reader = "idle" /\ name # NoDoc
  /\ reader' = "reading" /\ fd' = name /\ got' = 0
  /\ UNCHANGED saveVars

\* The loop ends at the end of the file or past MAX_QUPS_BYTES.
Read ==
  /\ reader = "reading"
  /\ IF got < written[fd] /\ got <= MaxLength
     THEN got' = got + 1 /\ UNCHANGED reader
     ELSE reader' = "loaded" /\ UNCHANGED got
  /\ UNCHANGED <<saveVars, fd>>

\* What was read is not too large and its hash is right.
Valid == got <= MaxLength /\ got = Length[fd]

Deliver ==
  /\ reader = "loaded"
  /\ reader' = "idle" /\ fd' = NoDoc /\ got' = 0
  /\ UNCHANGED saveVars

-----------------------------------------------------------------------------
(* Stops.                                                                  *)

UnderWay == {d \in Doc : pc[d] # "returned" /\ pc[d] # "begin"}

\* The process of a save is killed; what reached the file system stays.
Kill(d) ==
  /\ d \in UnderWay
  /\ Goto(d, "returned")
  /\ UNCHANGED <<written, synced, name, behind, result, history, loadVars>>

\* The power is lost: every save and the reader with it.
PowerLoss ==
  /\ pc' = [d \in Doc |-> IF d \in UnderWay THEN "returned" ELSE pc[d]]
  /\ name' \in behind /\ behind' = {name'}
  /\ \E left \in [Doc -> 0..MaxLength] :
       /\ \A d \in Doc : synced[d] <= left[d] /\ left[d] <= written[d]
       /\ written' = left /\ synced' = left
  /\ reader' = "idle" /\ fd' = NoDoc /\ got' = 0
  /\ UNCHANGED <<result, history>>

-----------------------------------------------------------------------------
Init ==
  /\ pc = [d \in Doc |-> "begin"] /\ result = [d \in Doc |-> "none"]
  /\ written = [d \in Doc |-> 0] /\ synced = [d \in Doc |-> 0]
  /\ name = NoDoc /\ behind = {NoDoc}
  /\ renamed = {} /\ over = [d \in Doc |-> {}]
  /\ reader = "idle" /\ fd = NoDoc /\ got = 0

SaveStep(d) == \/ Refuse(d) \/ Create(d) \/ Write(d) \/ Sync(d) \/ Rename(d)
               \/ SyncDirectory(d) \/ Fail(d)
Load == Open \/ Read \/ Deliver

Next == (\E d \in Doc : SaveStep(d) \/ Kill(d)) \/ Load \/ PowerLoss

Spec == Init /\ [][Next]_vars

-----------------------------------------------------------------------------
\* Every variable has its type.
TypeOK ==
  /\ pc \in [Doc -> {"begin", "write", "rename", "sync_directory", "returned"}]
  /\ result \in [Doc -> {"none", "ok", "error"}]
  /\ written \in [Doc -> 0..MaxLength] /\ synced \in [Doc -> 0..MaxLength]
  /\ name \in Doc \cup {NoDoc} /\ behind \in SUBSET (Doc \cup {NoDoc})
  /\ renamed \in SUBSET Doc /\ over \in [Doc -> SUBSET Doc]
  /\ reader \in {"idle", "reading", "loaded"} /\ fd \in Doc \cup {NoDoc}
  /\ got \in Nat

\* d is the document of a, or replaced it.
Follows(d, a) == d # NoDoc /\ (d = a \/ a \in over[d])

\* docs/CONTRACTS.md, "either durably replaces a complete envelope or raises an
\* error": after a loss of power the path names the document of each save that
\* returned normally, or of a later one.
AcknowledgedSurvives ==
  \A a \in Doc : result[a] = "ok" => \A d \in behind : Follows(d, a)

\* Whoever replaces the file in the meantime and however large it is, a load reads
\* one document, whole and within the limit; damage is never due to a save.
LoadsAreWhole == reader = "loaded" => Valid

\* A document whose file lost a piece of it, as far as it matters: no document.
Damaged == "damaged"
Whole(d, length) == IF d = NoDoc \/ length[d] = Length[d] THEN d ELSE Damaged

Register == INSTANCE DurableRegister
              WITH value <- Whole(name, written),
                   may <- {Whole(d, synced) : d \in behind}

\* The file is a register that is replaced as a whole: this is what QueryQueue takes
\* it for, whatever is interrupted, raises or races in a save.
ImplementsRegister == Register!RegisterSpec

-----------------------------------------------------------------------------
(* Why these hold.                                                         *)

\* A file is complete on disk before it gets the name and stays as it is.
CompleteOnDisk ==
  \A d \in Doc :
    /\ synced[d] <= written[d] /\ written[d] <= Length[d]
    /\ pc[d] \in {"begin", "write", "rename"} => d \notin renamed
    /\ pc[d] \in {"write", "rename"} => Fits(d)
    /\ pc[d] = "rename" \/ d \in renamed => Fits(d) /\ synced[d] = Length[d]

\* What the directory may hold got there, and a save that is about to synchronise it
\* is behind the current name.
OrderOnDisk ==
  /\ name \in behind /\ behind \subseteq renamed \cup {NoDoc}
  /\ \A d \in Doc : /\ pc[d] = "sync_directory" => d \in renamed /\ Follows(name, d)
                    /\ result[d] = "ok" => d \in renamed

ReaderHolds ==
  /\ reader # "idle" => fd \in renamed /\ got <= Length[fd]
  /\ reader = "loaded" => got = Length[fd]

\* AcknowledgedSurvives and LoadsAreWhole with what makes them inductive.
SaveInvariant ==
  TypeOK /\ CompleteOnDisk /\ OrderOnDisk /\ AcknowledgedSurvives /\ ReaderHolds
=============================================================================
