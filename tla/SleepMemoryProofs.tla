-------------------------- MODULE SleepMemoryProofs --------------------------
(***************************************************************************)
(* Theorems about SleepMemory, for any memories, sources, threads, limits  *)
(* and crashes.                                                            *)
(***************************************************************************)
EXTENDS SleepMemory, FiniteSetTheorems, WellFoundedInduction, TLAPS

-----------------------------------------------------------------------------
(* What a query returns.                                                   *)

\* ORDER BY id DESC LIMIT n returns rows of the table, and at most n of them.
LEMMA NewestBounded ==
  ASSUME NEW S \in SUBSET Nat, IsFiniteSet(S), NEW n \in Nat
  PROVE  /\ Newest(S, n) \subseteq S
         /\ IsFiniteSet(Newest(S, n)) /\ Cardinality(Newest(S, n)) <= n
<1> DEFINE T == Newest(S, n)
<1>1. T \subseteq S /\ IsFiniteSet(T)
  BY FS_Subset DEF Newest
<1>2. CASE T = {}
  BY <1>1, <1>2, FS_EmptySet
<1>3. CASE T # {}
  <2> DEFINE Less == {p \in Nat \X Nat : p[1] < p[2]}
  <2>0. IsWellFoundedOn(Less, Nat)
    BY NatLessThanWellFounded, Zenon DEF OpToRel
  <2>1. PICK x \in T : \A y \in T : ~ (<<y, x>> \in Less)
    <3> HIDE DEF T, Less
    <3> QED BY <1>1, <1>3, <2>0, WFMin
  <2> DEFINE above == {y \in S : y >= x}
  <2>2. T \subseteq above
    <3>1. \A y \in T : y \in Nat /\ y \in S
      BY <1>1
    <3>2. \A y, z \in Nat : y < z => <<y, z>> \in Less
      OBVIOUS
    <3>3. ASSUME NEW y \in T PROVE y >= x
      <4> HIDE DEF T, Less
      <4>1. ~ (y < x)
        BY <2>1, <3>1, <3>2
      <4> QED BY <3>1, <4>1
    <3> HIDE DEF T
    <3> QED BY <3>1, <3>3
  <2>3. IsFiniteSet(above) /\ Cardinality(above) <= n
    BY <2>1, FS_Subset DEF Newest
  <2>4. Cardinality(T) \in Nat /\ Cardinality(above) \in Nat
    BY <1>1, <2>3, FS_CardinalityType
  <2>5. Cardinality(T) <= Cardinality(above)
    BY <2>2, <2>3, FS_Subset
  <2> QED BY <1>1, <2>3, <2>4, <2>5
<1> QED BY <1>2, <1>3

\* A tick reads row ids, no more than max_pending, of rows that are not sensitive
\* and whose source no recap names.
LEMMA UnrecappedRows ==
  ASSUME TypeOK
  PROVE  /\ Unrecapped \subseteq DOMAIN rows
         /\ Cardinality(Unrecapped) <= MaxPending
         /\ \A n \in Unrecapped : Readable(n) /\ IsFresh(n)
<1> DEFINE R == {m \in DOMAIN rows : Readable(m)}
           F == {n \in Newest(R, Window) : IsFresh(n)}
<1>1. DOMAIN rows = 1..Len(rows) /\ Len(rows) \in Nat
  BY DEF TypeOK
<1>2. R \in SUBSET Nat /\ IsFiniteSet(R)
  <2>1. IsFiniteSet(DOMAIN rows) /\ R \in SUBSET DOMAIN rows
    BY <1>1, FS_Interval
  <2> QED BY <1>1, <2>1, FS_Subset
<1> HIDE DEF R
<1>3. Newest(R, Window) \subseteq R /\ IsFiniteSet(Newest(R, Window))
  BY <1>2, NewestBounded, LimitAssumption
<1>4. F \in SUBSET Nat /\ IsFiniteSet(F)
  BY <1>2, <1>3, FS_Subset
<1>5. Unrecapped = Newest(F, MaxPending)
  BY DEF Unrecapped, R
<1> HIDE DEF F
<1>6. Unrecapped \subseteq F /\ Cardinality(Unrecapped) <= MaxPending
  BY <1>4, <1>5, NewestBounded, LimitAssumption
<1>7. \A n \in F : n \in R /\ IsFresh(n)
  BY <1>3 DEF F
<1> QED BY <1>6, <1>7 DEF R

-----------------------------------------------------------------------------
(* Types.                                                                  *)

\* The recap of a batch of rows has the type of a recap.
LEMMA RecapType ==
  ASSUME TypeOK, NEW S \in SUBSET DOMAIN rows
  PROVE  RecapOf(S) \in Recap
<1>1. \A n \in DOMAIN rows : rows[n].item \in Item
  <2>1. rows \in Seq(Row)
    BY DEF TypeOK
  <2>2. \A n \in DOMAIN rows : rows[n] \in Row
    BY <2>1
  <2> QED BY <2>2 DEF Row
<1>2. Items(S) \subseteq Item
  BY <1>1 DEF Items
<1>3. Summary(S) \subseteq Item
  BY <1>1 DEF Summary, Items, Newest
<1>4. Normalized(Sources(S)) \subseteq {Source[i] : i \in Item}
  BY <1>2 DEF Normalized, Sources
<1> QED BY <1>3, <1>4 DEF RecapOf, Recap

\* A row that is added leaves the rows that are there as they are.
LEMMA RowsStay ==
  ASSUME TypeOK, NEW i \in Item, AddMemory(i)
  PROVE  /\ rows' \in Seq(Row) /\ DOMAIN rows \subseteq DOMAIN rows'
         /\ \A n \in DOMAIN rows : rows'[n] = rows[n]
         /\ \A n \in DOMAIN rows' \ DOMAIN rows :
              /\ rows'[n].item = i /\ ~ Stored(i)
              /\ i \in secret' => i \in secret \/ rows'[n].sensitive
         /\ \A m, n \in DOMAIN rows' \ DOMAIN rows : m = n
         /\ secret' \subseteq secret \cup {i} /\ (Stored(i) => secret' = secret)
<1>1. PICK sensitive \in BOOLEAN :
        /\ rows' = IF Stored(i) THEN rows
                   ELSE Append(rows, [item |-> i, sensitive |-> sensitive])
        /\ secret' = IF sensitive /\ ~ Stored(i) THEN secret \cup {i} ELSE secret
  BY DEF AddMemory
<1>2. [item |-> i, sensitive |-> sensitive] \in Row
  BY DEF Row
<1> DEFINE row == [item |-> i, sensitive |-> sensitive]
<1>3. CASE Stored(i)
  BY <1>1, <1>3 DEF TypeOK
<1>4. CASE ~ Stored(i)
  <2>1. rows' = Append(rows, row) /\ rows \in Seq(Row) /\ row \in Row
    BY <1>1, <1>2, <1>4 DEF TypeOK
  <2>5. row.item = i /\ row.sensitive = sensitive
    OBVIOUS
  <2> HIDE DEF row
  <2>2. /\ rows' \in Seq(Row) /\ DOMAIN rows' = 1..(Len(rows) + 1)
        /\ \A n \in 1..Len(rows) : rows'[n] = rows[n]
        /\ rows'[Len(rows) + 1] = row
    BY <2>1
  <2>3. DOMAIN rows = 1..Len(rows) /\ Len(rows) \in Nat
    BY <2>1
  <2>4. \A n \in DOMAIN rows' \ DOMAIN rows : n = Len(rows) + 1
    BY <2>2, <2>3
  <2> QED BY <1>1, <1>4, <2>2, <2>3, <2>4, <2>5
<1> QED BY <1>3, <1>4

\* Every step of host, ticker and crash keeps the types, and no item gets two rows.
LEMMA TypeStep == TypeOK /\ [Next]_vars => TypeOK'
<1> SUFFICES ASSUME TypeOK, [Next]_vars PROVE TypeOK'
  OBVIOUS
<1> USE LimitAssumption
<1>0. \A age \in 0..TickSeconds : Older(age) \in 0..TickSeconds
  BY DEF Older
<1>1. ASSUME NEW i \in Item, AddMemory(i) PROVE TypeOK'
  <2>1. \A m, n \in DOMAIN rows' : rows'[m].item = rows'[n].item => m = n
    <3> SUFFICES ASSUME NEW m \in DOMAIN rows', NEW n \in DOMAIN rows',
                        rows'[m].item = rows'[n].item
                 PROVE  m = n
      OBVIOUS
    <3>1. CASE m \in DOMAIN rows /\ n \in DOMAIN rows
      BY <1>1, <3>1, RowsStay DEF TypeOK
    <3>2. CASE m \notin DOMAIN rows /\ n \notin DOMAIN rows
      BY <1>1, <3>2, RowsStay
    <3>3. CASE m \in DOMAIN rows /\ n \notin DOMAIN rows
      BY <1>1, <3>3, RowsStay DEF Stored
    <3>4. CASE m \notin DOMAIN rows /\ n \in DOMAIN rows
      BY <1>1, <3>4, RowsStay DEF Stored
    <3> QED BY <3>1, <3>2, <3>3, <3>4
  <2>2. secret' \subseteq Item
    BY <1>1 DEF AddMemory, TypeOK
  <2>3. batch' \in [Ticker -> SUBSET DOMAIN rows']
    BY <1>1, RowsStay DEF AddMemory, tickVars, TypeOK
  <2> QED BY <1>1, RowsStay, <2>1, <2>2, <2>3 DEF AddMemory, tickVars, TypeOK
<1>2. CASE Elapse
  <2>1. sinceTick' \in 0..TickSeconds /\ sinceNow' \in [Ticker -> 0..TickSeconds]
    BY <1>0, <1>2 DEF Elapse, TypeOK
  <2>2. UNCHANGED <<crew, rows, recaps, notes, pc, batch, secret, crashes>>
    BY <1>2 DEF Elapse
  <2> QED BY <2>1, <2>2 DEF TypeOK
<1>3. Cardinality({}) = 0
  BY FS_EmptySet
<1>4. ASSUME NEW t \in Ticker, Idle(t)
      PROVE  /\ pc' \in [Ticker -> {"idle", "due", "summarised", "recapped"}]
             /\ sinceNow' \in [Ticker -> 0..TickSeconds]
             /\ batch' \in [Ticker -> SUBSET DOMAIN rows]
             /\ \A u \in Ticker : Cardinality(batch'[u]) <= MaxPending
  BY <1>3, <1>4 DEF Idle, TypeOK
<1>5. ASSUME NEW t \in Ticker, Tick(t) PROVE TypeOK'
  <2>1. CASE TickDue(t)
    BY <2>1 DEF TickDue, TypeOK
  <2>2. CASE TickEmpty(t)
    BY <1>4, <2>2 DEF TickEmpty, TypeOK
  <2>3. CASE TickBlank(t)
    BY <1>4, <2>3 DEF TickBlank, TypeOK
  <2>4. CASE TickRead(t)
    <3>1. /\ batch' \in [Ticker -> SUBSET DOMAIN rows]
          /\ \A u \in Ticker : Cardinality(batch'[u]) <= MaxPending
      BY <2>4, UnrecappedRows DEF TickRead, TypeOK
    <3> QED BY <2>4, <3>1 DEF TickRead, TypeOK
  <2>5. CASE TickTooLong(t)
    BY <1>4, <2>5 DEF TickTooLong, TypeOK
  <2>6. RecapOf(batch[t]) \in Recap
    BY RecapType DEF TypeOK
  <2>7. CASE TickRecap(t)
    BY <2>6, <2>7 DEF TickRecap, TypeOK
  <2>8. CASE TickNote(t)
    <3>1. notes' \subseteq Recap
      BY <2>6, <2>8 DEF TickNote, TypeOK
    <3> QED BY <1>4, <2>8, <3>1 DEF TickNote, TypeOK
  <2> QED BY <1>5, <2>1, <2>2, <2>3, <2>4, <2>5, <2>7, <2>8 DEF Tick
<1>6. CASE Crash
  BY <1>3, <1>6 DEF Crash, TypeOK
<1>7. CASE UNCHANGED vars
  BY <1>7 DEF vars, tickVars, TypeOK
<1> QED BY <1>1, <1>2, <1>5, <1>6, <1>7, CrewAssumption DEF Next, TypeOK

\* An empty database and idle threads have their types.
LEMMA TypeInit == Init => TypeOK
BY FS_EmptySet, LimitAssumption DEF Init, TypeOK

\* Every variable keeps its type, and add_memory keeps the items unique.
THEOREM TypesHold == Spec => []TypeOK
BY TypeInit, TypeStep, PTL DEF Spec

-----------------------------------------------------------------------------
(* Notes and recaps.                                                       *)

\* A batch that is kept is summarised alike whatever hosts add in the meantime.
LEMMA RecapStays ==
  ASSUME TypeOK, NEW t \in Ticker, batch'[t] = batch[t],
         \A n \in DOMAIN rows : rows'[n] = rows[n]
  PROVE  /\ Sources(batch[t])' = Sources(batch[t])
         /\ RecapOf(batch[t])' = RecapOf(batch[t])
<1>1. batch[t] \subseteq DOMAIN rows
  BY DEF TypeOK
<1>2. Items(batch[t])' = Items(batch[t])
  BY <1>1 DEF Items
<1>3. Sources(batch[t])' = Sources(batch[t])
  BY <1>2 DEF Sources
<1>4. Summary(batch[t])' = Summary(batch[t])
  <2>1. Newest(batch'[t], Excerpt) = Newest(batch[t], Excerpt)
    OBVIOUS
  <2>2. Newest(batch[t], Excerpt) \subseteq DOMAIN rows
    BY <1>1 DEF Newest
  <2> QED BY <2>1, <2>2 DEF Summary, Items
<1>5. RecapOf(batch[t])' = RecapOf(batch[t])
  BY <1>3, <1>4 DEF RecapOf
<1> QED BY <1>3, <1>5

\* No step changes a row that is there, nor who ticks.
LEMMA RowsAndBatches ==
  ASSUME TypeOK, [Next]_vars
  PROVE  /\ \A n \in DOMAIN rows : rows'[n] = rows[n]
         /\ crew' = crew
<1>1. ASSUME NEW i \in Item, AddMemory(i) PROVE \A n \in DOMAIN rows : rows'[n] = rows[n]
  BY <1>1, RowsStay
<1>2. CASE \E i \in Item : AddMemory(i)
  BY <1>1, <1>2 DEF AddMemory
<1>3. CASE ~ \E i \in Item : AddMemory(i)
  BY <1>3 DEF Next, Tick, TickDue, TickEmpty, TickBlank, TickRead, TickTooLong,
              TickRecap, TickNote, Elapse, Crash, vars
<1> QED BY <1>2, <1>3

\* A thread that is about to write a note has its recap in the database.
RecapIsStored ==
  /\ TypeOK /\ NotesHaveRecaps
  /\ \A t \in Ticker : pc[t] = "recapped" => RecapOf(batch[t]) \in recaps

\* A note implies its recap, for any number of threads and whatever crashes.
THEOREM NotesAreBacked == Spec => []NotesHaveRecaps
<1>1. Init => RecapIsStored
  BY TypeInit DEF Init, RecapIsStored, NotesHaveRecaps
<1>2. RecapIsStored /\ [Next]_vars => RecapIsStored'
  <2> SUFFICES ASSUME RecapIsStored, [Next]_vars PROVE RecapIsStored'
    OBVIOUS
  <2> USE DEF RecapIsStored
  <2>0. TypeOK'
    BY TypeStep
  <2>1. \A t \in Ticker : batch'[t] = batch[t] => RecapOf(batch[t])' = RecapOf(batch[t])
    BY RecapStays, RowsAndBatches
  \* Nothing is taken out of the recaps, and nobody gets as far as a note.
  <2>2. ASSUME notes' = notes, recaps \subseteq recaps',
               \A t \in Ticker : pc'[t] = "recapped" =>
                 pc[t] = "recapped" /\ batch'[t] = batch[t]
        PROVE  RecapIsStored'
    <3>1. NotesHaveRecaps'
      BY <2>2 DEF NotesHaveRecaps
    <3>2. \A t \in Ticker : pc'[t] = "recapped" => RecapOf(batch[t])' \in recaps'
      BY <2>1, <2>2
    <3> QED BY <2>0, <3>1, <3>2
  <2>3. ASSUME NEW i \in Item, AddMemory(i) PROVE RecapIsStored'
    BY <2>2, <2>3 DEF AddMemory, tickVars
  <2>4. ASSUME NEW t \in Ticker, Tick(t) PROVE RecapIsStored'
    <3>1. CASE TickDue(t)
      BY <2>2, <3>1 DEF TickDue, TypeOK
    <3>2. CASE TickEmpty(t)
      BY <2>2, <3>2 DEF TickEmpty, Idle, TypeOK
    <3>3. CASE TickBlank(t)
      BY <2>2, <3>3 DEF TickBlank, Idle, TypeOK
    <3>4. CASE TickRead(t)
      BY <2>2, <3>4 DEF TickRead, TypeOK
    <3>5. CASE TickTooLong(t)
      BY <2>2, <3>5 DEF TickTooLong, Idle, TypeOK
    <3>6. CASE TickRecap(t)
      <4>1. /\ notes' = notes /\ batch' = batch
            /\ recaps' = recaps \cup {RecapOf(batch[t])}
            /\ \A u \in Ticker : pc'[u] = "recapped" => u = t \/ pc[u] = "recapped"
        BY <3>6 DEF TickRecap, TypeOK
      <4>2. NotesHaveRecaps'
        BY <4>1 DEF NotesHaveRecaps
      <4>3. \A u \in Ticker : pc'[u] = "recapped" => RecapOf(batch[u])' \in recaps'
        BY <2>1, <4>1
      <4> QED BY <2>0, <4>2, <4>3
    <3>7. CASE TickNote(t)
      <4>1. /\ recaps' = recaps /\ RecapOf(batch[t]) \in recaps
            /\ notes' \subseteq notes \cup {RecapOf(batch[t])}
            /\ \A u \in Ticker : pc'[u] = "recapped" =>
                 pc[u] = "recapped" /\ batch'[u] = batch[u]
        BY <3>7 DEF TickNote, Idle, TypeOK
      <4>2. NotesHaveRecaps'
        BY <4>1 DEF NotesHaveRecaps
      <4>3. \A u \in Ticker : pc'[u] = "recapped" => RecapOf(batch[u])' \in recaps'
        BY <2>1, <4>1
      <4> QED BY <2>0, <4>2, <4>3
    <3> QED BY <2>4, <3>1, <3>2, <3>3, <3>4, <3>5, <3>6, <3>7 DEF Tick
  <2>5. CASE Elapse
    BY <2>2, <2>5 DEF Elapse
  <2>6. CASE Crash
    BY <2>2, <2>6 DEF Crash
  <2>7. CASE UNCHANGED vars
    BY <2>2, <2>7 DEF vars, tickVars
  <2> QED BY <2>3, <2>4, <2>5, <2>6, <2>7, CrewAssumption DEF Next, TypeOK
<1>3. RecapIsStored => NotesHaveRecaps
  BY DEF RecapIsStored
<1> QED BY <1>1, <1>2, <1>3, PTL DEF Spec

-----------------------------------------------------------------------------
(* What recaps name.                                                       *)

\* Only create_immutable_recap adds a recap, called by a thread that ticks, and the
\* recap is that of the rows the thread has read.
LEMMA NewRecap ==
  ASSUME TypeOK, [Next]_vars, NEW r \in recaps' \ recaps
  PROVE  \E t \in crew : TickRecap(t) /\ r = RecapOf(batch[t])
<1>1. ~ UNCHANGED recaps
  OBVIOUS
<1>2. PICK t \in crew : Tick(t)
  BY <1>1 DEF Next, AddMemory, Elapse, Crash, vars
<1>3. TickRecap(t)
  BY <1>1, <1>2 DEF Tick, TickDue, TickEmpty, TickBlank, TickRead, TickTooLong, TickNote
<1> QED BY <1>3 DEF TickRecap

\* The rows the only thread that ticks is about to recap are of fresh sources.
BatchIsFresh ==
  \A t \in Ticker : crew = {t} /\ pc[t] = "summarised" =>
    Sources(batch[t]) \cap Processed = {}

LEMMA BatchStaysFresh == TypeOK /\ BatchIsFresh /\ [Next]_vars => BatchIsFresh'
<1> SUFFICES ASSUME TypeOK, BatchIsFresh, [Next]_vars,
                    NEW t \in Ticker, crew = {t}, pc'[t] = "summarised"
             PROVE  (Sources(batch[t]) \cap Processed = {})'
  BY RowsAndBatches DEF BatchIsFresh
<1>1. CASE TickRead(t)
  <2>1. batch'[t] = Unrecapped /\ UNCHANGED <<rows, recaps>>
    BY <1>1 DEF TickRead, TypeOK
  <2>2. \A n \in Unrecapped : Source[rows[n].item] \notin Processed
    BY UnrecappedRows DEF IsFresh
  <2>3. Sources(batch[t])' = {Source[rows[n].item] : n \in Unrecapped}
    BY <2>1 DEF Sources, Items
  <2>4. Processed' = Processed
    BY <2>1 DEF Processed
  <2> QED BY <2>2, <2>3, <2>4
<1>2. CASE ~ TickRead(t)
  <2>1. pc[t] = "summarised" /\ batch'[t] = batch[t] /\ recaps' = recaps
    BY <1>2 DEF Next, Tick, TickDue, TickEmpty, TickBlank, TickTooLong, TickRecap,
                TickNote, Idle, AddMemory, Elapse, Crash, vars, tickVars, TypeOK
  <2>2. Sources(batch[t])' = Sources(batch[t])
    BY <2>1, RecapStays, RowsAndBatches
  <2> QED BY <2>1, <2>2 DEF BatchIsFresh, Processed
<1> QED BY <1>1, <1>2

\* docs/CONTRACTS.md, "only from source observations not already represented": where
\* one thread ticks no recap repeats a source, for any sources, limits and crashes.
THEOREM FreshRecaps == Spec => FreshSourcesOnly
<1>1. Init => BatchIsFresh
  BY DEF Init, BatchIsFresh
<1>2. TypeOK /\ BatchIsFresh /\ [Next]_vars =>
        (Cardinality(crew) = 1 => \A r \in recaps' \ recaps : r.sources \cap Processed = {})
  <2> SUFFICES ASSUME TypeOK, BatchIsFresh, [Next]_vars, Cardinality(crew) = 1,
                      NEW r \in recaps' \ recaps
               PROVE  r.sources \cap Processed = {}
    OBVIOUS
  <2>1. PICK t \in crew : TickRecap(t) /\ r = RecapOf(batch[t])
    BY NewRecap
  <2>2. IsFiniteSet(crew) /\ crew \in SUBSET Ticker
    BY CrewAssumption, FS_Subset DEF TypeOK
  <2>3. crew = {t}
    BY <2>1, <2>2, FS_Singleton
  <2>4. Sources(batch[t]) \cap Processed = {}
    BY <2>1, <2>2, <2>3 DEF BatchIsFresh, TickRecap
  <2> QED BY <2>1, <2>4 DEF RecapOf, Normalized
<1> QED BY <1>1, <1>2, TypesHold, BatchStaysFresh, PTL DEF Spec, FreshSourcesOnly

-----------------------------------------------------------------------------
(* Threads whose ticks overlap.                                            *)

\* The threads that are about to recap a source, and the recaps that name it.
Held(x)   == {t \in Ticker : pc[t] = "summarised" /\ x \in RecapOf(batch[t]).sources}
Naming(x) == {r \in recaps : x \in r.sources}

\* A thread that gets a source into a recap is one fewer that holds it, and a source
\* that some recap names is not taken up again.
OverlapInvariant ==
  /\ \A t \in Ticker \ crew : pc[t] = "idle"
  /\ \A i \in Item :
       /\ IsFiniteSet(Naming(Source[i]))
       /\ Cardinality(Naming(Source[i])) + Cardinality(Held(Source[i]))
            <= Cardinality(crew)

\* Every step of host, ticker and crash keeps the balance.
LEMMA OverlapStep == TypeOK /\ OverlapInvariant /\ [Next]_vars => OverlapInvariant'
<1> SUFFICES ASSUME TypeOK, OverlapInvariant, [Next]_vars PROVE OverlapInvariant'
  OBVIOUS
<1>1. /\ crew' = crew /\ IsFiniteSet(crew) /\ crew \subseteq Ticker
      /\ Cardinality(crew) \in Nat /\ IsFiniteSet(Ticker)
      /\ \A t \in Ticker : batch'[t] = batch[t] => RecapOf(batch[t])' = RecapOf(batch[t])
  BY CrewAssumption, FS_Subset, FS_CardinalityType, RecapStays, RowsAndBatches DEF TypeOK
<1>2. \A t \in Ticker \ crew : pc'[t] = "idle"
  BY <1>1 DEF Next, Tick, TickDue, TickEmpty, TickBlank, TickRead, TickTooLong, TickRecap,
              TickNote, Idle, AddMemory, Elapse, Crash, vars, tickVars, TypeOK,
              OverlapInvariant
<1> DEFINE Balanced(x) == /\ IsFiniteSet(Naming(x))'
                          /\ Cardinality(Naming(x))' + Cardinality(Held(x))'
                               <= Cardinality(crew)
<1>3. SUFFICES ASSUME NEW x \in {Source[i] : i \in Item} PROVE Balanced(x)
  BY <1>1, <1>2 DEF OverlapInvariant
<1>4. /\ IsFiniteSet(Naming(x)) /\ IsFiniteSet(Held(x))
      /\ Cardinality(Naming(x)) \in Nat /\ Cardinality(Held(x)) \in Nat
      /\ Cardinality(Naming(x)) + Cardinality(Held(x)) <= Cardinality(crew)
  <2>1. Held(x) \subseteq Ticker
    BY DEF Held
  <2> QED BY <1>1, <2>1, FS_Subset, FS_CardinalityType DEF OverlapInvariant
\* Nobody takes the source up, and no recap is added.
<1>5. ASSUME Naming(x)' = Naming(x), Held(x)' \subseteq Held(x) PROVE Balanced(x)
  <2>1. Cardinality(Held(x)') <= Cardinality(Held(x)) /\ Cardinality(Held(x)') \in Nat
    BY <1>4, <1>5, FS_Subset, FS_CardinalityType
  <2> QED BY <1>1, <1>4, <1>5, <2>1
<1>6. ASSUME NEW t \in crew, TickRead(t) PROVE Balanced(x)
  <2>1. /\ recaps' = recaps /\ batch' = [batch EXCEPT ![t] = Unrecapped]
        /\ rows' = rows /\ pc' = [pc EXCEPT ![t] = "summarised"] /\ t \in Ticker
    BY <1>1, <1>6 DEF TickRead
  <2>2. Naming(x)' = Naming(x)
    BY <2>1 DEF Naming
  <2>3. \A u \in Ticker \ {t} : u \in Held(x)' => u \in Held(x)
    BY <1>1, <2>1 DEF Held, TypeOK
  <2>4. CASE t \in Held(x)'
    <3>1. x \in Sources(Unrecapped)
      <4>1. x \in Sources(batch[t])'
        BY <2>4 DEF Held, RecapOf, Normalized
      <4>2. batch'[t] = Unrecapped
        BY <2>1 DEF TypeOK
      <4> QED BY <2>1, <4>1, <4>2 DEF Sources, Items
    <3>2. x \notin Processed
      BY <3>1, UnrecappedRows DEF Sources, Items, IsFresh
    <3>3. Naming(x) = {}
      BY <3>2 DEF Naming, Processed
    <3>4. Held(x)' \subseteq crew
      BY <1>1, <1>2 DEF Held
    <3>5. Cardinality(Held(x)') <= Cardinality(crew) /\ Cardinality(Held(x)') \in Nat
      BY <1>1, <3>4, FS_Subset, FS_CardinalityType
    <3> QED BY <1>1, <1>4, <2>2, <3>3, <3>5, FS_EmptySet
  <2>5. CASE t \notin Held(x)'
    <3>1. Held(x)' \subseteq Held(x)
      BY <2>3, <2>5 DEF Held
    <3> QED BY <1>5, <2>2, <3>1
  <2> QED BY <2>4, <2>5
<1>7. ASSUME NEW t \in crew, TickRecap(t) PROVE Balanced(x)
  <2> DEFINE r == RecapOf(batch[t])
  <2>1. /\ recaps' = recaps \cup {r} /\ batch' = batch /\ t \in Ticker
        /\ pc' = [pc EXCEPT ![t] = "recapped"] /\ pc[t] = "summarised"
    BY <1>1, <1>7 DEF TickRecap
  <2>2. Held(x)' \subseteq Held(x) \ {t}
    BY <1>1, <2>1 DEF Held, TypeOK
  <2>3. CASE x \notin r.sources
    <3>1. Naming(x)' = Naming(x)
      BY <2>1, <2>3 DEF Naming
    <3> QED BY <1>5, <2>2, <3>1
  <2>4. CASE x \in r.sources
    <3>1. t \in Held(x)
      BY <2>1, <2>4 DEF Held
    <3> HIDE DEF r
    <3>2. Naming(x)' = Naming(x) \cup {r}
      BY <2>1, <2>4 DEF Naming
    <3>3. /\ IsFiniteSet(Naming(x) \cup {r})
          /\ Cardinality(Naming(x) \cup {r}) <= Cardinality(Naming(x)) + 1
          /\ Cardinality(Naming(x) \cup {r}) \in Nat
      <4>1. /\ IsFiniteSet(Naming(x) \cup {r})
            /\ Cardinality(Naming(x) \cup {r})
                 \in {Cardinality(Naming(x)), Cardinality(Naming(x)) + 1}
        BY <1>4, FS_AddElement
      <4> QED BY <1>4, <4>1
    <3>4. /\ IsFiniteSet(Held(x) \ {t})
          /\ Cardinality(Held(x) \ {t}) = Cardinality(Held(x)) - 1
      BY <1>4, <3>1, FS_RemoveElement
    <3>5. /\ Cardinality(Held(x)') <= Cardinality(Held(x)) - 1
          /\ Cardinality(Held(x)') \in Nat
      BY <2>2, <3>4, FS_Subset, FS_CardinalityType
    <3> QED BY <1>1, <1>4, <3>2, <3>3, <3>5
  <2> QED BY <2>3, <2>4
<1>8. CASE \A t \in crew : ~ TickRead(t) /\ ~ TickRecap(t)
  <2>1. /\ recaps' = recaps
        /\ \A u \in Ticker : pc'[u] = "summarised" =>
             pc[u] = "summarised" /\ batch'[u] = batch[u]
    BY <1>8 DEF Next, Tick, TickDue, TickEmpty, TickBlank, TickTooLong, TickNote, Idle,
                AddMemory, Elapse, Crash, vars, tickVars, TypeOK
  <2>2. Held(x)' \subseteq Held(x) /\ Naming(x)' = Naming(x)
    BY <1>1, <2>1 DEF Held, Naming
  <2> QED BY <1>5, <2>2
<1> HIDE DEF Balanced
<1> QED BY <1>6, <1>7, <1>8

\* No source gets into more recaps than there are threads that tick: however their
\* ticks overlap, each of them names it once at most, for any limits and crashes.
THEOREM OverlapIsBounded == Spec => []RecapsPerSource
<1>1. Init => OverlapInvariant
  <2> SUFFICES ASSUME Init PROVE OverlapInvariant
    OBVIOUS
  <2>1. \A x : Naming(x) = {} /\ Held(x) = {}
    BY DEF Init, Naming, Held
  <2> crew \in SUBSET Ticker
    BY CrewAssumption DEF Init
  <2>2. IsFiniteSet(crew)
    BY CrewAssumption, FS_Subset
  <2>3. Cardinality(crew) \in Nat
    BY <2>2, FS_CardinalityType
  <2>4. IsFiniteSet({}) /\ Cardinality({}) = 0
    BY FS_EmptySet
  <2>5. \A t \in Ticker : pc[t] = "idle"
    BY DEF Init
  <2> HIDE DEF Init
  <2> QED BY <2>1, <2>3, <2>4, <2>5 DEF OverlapInvariant
<1>2. TypeOK /\ OverlapInvariant => RecapsPerSource
  <2> SUFFICES ASSUME TypeOK, OverlapInvariant, NEW i \in Item
               PROVE  Cardinality(Naming(Source[i])) <= Cardinality(crew)
    BY DEF RecapsPerSource, Naming
  <2>1. IsFiniteSet(crew) /\ IsFiniteSet(Held(Source[i]))
    BY CrewAssumption, FS_Subset DEF TypeOK, Held
  <2>2. /\ Cardinality(crew) \in Nat /\ Cardinality(Held(Source[i])) \in Nat
        /\ Cardinality(Naming(Source[i])) \in Nat
    BY <2>1, FS_CardinalityType DEF OverlapInvariant
  <2> QED BY <2>2 DEF OverlapInvariant
<1> QED BY <1>1, <1>2, TypesHold, OverlapStep, PTL DEF Spec

-----------------------------------------------------------------------------
(* Sensitive memories.                                                     *)

\* After add_memory the item has a row.
LEMMA StoredNow ==
  ASSUME TypeOK, NEW i \in Item, AddMemory(i)
  PROVE  Stored(i)'
<1>1. CASE Stored(i)
  BY <1>1 DEF AddMemory, Stored
<1>2. CASE ~ Stored(i)
  <2>1. PICK sensitive \in BOOLEAN :
          rows' = Append(rows, [item |-> i, sensitive |-> sensitive])
    BY <1>2 DEF AddMemory
  <2> DEFINE n == Len(rows) + 1
  <2>2. n \in DOMAIN rows' /\ rows'[n] = [item |-> i, sensitive |-> sensitive]
    BY <2>1 DEF TypeOK
  <2> QED BY <2>2 DEF Stored
<1> QED BY <1>1, <1>2

\* A row keeps the flag of the first call, and what is read, recapped or noted is of
\* rows that may be read.
FlagInvariant ==
  /\ \A n \in DOMAIN rows : rows[n].item \in secret => rows[n].sensitive
  /\ \A i \in secret : Stored(i)
  /\ \A t \in Ticker : \A n \in batch[t] : Readable(n)
  /\ \A r \in recaps \cup notes : \A i \in r.content :
       \E n \in DOMAIN rows : rows[n].item = i /\ Readable(n)

LEMMA FlagStep == TypeOK /\ FlagInvariant /\ [Next]_vars => FlagInvariant'
<1> SUFFICES ASSUME TypeOK, FlagInvariant, [Next]_vars PROVE FlagInvariant'
  OBVIOUS
<1>1. /\ \A n \in DOMAIN rows : rows'[n] = rows[n]
      /\ DOMAIN rows \subseteq DOMAIN rows'
  <2>1. CASE \E i \in Item : AddMemory(i)
    BY <2>1, RowsStay
  <2>2. CASE rows' = rows
    BY <2>2
  <2> QED BY <2>1, <2>2 DEF Next, Tick, TickDue, TickEmpty, TickBlank, TickRead,
          TickTooLong, TickRecap, TickNote, Elapse, Crash, vars
<1>2. \A n \in DOMAIN rows' : rows'[n].item \in secret' => rows'[n].sensitive
  <2>1. CASE \E i \in Item : AddMemory(i)
    <3>1. PICK i \in Item : AddMemory(i)
      BY <2>1
    <3> SUFFICES ASSUME NEW n \in DOMAIN rows', rows'[n].item \in secret'
                 PROVE  rows'[n].sensitive
      OBVIOUS
    <3>2. CASE n \in DOMAIN rows
      <4>1. rows'[n] = rows[n] /\ rows[n].item \in secret'
        BY <1>1, <3>2
      <4>2. rows[n].item \in secret
        BY <3>1, <3>2, <4>1, RowsStay DEF Stored
      <4> QED BY <3>2, <4>1, <4>2 DEF FlagInvariant
    <3>3. CASE n \notin DOMAIN rows
      BY <3>1, <3>3, RowsStay DEF FlagInvariant
    <3> QED BY <3>2, <3>3
  <2>2. CASE UNCHANGED <<rows, secret>>
    BY <2>2 DEF FlagInvariant
  <2> QED BY <2>1, <2>2 DEF Next, Tick, TickDue, TickEmpty, TickBlank, TickRead,
          TickTooLong, TickRecap, TickNote, Elapse, Crash, vars
<1>3. \A i \in secret' : Stored(i)'
  <2>1. CASE \E i \in Item : AddMemory(i)
    <3>1. PICK i \in Item : AddMemory(i)
      BY <2>1
    <3>2. Stored(i)'
      BY <1>1, <3>1, StoredNow
    <3> QED BY <1>1, <3>1, <3>2, RowsStay DEF FlagInvariant, Stored
  <2>2. CASE UNCHANGED <<rows, secret>>
    BY <2>2 DEF FlagInvariant, Stored
  <2> QED BY <2>1, <2>2 DEF Next, Tick, TickDue, TickEmpty, TickBlank, TickRead,
          TickTooLong, TickRecap, TickNote, Elapse, Crash, vars
\* A batch is kept, dropped or read by a query that asks for the flag.
<1>4. \A t \in Ticker : \A n \in batch'[t] : Readable(n)'
  <2>1. \A t \in Ticker : \A n \in batch'[t] : n \in batch[t] \/ n \in Unrecapped
    BY CrewAssumption DEF Next, Tick, TickDue, TickEmpty, TickBlank, TickRead,
       TickTooLong, TickRecap, TickNote, Idle, AddMemory, Elapse, Crash, vars, tickVars,
       TypeOK
  <2>2. \A t \in Ticker : \A n \in batch'[t] : n \in DOMAIN rows /\ Readable(n)
    BY <2>1, UnrecappedRows DEF FlagInvariant, TypeOK
  <2> QED BY <1>1, <2>2 DEF Readable
<1>5. ASSUME NEW r \in (recaps \cup notes)', NEW i \in r.content
      PROVE  \E n \in DOMAIN rows' : rows'[n].item = i /\ Readable(n)'
  <2>1. \E n \in DOMAIN rows : rows[n].item = i /\ Readable(n)
    <3>1. CASE r \in recaps \cup notes
      BY <3>1, <1>5 DEF FlagInvariant
    <3>2. CASE r \notin recaps \cup notes
      <4>1. PICK t \in Ticker : r = RecapOf(batch[t])
        BY <1>5, <3>2, CrewAssumption
        DEF Next, Tick, TickDue, TickEmpty, TickBlank, TickRead, TickTooLong, TickRecap,
            TickNote, AddMemory, Elapse, Crash, vars, TypeOK
      <4>2. \E n \in batch[t] : rows[n].item = i
        BY <1>5, <4>1 DEF RecapOf, Summary, Items, Newest
      <4> QED BY <4>2 DEF FlagInvariant, TypeOK
    <3> QED BY <3>1, <3>2
  <2> QED BY <1>1, <2>1 DEF Readable
<1> QED BY <1>2, <1>3, <1>4, <1>5 DEF FlagInvariant

\* docs/CONTRACTS.md, "Sensitive memory is excluded": what was sensitive when it was
\* first added gets into no recap and no note, however hosts flag it later on, for any
\* memories, threads, limits and crashes.
THEOREM FirstFlagHolds == Spec => []SecretIsNotRecapped
<1>1. Init => FlagInvariant
  BY DEF Init, FlagInvariant
<1>2. FlagInvariant => SecretIsNotRecapped
  BY DEF FlagInvariant, SecretIsNotRecapped, Readable
<1> QED BY <1>1, <1>2, TypesHold, FlagStep, PTL DEF Spec
=============================================================================
