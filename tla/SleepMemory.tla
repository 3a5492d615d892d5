----------------------------- MODULE SleepMemory -----------------------------
(***************************************************************************)
(* The memory of ABIYSS (memory.py) and the Sleep tick that consolidates   *)
(* it (sleep.py).                                                          *)
(*                                                                         *)
(* Hosts add memories, one or several threads call tick, and the process   *)
(* may crash between any two of their steps; SQLite keeps every committed  *)
(* row.  A tick decides that it is due, reads the memories that no recap   *)
(* represents, summarises them, stores the recap and writes a note: no     *)
(* lock spans these steps.                                                 *)
(*                                                                         *)
(* An item stands for one (key, content, source) triple, the uniqueness    *)
(* of the memories table; a source is a number, in the order in which      *)
(* source ids sort.  Time is kept as ages, cut off at the tick interval.   *)
(*                                                                         *)
(* Definitions whose name ends in Mutant are plausible slips of the code,  *)
(* each used to show that a property notices the slip; nothing here refers *)
(* to them.                                                                *)
(***************************************************************************)
EXTENDS Naturals, Sequences, FiniteSets

CONSTANTS
  Item,          \* distinct memories: key, content and source id
  Source,        \* [Item -> Nat]
  Size,          \* [Item -> Nat], the length of the content; 0 if it is blank
  Ticker,        \* threads that may call tick
  Crews,         \* the sets of threads that do, in one behaviour or another
  MaxPending,    \* SleepConfig.max_pending (256)
  Window,        \* rows unrecapped_memories looks at (5000)
  Excerpt,       \* contents the default summary is made of (16)
  MaxSources,    \* MAX_SOURCES_PER_RECAP (128)
  MaxContent,    \* MAX_CONTENT_BYTES (64 KiB)
  TickSeconds,   \* SleepConfig.tick_seconds
  MaxCrashes     \* bound on the crashes of a behaviour

ASSUME ItemAssumption ==
  /\ IsFiniteSet(Item)
  /\ Source \in [Item -> Nat] /\ Size \in [Item -> Nat]
  /\ \A i \in Item : Size[i] <= MaxContent
ASSUME LimitAssumption ==
  /\ {MaxPending, Window, Excerpt, MaxSources, MaxContent, TickSeconds}
       \subseteq Nat \ {0}
  /\ MaxPending <= Window
  /\ MaxCrashes \in Nat
ASSUME CrewAssumption == IsFiniteSet(Ticker) /\ Crews \subseteq SUBSET Ticker

VARIABLES
  crew,       \* the threads that call tick; never changes
  rows,       \* the memories table, in the order of its row ids
  recaps,     \* the recaps table
  notes,      \* the recaps an Obsidian note was written for
  sinceTick,  \* age of _last_tick; TickSeconds if it is None or older
  pc,         \* where each ticker is in tick
  sinceNow,   \* age of the `now` each ticker read
  batch,      \* the row ids each ticker read
  secret,     \* history: items that were sensitive when they were first added
  crashes     \* counter behind MaxCrashes

tickVars == <<sinceTick, pc, sinceNow, batch>>
vars == <<crew, rows, recaps, notes, tickVars, secret, crashes>>

-----------------------------------------------------------------------------
(* What a tick reads, summarises and records.                              *)

\* The uniqueness constraint is missing.
StoredMutant(i) == FALSE

Stored(i) == \E n \in DOMAIN rows : rows[n].item = i

\* Only a recap whose note was written counts.
ProcessedMutant == UNION {r.sources : r \in notes}

\* _processed_source_ids: the sources some recap names.
Processed == UNION {r.sources : r \in recaps}

\* The n greatest of a set of row ids: ORDER BY id DESC, and a limit.
Newest(S, n) == {x \in S : Cardinality({y \in S : y >= x}) <= n}

\* The rows an ordinary read may return.
Readable(n) == ~ rows[n].sensitive

\* Sources that are already represented are not left out.
IsFreshMutant(n) == TRUE

IsFresh(n) == Source[rows[n].item] \notin Processed

\* unrecapped_memories: filtered after the limit of the query, and cut to what one
\* tick takes.
Unrecapped ==
  Newest({n \in Newest({m \in DOMAIN rows : Readable(m)}, Window) : IsFresh(n)},
         MaxPending)

Items(S)   == {rows[n].item : n \in S}
Sources(S) == {Source[i] : i \in Items(S)}

\* The default summary: the first contents of the batch.
Summary(S) == Items(Newest(S, Excerpt))
Blank(I)   == \A i \in I : Size[i] = 0
Length(I)  == Cardinality({p \in I \X (1..MaxContent) : p[2] <= Size[p[1]]})

\* create_immutable_recap: sorted, deduplicated and cut to the first sources.
Normalized(S) == {x \in S : Cardinality({y \in S : y <= x}) <= MaxSources}

-----------------------------------------------------------------------------
(* Hosts and time.                                                         *)

\* The row an item has takes the flag of the latest call.
AddMemoryMutant(i) ==
  \E sensitive \in BOOLEAN :
    LET row == [item |-> i, sensitive |-> sensitive]
    IN /\ rows' = IF Stored(i)
                  THEN [n \in DOMAIN rows |-> IF rows[n].item = i THEN row ELSE rows[n]]
                  ELSE Append(rows, row)
       /\ secret' = IF sensitive /\ ~ Stored(i) THEN secret \cup {i} ELSE secret
       /\ UNCHANGED <<crew, recaps, notes, tickVars, crashes>>

\* add_memory, called with any flag: INSERT OR IGNORE keeps the first row of an item
\* as it is.
AddMemory(i) ==
  \E sensitive \in BOOLEAN :
    /\ rows' = IF Stored(i) THEN rows
               ELSE Append(rows, [item |-> i, sensitive |-> sensitive])
    /\ secret' = IF sensitive /\ ~ Stored(i) THEN secret \cup {i} ELSE secret
    /\ UNCHANGED <<crew, recaps, notes, tickVars, crashes>>

Older(age) == IF age < TickSeconds THEN age + 1 ELSE age

\* Time passes, as long as some age can still be told apart from an older one.
Elapse ==
  /\ \/ sinceTick < TickSeconds
     \/ \E t \in Ticker : pc[t] # "idle" /\ sinceNow[t] < TickSeconds
  /\ sinceTick' = Older(sinceTick)
  /\ sinceNow' = [t \in Ticker |-> IF pc[t] = "idle" THEN 0 ELSE Older(sinceNow[t])]
  /\ UNCHANGED <<crew, rows, recaps, notes, pc, batch, secret, crashes>>

-----------------------------------------------------------------------------
(* SleepManager.tick.                                                      *)

Idle(t) == /\ pc' = [pc EXCEPT ![t] = "idle"]
           /\ sinceNow' = [sinceNow EXCEPT ![t] = 0]
           /\ batch' = [batch EXCEPT ![t] = {}]

\* The interval has passed since _last_tick; otherwise tick returns None.
TickDue(t) ==
  /\ pc[t] = "idle" /\ sinceTick >= TickSeconds
  /\ pc' = [pc EXCEPT ![t] = "due"]
  /\ UNCHANGED <<crew, rows, recaps, notes, sinceTick, sinceNow, batch, secret, crashes>>

\* Nothing to consolidate.
TickEmpty(t) ==
  /\ pc[t] = "due" /\ Unrecapped = {}
  /\ sinceTick' = sinceNow[t]
  /\ Idle(t)
  /\ UNCHANGED <<crew, rows, recaps, notes, secret, crashes>>

\* An empty summary is skipped, and _last_tick is left alone.
TickBlank(t) ==
  /\ pc[t] = "due" /\ Unrecapped # {} /\ Blank(Summary(Unrecapped))
  /\ Idle(t)
  /\ UNCHANGED <<crew, rows, recaps, notes, sinceTick, secret, crashes>>

\* The rows are read and summarised; the memory lock is not held any more.
TickRead(t) ==
  /\ pc[t] = "due" /\ ~ Blank(Summary(Unrecapped))
  /\ batch' = [batch EXCEPT ![t] = Unrecapped]
  /\ pc' = [pc EXCEPT ![t] = "summarised"]
  /\ UNCHANGED <<crew, rows, recaps, notes, sinceTick, sinceNow, secret, crashes>>

\* The joined contents exceed what a recap may hold: tick raises.
TickTooLong(t) ==
  /\ pc[t] = "summarised" /\ Length(Summary(batch[t])) > MaxContent
  /\ Idle(t)
  /\ UNCHANGED <<crew, rows, recaps, notes, sinceTick, secret, crashes>>

\* What a tick records of the rows it read.
RecapOf(S) == [sources |-> Normalized(Sources(S)), content |-> Summary(S)]

\* The note is written before the recap.
TickRecapMutant(t) ==
  /\ pc[t] = "summarised" /\ Length(Summary(batch[t])) <= MaxContent
  /\ notes' = notes \cup {RecapOf(batch[t])}
  /\ sinceTick' = sinceNow[t]
  /\ pc' = [pc EXCEPT ![t] = "recapped"]
  /\ UNCHANGED <<crew, rows, recaps, sinceNow, batch, secret, crashes>>

\* create_immutable_recap, and _last_tick takes the time the tick began.
TickRecap(t) ==
  /\ pc[t] = "summarised" /\ Length(Summary(batch[t])) <= MaxContent
  /\ recaps' = recaps \cup {RecapOf(batch[t])}
  /\ sinceTick' = sinceNow[t]
  /\ pc' = [pc EXCEPT ![t] = "recapped"]
  /\ UNCHANGED <<crew, rows, notes, sinceNow, batch, secret, crashes>>

\* The Obsidian note; a write that fails is only audited.
TickNote(t) ==
  /\ pc[t] = "recapped"
  /\ notes' \in {notes, notes \cup {RecapOf(batch[t])}}
  /\ Idle(t)
  /\ UNCHANGED <<crew, rows, recaps, sinceTick, secret, crashes>>

\* The process stops and starts again: SQLite and the notes remain.
Crash ==
  /\ crashes < MaxCrashes
  /\ crashes' = crashes + 1
  /\ sinceTick' = TickSeconds
  /\ pc' = [t \in Ticker |-> "idle"]
  /\ sinceNow' = [t \in Ticker |-> 0]
  /\ batch' = [t \in Ticker |-> {}]
  /\ UNCHANGED <<crew, rows, recaps, notes, secret>>

-----------------------------------------------------------------------------
Init ==
  /\ crew \in Crews
  /\ rows = <<>> /\ recaps = {} /\ notes = {}
  /\ sinceTick = TickSeconds
  /\ pc = [t \in Ticker |-> "idle"]
  /\ sinceNow = [t \in Ticker |-> 0]
  /\ batch = [t \in Ticker |-> {}]
  /\ secret = {} /\ crashes = 0

Tick(t) == \/ TickDue(t) \/ TickEmpty(t) \/ TickBlank(t) \/ TickRead(t)
           \/ TickTooLong(t) \/ TickRecap(t) \/ TickNote(t)

Next == \/ \E i \in Item : AddMemory(i)
        \/ \E t \in crew : Tick(t)
        \/ Elapse \/ Crash

Spec == Init /\ [][Next]_vars

-----------------------------------------------------------------------------
Row   == [item : Item, sensitive : BOOLEAN]
Recap == [sources : SUBSET {Source[i] : i \in Item}, content : SUBSET Item]

\* Every variable has its type, and no item has two rows.
TypeOK ==
  /\ crew \in Crews
  /\ rows \in Seq(Row)
  /\ \A m, n \in DOMAIN rows : rows[m].item = rows[n].item => m = n
  /\ recaps \subseteq Recap /\ notes \subseteq Recap
  /\ sinceTick \in 0..TickSeconds
  /\ pc \in [Ticker -> {"idle", "due", "summarised", "recapped"}]
  /\ sinceNow \in [Ticker -> 0..TickSeconds]
  /\ batch \in [Ticker -> SUBSET DOMAIN rows]
  /\ \A t \in Ticker : Cardinality(batch[t]) <= MaxPending
  /\ secret \subseteq Item /\ crashes \in 0..MaxCrashes

\* docs/CONTRACTS.md, "A Sleep tick may materialize a recap only from source
\* observations not already represented by an immutable recap": where one thread
\* ticks, no new recap names a source that an earlier one names.
FreshSourcesOnly ==
  [][Cardinality(crew) = 1 =>
       \A r \in recaps' \ recaps : r.sources \cap Processed = {}]_vars

\* The same where several threads tick: ticks that overlap may read one source, but
\* each thread gets it into one recap at most, crash or not.
RecapsPerSource ==
  \A i \in Item :
    Cardinality({r \in recaps : Source[i] \in r.sources}) <= Cardinality(crew)

\* docs/CONTRACTS.md, "Sensitive memory is excluded": a memory that was sensitive when
\* it was first added is in no recap and in no note, even if it is added again as one
\* that is not.
SecretIsNotRecapped == \A r \in recaps \cup notes : r.content \cap secret = {}

\* A note is evidence of a recap that is in the database, crash or not.
NotesHaveRecaps == notes \subseteq recaps

\* docs/ARCHITECTURE.md, "only memories that are not already represented by an
\* immutable recap": a source counts as represented only if the content of some recap
\* has a memory of that source.  The code counts every source of a batch, of which
\* the default summary takes the first few memories.
RepresentedIsRecapped ==
  \A x \in Processed : \E r \in recaps : \E i \in r.content : Source[i] = x
=============================================================================
