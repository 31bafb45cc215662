------------------------ MODULE GoadTaskStore_proofs ------------------------
(***************************************************************************)
(* Proofs about the GOAD task store, for any number of tasks, instances,   *)
(* readers, lines and restarts, with or without failing writes and power   *)
(* losses.                                                                 *)
(***************************************************************************)
EXTENDS GoadTaskStore, FiniteSetTheorems, SequenceTheorems, TLAPS

\* Any set of task ids is finite, so its cardinality is a number.
LEMMA IdsFinite ==
  ASSUME NEW S \in SUBSET Ids
  PROVE  Cardinality(S) \in Nat
<1>1. IsFiniteSet(Ids)
  BY FS_Interval, ConstantsAssumption DEF Ids
<1>2. IsFiniteSet(S)
  BY <1>1, FS_Subset
<1> QED BY <1>2, FS_CardinalityType

\* The listings of a set of ids are sequences of ids.
LEMMA ListingsAreSeqs ==
  ASSUME NEW S \in SUBSET Ids, NEW q \in Listings(S)
  PROVE  q \in Seq(Ids)
<1>1. Cardinality(S) \in Nat
  BY IdsFinite
<1>2. q \in [1..Cardinality(S) -> S]
  BY DEF Listings
<1>3. q \in [1..Cardinality(S) -> Ids]
  BY <1>2
<1> QED BY <1>1, <1>3

\* The order left by an eviction is a sequence of ids.
LEMMA KeptType ==
  ASSUME NEW o \in Seq(Ids)
  PROVE  Kept(o) \in Seq(Ids)
<1>1. CASE Len(o) > MaxTasks
  <2>1. Len(o) - MaxTasks + 1 \in 1..Len(o)
    BY <1>1, ConstantsAssumption
  <2> QED BY <1>1, <2>1, SubSeqProperties, ConstantsAssumption DEF Kept
<1>2. CASE ~(Len(o) > MaxTasks)
  BY <1>2 DEF Kept
<1> QED BY <1>1, <1>2

\* A log read from disk is a sequence of line numbers.
LEMMA LogLinesType ==
  ASSUME TypeOK, NEW t \in Ids, NEW d \in Dirs
  PROVE  LogLines(t, d) \in Seq(Nat)
BY DEF TypeOK, LogLines, Dirs

\* Reading the lines of an entry keeps it an entry.
LEMMA WithLinesType ==
  ASSUME TypeOK, NEW t \in Ids, NEW e \in Entry, NEW w \in Outcomes
  PROVE  WithLines(t, e, w) \in Entry
<1>1. LogLines(t, e.instance) \in Seq(Nat)
  BY LogLinesType DEF Entry
<1>2. Len(LogLines(t, e.instance)) \in Nat
  BY <1>1
<1>3. ASSUME NEW l \in Seq(Nat), NEW n \in Nat
      PROVE  /\ [e EXCEPT !.lines = l, !.count = n, !.loaded = TRUE] \in Entry
             /\ [e EXCEPT !.loaded = TRUE] \in Entry
  BY DEF Entry
<1> QED BY <1>1, <1>2, <1>3 DEF WithLines

\* A row read back is an entry whose lines are not loaded.
LEMMA FromRowType ==
  ASSUME NEW r \in Row
  PROVE  FromRow(r) \in Entry /\ ~FromRow(r).loaded
BY DEF FromRow, Row, Entry

\* Neither an entry nor a row is the value that stands for its absence.
LEMMA Present == NoEntry \notin Entry /\ NoRow \notin Row
  BY DEF NoEntry, Entry, NoRow, Row

\* What fetching a task leaves in the map is an entry with its lines, or nothing.
LEMMA FetchedType ==
  ASSUME TypeOK, NEW t \in Ids, NEW w \in Outcomes
  PROVE  Fetched(t, w) \in Entry \cup {NoEntry}
<1>1. mem[t] \in Entry \cup {NoEntry} /\ db[t] \in Row \cup {NoRow}
  BY DEF TypeOK
<1>2. CASE mem[t] # NoEntry
  BY <1>1, <1>2, WithLinesType DEF Fetched
<1>3. CASE mem[t] = NoEntry /\ db[t] # NoRow
  BY <1>1, <1>3, WithLinesType, FromRowType DEF Fetched
<1> QED BY <1>2, <1>3 DEF Fetched

-----------------------------------------------------------------------------
(* Type correctness.                                                       *)

LEMMA InitType == Init => TypeOK
BY ConstantsAssumption DEF Init, TypeOK, Idle, Reader

LEMMA CreateTaskType ==
  ASSUME TypeOK, NEW i \in Dirs, NEW w \in Outcomes, CreateTask(i, w)
  PROVE  TypeOK'
<1> DEFINE t == created + 1
           o == Append(order, t)
           row == [instance |-> i, status |-> "running", count |-> 0, recovered |-> FALSE]
<1>1. t \in Ids /\ created' = t /\ t \in 0..MaxId
  BY ConstantsAssumption DEF CreateTask, TypeOK, Ids
<1>2. o \in Seq(Ids)
  BY <1>1 DEF TypeOK
<1>3. row \in Row
  BY DEF Row, Statuses
<1>4. [FromRow(row) EXCEPT !.loaded = TRUE] \in Entry
  BY <1>3, FromRowType DEF Entry
<1>5. mem' \in [Ids -> Entry \cup {NoEntry}]
  <2> HIDE DEF t, o, row
  <2>1. mem' = [u \in Ids |-> IF u = t THEN [FromRow(row) EXCEPT !.loaded = TRUE]
                              ELSE IF u \in Victims(o) THEN NoEntry ELSE mem[u]]
    BY DEF CreateTask, t, o, row
  <2> QED BY <2>1, <1>4 DEF TypeOK
<1>6. order' \in Seq(Ids)
  BY <1>2, KeptType DEF CreateTask
<1>7. PICK kept \in SUBSET Victims(o) :
        /\ db' = [u \in Ids |-> IF u = t THEN (IF w THEN row ELSE NoRow)
                                ELSE IF u \in Victims(o) \ kept THEN NoRow ELSE db[u]]
        /\ files' = [u \in Ids |->
             IF u \in Victims(o) \ kept THEN Unlinked(u) ELSE files[u]]
  BY DEF CreateTask
<1>8. db' \in [Ids -> Row \cup {NoRow}]
  <2> HIDE DEF t, o, row
  <2> QED BY <1>3, <1>7 DEF TypeOK
<1>9. files' \in [Ids -> [Dirs -> Seq(Nat)]]
  <2> HIDE DEF t, o, row
  <2>1. ASSUME NEW f \in [Dirs -> Seq(Nat)], NEW d
        PROVE  [f EXCEPT ![Global] = <<>>, ![d] = <<>>] \in [Dirs -> Seq(Nat)]
    <3>1. <<>> \in Seq(Nat)
      OBVIOUS
    <3>2. [f EXCEPT ![Global] = <<>>] \in [Dirs -> Seq(Nat)]
      BY <3>1
    <3> QED BY <3>1, <3>2
  <2> QED BY <1>7, <2>1 DEF TypeOK, Unlinked
<1>10. subs' \in [Subs -> Reader]
  <2>1. ASSUME NEW r \in Reader
        PROVE  [r EXCEPT !.state = "stranded"] \in Reader
    BY DEF Reader
  <2> QED BY <2>1 DEF CreateTask, TypeOK, Readers, Strand
<1> QED BY <1>1, <1>5, <1>6, <1>8, <1>9, <1>10 DEF CreateTask, TypeOK

LEMMA AppendLineType ==
  ASSUME TypeOK, NEW t \in Ids, NEW w \in Outcomes, AppendLine(t, w)
  PROVE  TypeOK'
<1> DEFINE l == emitted[t] + 1
           e == [mem[t] EXCEPT !.lines = Append(@, l), !.count = @ + 1]
<1>1. l \in Nat /\ mem[t] \in Entry
  BY DEF TypeOK, AppendLine, InMemory
<1>2. e \in Entry
  <2>1. mem[t].lines \in Seq(Nat) /\ mem[t].count \in Nat
    BY <1>1 DEF Entry
  <2>2. Append(mem[t].lines, l) \in Seq(Nat) /\ mem[t].count + 1 \in Nat
    BY <1>1, <2>1
  <2>3. ASSUME NEW q \in Seq(Nat), NEW n \in Nat
        PROVE  [mem[t] EXCEPT !.lines = q, !.count = n] \in Entry
    BY <1>1 DEF Entry
  <2> QED BY <2>2, <2>3
<1>3. mem' \in [Ids -> Entry \cup {NoEntry}]
  BY <1>2 DEF AppendLine, TypeOK
<1>4. files' \in [Ids -> [Dirs -> Seq(Nat)]]
  <2>1. e.instance \in Dirs
    BY <1>2 DEF Entry
  <2> HIDE DEF e
  <2>2. files[t] \in [Dirs -> Seq(Nat)]
    BY DEF TypeOK
  <2>3. Append(files[t][e.instance], l) \in Seq(Nat)
    BY <1>1, <2>1, <2>2
  <2>4. files' = [files EXCEPT ![t][e.instance] = Append(@, l)] \/ files' = files
    BY DEF AppendLine, e
  <2> HIDE DEF l
  <2>5. [files EXCEPT ![t][e.instance] = Append(@, l)] \in [Ids -> [Dirs -> Seq(Nat)]]
    BY <2>1, <2>3 DEF TypeOK
  <2> QED BY <2>4, <2>5 DEF TypeOK
<1>5. db' \in [Ids -> Row \cup {NoRow}]
  <2>1. e.count \in Nat
    BY <1>2 DEF Entry
  <2>2. ASSUME NEW r \in Row, NEW n \in Nat
        PROVE  [r EXCEPT !.count = n] \in Row
    BY DEF Row
  <2> QED BY <2>1, <2>2 DEF AppendLine, UpdateRow, TypeOK
<1>6. subs' \in [Subs -> Reader]
  <2>1. ASSUME NEW r \in Reader
        PROVE  [r EXCEPT !.seen = Append(@, l)] \in Reader
    BY <1>1 DEF Reader
  <2> QED BY <2>1 DEF AppendLine, TypeOK, Readers
<1>7. emitted' \in [Ids -> Nat]
  BY <1>1 DEF AppendLine, TypeOK
<1> QED BY <1>3, <1>4, <1>5, <1>6, <1>7 DEF AppendLine, TypeOK

LEMMA CompleteTaskType ==
  ASSUME TypeOK, NEW t \in Ids, NEW st \in Terminal, NEW w \in Outcomes,
         CompleteTask(t, st, w)
  PROVE  TypeOK'
<1>1. mem[t] \in Entry /\ st \in Statuses
  BY DEF TypeOK, CompleteTask, InMemory, Statuses
<1>2. mem' \in [Ids -> Entry \cup {NoEntry}]
  <2>1. [mem[t] EXCEPT !.status = st] \in Entry
    BY <1>1 DEF Entry
  <2> QED BY <2>1 DEF CompleteTask, TypeOK
<1>3. db' \in [Ids -> Row \cup {NoRow}]
  <2>1. mem[t].count \in Nat
    BY <1>1 DEF Entry
  <2>2. ASSUME NEW r \in Row, NEW n \in Nat
        PROVE  [r EXCEPT !.status = st, !.count = n] \in Row
    BY <1>1 DEF Row
  <2> QED BY <2>1, <2>2 DEF CompleteTask, UpdateRow, TypeOK
<1>4. subs' \in [Subs -> Reader]
  <2>1. ASSUME NEW r \in Reader
        PROVE  [r EXCEPT !.state = "closed"] \in Reader
    BY DEF Reader
  <2> QED BY <2>1 DEF CompleteTask, TypeOK, Readers, Close
<1>5. launched' \in [Ids -> Nat]
  BY DEF CompleteTask, TypeOK
<1> QED BY <1>2, <1>3, <1>4, <1>5 DEF CompleteTask, TypeOK

LEMMA LinkInstanceType ==
  ASSUME TypeOK, NEW t \in Ids, NEW i \in Instances, NEW w \in Outcomes,
         LinkInstance(t, i, w)
  PROVE  TypeOK'
<1>1. mem[t] \in Entry /\ i \in Dirs
  BY DEF TypeOK, LinkInstance, InMemory, Dirs
<1>2. mem' \in [Ids -> Entry \cup {NoEntry}]
  <2>1. [mem[t] EXCEPT !.instance = i] \in Entry
    BY <1>1 DEF Entry
  <2> QED BY <2>1 DEF LinkInstance, TypeOK
<1>3. db' \in [Ids -> Row \cup {NoRow}]
  <2>1. ASSUME NEW r \in Row
        PROVE  [r EXCEPT !.instance = i] \in Row
    BY <1>1 DEF Row
  <2> QED BY <2>1 DEF LinkInstance, UpdateRow, TypeOK
<1> QED BY <1>2, <1>3 DEF LinkInstance, TypeOK

\* The change Fetch makes keeps the types of the map and the order.
LEMMA FetchType ==
  ASSUME TypeOK, NEW t \in Ids, NEW w \in Outcomes, Fetch(t, w)
  PROVE  mem' \in [Ids -> Entry \cup {NoEntry}] /\ order' \in Seq(Ids)
BY FetchedType DEF Fetch, TypeOK

LEMMA SubscribeType ==
  ASSUME TypeOK, NEW s \in Subs, NEW t \in Ids, NEW w \in Outcomes, Subscribe(s, t, w)
  PROVE  TypeOK'
<1> DEFINE e == Fetched(t, w)
<1>1. e \in Entry \cup {NoEntry}
  BY FetchedType
<1>2. subs' = [subs EXCEPT ![s] =
          IF e = NoEntry THEN [task |-> t, seen |-> <<>>, state |-> "closed"]
          ELSE [task |-> t, seen |-> e.lines,
                state |-> IF e.status = "running" THEN "open" ELSE "closed"]]
  BY DEF Subscribe
<1> HIDE DEF e
<1>3. subs' \in [Subs -> Reader]
  BY <1>1, <1>2 DEF TypeOK, Reader, Entry
<1> QED BY <1>3, FetchType DEF Subscribe, TypeOK

\* hydrateFromDb builds entries, rows and an order of the right types.
LEMMA RestartType ==
  ASSUME TypeOK, NEW base, base \in [Ids -> Row \cup {NoRow}], Restart(base)
  PROVE  TypeOK'
<1> DEFINE d == Interrupted(base)
           orphans == Orphans(d)
<1>1. d \in [Ids -> Row \cup {NoRow}]
  <2>1. ASSUME NEW r \in Row
        PROVE  [r EXCEPT !.status = "error"] \in Row
    BY DEF Row, Statuses, Terminal
  <2> QED BY <2>1 DEF Interrupted
<1>2. Selected(d) \in SUBSET Ids /\ \A t \in Selected(d) : d[t] # NoRow
  BY DEF Selected, Rows
<1>3. orphans \in SUBSET Ids
  BY DEF Orphans
<1>4. PICK dir \in [orphans -> Dirs], unsaved \in SUBSET orphans,
             p \in Listings(Selected(d)), q \in Listings(orphans) :
        Hydrate(d, orphans, dir, unsaved) /\ order' = p \o q
  BY DEF Restart
<1>5. boots' \in 0..MaxBoots
  BY ConstantsAssumption DEF Restart, TypeOK
<1>6. subs' \in [Subs -> Reader]
  BY DEF Restart, Idle, Reader
<1>7. UNCHANGED <<durable, files, created, emitted, launched>>
  BY DEF Restart
<1> HIDE DEF d, orphans
<1>8. ASSUME NEW t \in orphans
      PROVE  Recovered(t, dir[t]) \in Row
  <2>1. t \in Ids /\ dir[t] \in Dirs
    BY <1>3
  <2>2. files[t][dir[t]] \in Seq(Nat)
    BY <2>1 DEF TypeOK
  <2> QED BY <2>1, <2>2 DEF Recovered, Row, Statuses, Terminal
<1>9. mem' \in [Ids -> Entry \cup {NoEntry}]
  <2>1. ASSUME NEW t \in Selected(d)
        PROVE  FromRow(d[t]) \in Entry
    BY <1>1, <1>2, FromRowType
  <2>2. ASSUME NEW t \in orphans
        PROVE  FromRow(Recovered(t, dir[t])) \in Entry
    BY <1>8, FromRowType
  <2> QED BY <1>4, <2>1, <2>2 DEF Hydrate
<1>10. db' \in [Ids -> Row \cup {NoRow}]
  BY <1>1, <1>4, <1>8 DEF Hydrate
<1>11. order' \in Seq(Ids)
  <2>1. p \in Seq(Ids) /\ q \in Seq(Ids)
    BY <1>2, <1>3, <1>4, ListingsAreSeqs
  <2> QED BY <1>4, <2>1
<1> QED BY <1>5, <1>6, <1>7, <1>9, <1>10, <1>11 DEF TypeOK

LEMMA NextType == TypeOK /\ [Next]_vars => TypeOK'
<1> SUFFICES ASSUME TypeOK, [Next]_vars PROVE TypeOK'
  OBVIOUS
<1>1. ASSUME NEW i \in Dirs, NEW w \in Outcomes, CreateTask(i, w) PROVE TypeOK'
  BY <1>1, CreateTaskType
<1>2. ASSUME NEW t \in Ids, NEW w \in Outcomes, AppendLine(t, w) PROVE TypeOK'
  BY <1>2, AppendLineType
<1>3. ASSUME NEW t \in Ids, NEW st \in Terminal, NEW w \in Outcomes, CompleteTask(t, st, w)
      PROVE  TypeOK'
  BY <1>3, CompleteTaskType
<1>4. ASSUME NEW t \in Ids, NEW i \in Instances, NEW w \in Outcomes, LinkInstance(t, i, w)
      PROVE  TypeOK'
  BY <1>4, LinkInstanceType
<1>5. ASSUME NEW t \in Ids, NEW w \in Outcomes, GetTask(t, w) PROVE TypeOK'
  BY <1>5, FetchType DEF GetTask, TypeOK
<1>6. ASSUME NEW s \in Subs, NEW t \in Ids, NEW w \in Outcomes, Subscribe(s, t, w) PROVE TypeOK'
  BY <1>6, SubscribeType
<1>7. ASSUME NEW s \in Subs, Unsubscribe(s) PROVE TypeOK'
  BY <1>7 DEF Unsubscribe, TypeOK, Idle, Reader
<1>8. CASE Checkpoint
  BY <1>8 DEF Checkpoint, TypeOK
<1>9. CASE Reboot
  BY <1>9, RestartType DEF Reboot, TypeOK
<1>10. CASE PowerLoss
  BY <1>10, RestartType DEF PowerLoss, TypeOK
<1>11. CASE UNCHANGED vars
  BY <1>11 DEF vars, TypeOK
<1> QED BY <1>1, <1>2, <1>3, <1>4, <1>5, <1>6, <1>7, <1>8, <1>9, <1>10, <1>11 DEF Next

\* goad-task-store.ts: the map, the table, the logs and the readers keep their
\* types through every call, failed write, restart and power loss.
THEOREM TypeCorrect == Spec => []TypeOK
BY InitType, NextType, PTL DEF Spec

-----------------------------------------------------------------------------
(* A reader that is attached has received exactly the lines of its task.   *)

\* Nothing is known of a task before it is created: no entry, row or log.
OnlyCreated ==
  \A t \in Ids : t > created =>
    mem[t] = NoEntry /\ db[t] = NoRow /\ durable[t] = NoRow /\ ~HasFile(t)

\* What makes LiveReader inductive: a new task replaces no entry a reader is
\* attached to.
ReaderInv == TypeOK /\ OnlyCreated /\ LiveReader

LEMMA InitReader == Init => ReaderInv
<1> SUFFICES ASSUME Init PROVE ReaderInv
  OBVIOUS
<1>1. OnlyCreated
  BY DEF Init, OnlyCreated, HasFile
<1>2. LiveReader
  BY DEF Init, LiveReader, Idle
<1> QED BY <1>1, <1>2, InitType DEF ReaderInv

\* An attached reader's task was created.
LEMMA OpenTask ==
  ASSUME ReaderInv, NEW s \in Subs, subs[s].state = "open"
  PROVE  /\ subs[s].task \in Ids
         /\ subs[s].task <= created
         /\ mem[subs[s].task] \in Entry
<1>1. subs[s].task \in Ids /\ mem[subs[s].task] # NoEntry
  BY DEF ReaderInv, LiveReader, InMemory
<1>2. created \in Nat
  BY DEF ReaderInv, TypeOK
<1> QED BY <1>1, <1>2 DEF ReaderInv, TypeOK, OnlyCreated, Ids

\* Fetching a task leaves the entry of an attached reader as it is.
LEMMA FetchKeepsLoaded ==
  ASSUME TypeOK, NEW t \in Ids, NEW u \in Ids, NEW w \in Outcomes, Fetch(t, w),
         mem[u] # NoEntry, mem[u].loaded
  PROVE  mem'[u] = mem[u]
<1>1. mem[u] \in Entry /\ mem' = [mem EXCEPT ![t] = Fetched(t, w)]
  BY DEF Fetch, TypeOK
<1>2. [mem[u] EXCEPT !.loaded = TRUE] = mem[u]
  BY <1>1 DEF Entry
<1>3. Fetched(u, w) = mem[u]
  BY <1>2 DEF Fetched, WithLines
<1>4. CASE t = u
  BY <1>1, <1>3, <1>4 DEF TypeOK
<1>5. CASE t # u
  BY <1>1, <1>5
<1> QED BY <1>4, <1>5

\* Fetching a task that was never created finds nothing.
LEMMA FetchOnlyCreated ==
  ASSUME TypeOK, OnlyCreated, NEW t \in Ids, NEW w \in Outcomes, Fetch(t, w), NEW u \in Ids, u > created
  PROVE  mem'[u] = NoEntry
BY DEF Fetch, Fetched, OnlyCreated, TypeOK

LEMMA OnlyCreatedStep == TypeOK /\ OnlyCreated /\ [Next]_vars => OnlyCreated'
<1> SUFFICES ASSUME TypeOK, OnlyCreated, [Next]_vars,
                    NEW u \in Ids, u > created'
             PROVE  /\ mem'[u] = NoEntry /\ db'[u] = NoRow /\ durable'[u] = NoRow
                    /\ \A d \in Dirs : files'[u][d] = <<>>
  BY DEF OnlyCreated, HasFile
<1>1. created \in Nat /\ created' \in Nat
  BY NextType DEF TypeOK
<1>2. ASSUME u > created
      PROVE  /\ mem[u] = NoEntry /\ db[u] = NoRow /\ durable[u] = NoRow
             /\ \A d \in Dirs : files[u][d] = <<>>
  BY <1>2 DEF OnlyCreated, HasFile
<1>3. ASSUME NEW i \in Dirs, NEW w \in Outcomes, CreateTask(i, w)
      PROVE  /\ mem'[u] = NoEntry /\ db'[u] = NoRow /\ durable'[u] = NoRow
             /\ \A d \in Dirs : files'[u][d] = <<>>
  <2>1. created' = created + 1 /\ durable' = durable
    BY <1>3 DEF CreateTask
  <2>2. u # created + 1 /\ u > created
    BY <1>1, <2>1 DEF Ids
  <2>3. mem'[u] = NoEntry
    BY <1>2, <1>3, <2>2 DEF CreateTask
  <2>4. db'[u] = NoRow
    BY <1>2, <1>3, <2>2 DEF CreateTask
  <2>5. ASSUME NEW d \in Dirs PROVE files'[u][d] = <<>>
    <3>1. files[u] \in [Dirs -> Seq(Nat)]
      BY DEF TypeOK
    <3>2. \/ files'[u] = [files[u] EXCEPT ![Global] = <<>>, ![mem[u].instance] = <<>>]
          \/ files'[u] = files[u]
      BY <1>3 DEF CreateTask, Unlinked
    <3>3. files[u][d] = <<>>
      BY <1>2, <2>2
    <3> QED BY <3>1, <3>2, <3>3
  <2> QED BY <1>2, <2>1, <2>2, <2>3, <2>4, <2>5
<1>4. ASSUME NEW t \in Ids, NEW w \in Outcomes, AppendLine(t, w)
      PROVE  /\ mem'[u] = NoEntry /\ db'[u] = NoRow /\ durable'[u] = NoRow
             /\ \A d \in Dirs : files'[u][d] = <<>>
  <2>1. created' = created /\ t # u
    BY <1>2, <1>4 DEF AppendLine, InMemory
  <2>2. files'[u] = files[u]
    BY <1>4, <2>1 DEF AppendLine, TypeOK
  <2>3. mem'[u] = mem[u] /\ db'[u] = db[u] /\ durable' = durable
    BY <1>4, <2>1 DEF AppendLine, UpdateRow, TypeOK
  <2> QED BY <1>2, <2>1, <2>2, <2>3
<1>5. ASSUME NEW t \in Ids, NEW st \in Terminal, NEW w \in Outcomes, CompleteTask(t, st, w)
      PROVE  /\ mem'[u] = NoEntry /\ db'[u] = NoRow /\ durable'[u] = NoRow
             /\ \A d \in Dirs : files'[u][d] = <<>>
  BY <1>2, <1>5 DEF CompleteTask, UpdateRow, InMemory, TypeOK
<1>6. ASSUME NEW t \in Ids, NEW i \in Instances, NEW w \in Outcomes, LinkInstance(t, i, w)
      PROVE  /\ mem'[u] = NoEntry /\ db'[u] = NoRow /\ durable'[u] = NoRow
             /\ \A d \in Dirs : files'[u][d] = <<>>
  BY <1>2, <1>6 DEF LinkInstance, UpdateRow, InMemory, TypeOK
<1>7. ASSUME NEW t \in Ids, NEW w \in Outcomes, Fetch(t, w), UNCHANGED <<db, durable, files, created>>
      PROVE  /\ mem'[u] = NoEntry /\ db'[u] = NoRow /\ durable'[u] = NoRow
             /\ \A d \in Dirs : files'[u][d] = <<>>
  BY <1>2, <1>7, FetchOnlyCreated
<1>8. ASSUME NEW base, \A t \in Ids : t > created => base[t] = NoRow, Restart(base)
      PROVE  /\ mem'[u] = NoEntry /\ db'[u] = NoRow /\ durable'[u] = NoRow
             /\ \A d \in Dirs : files'[u][d] = <<>>
  <2> DEFINE d == Interrupted(base)
             orphans == Orphans(d)
  <2>1. created' = created /\ durable' = durable /\ files' = files
    BY <1>8 DEF Restart
  <2>2. d[u] = NoRow /\ u \notin Selected(d) /\ u \notin orphans
    BY <1>2, <1>8, <2>1 DEF Interrupted, Orphans, Selected, Rows, HasFile
  <2>3. \E dir \in [orphans -> Dirs], unsaved \in SUBSET orphans : Hydrate(d, orphans, dir, unsaved)
    BY <1>8 DEF Restart
  <2> HIDE DEF d, orphans
  <2>4. mem'[u] = NoEntry /\ db'[u] = NoRow
    BY <2>2, <2>3 DEF Hydrate
  <2> QED BY <1>2, <2>1, <2>4
<1>9. CASE Reboot
  BY <1>8, <1>9 DEF Reboot, OnlyCreated
<1>10. CASE PowerLoss
  BY <1>8, <1>10 DEF PowerLoss, OnlyCreated
<1>11. ASSUME UNCHANGED <<mem, files, created>>,
              \/ UNCHANGED <<db, durable>>
              \/ UNCHANGED db /\ durable' = db
       PROVE  /\ mem'[u] = NoEntry /\ db'[u] = NoRow /\ durable'[u] = NoRow
              /\ \A d \in Dirs : files'[u][d] = <<>>
  BY <1>2, <1>11
<1>12. CASE UNCHANGED vars
  BY <1>11, <1>12 DEF vars
<1>13. CASE \E t \in Ids, w \in Outcomes : GetTask(t, w)
  BY <1>7, <1>13 DEF GetTask
<1>14. CASE \E s \in Subs, t \in Ids, w \in Outcomes : Subscribe(s, t, w)
  BY <1>7, <1>14 DEF Subscribe
<1>15. CASE (\E s \in Subs : Unsubscribe(s)) \/ Checkpoint
  BY <1>11, <1>15 DEF Unsubscribe, Checkpoint
<1> QED BY <1>3, <1>4, <1>5, <1>6, <1>9, <1>10, <1>12, <1>13, <1>14, <1>15 DEF Next

\* What LiveReader says of one reader.
Attached(s) ==
  /\ subs[s].task \in InMemory
  /\ mem[subs[s].task].status = "running"
  /\ mem[subs[s].task].loaded
  /\ subs[s].seen = mem[subs[s].task].lines

LEMMA LiveReaderStep == ReaderInv /\ [Next]_vars => LiveReader'
<1> SUFFICES ASSUME ReaderInv, [Next]_vars, NEW s \in Subs, subs'[s].state = "open"
             PROVE  Attached(s)'
  BY DEF LiveReader, Attached
<1>1. TypeOK /\ OnlyCreated /\ LiveReader
  BY DEF ReaderInv
<1>2. ASSUME subs[s].state = "open"
      PROVE  /\ Attached(s)
             /\ subs[s].task \in Ids
             /\ subs[s].task <= created
             /\ mem[subs[s].task] \in Entry
  BY <1>1, <1>2, OpenTask DEF LiveReader, Attached
<1>3. ASSUME NEW i \in Dirs, NEW w \in Outcomes, CreateTask(i, w) PROVE Attached(s)'
  <2> DEFINE o == Append(order, created + 1)
  <2>1. subs'[s] = IF subs[s].state = "open" /\ subs[s].task \in Victims(o)
                   THEN [subs[s] EXCEPT !.state = "stranded"] ELSE subs[s]
    BY <1>3 DEF CreateTask, Readers, Strand
  <2>2. subs[s] \in Reader
    BY <1>1 DEF TypeOK
  <2>3. subs[s].state = "open" /\ subs[s].task \notin Victims(o) /\ subs'[s] = subs[s]
    BY <2>1, <2>2 DEF Reader
  <2>4. subs[s].task # created + 1 /\ subs[s].task \in Ids
    BY <1>1, <1>2, <2>3 DEF TypeOK, Ids
  <2>5. mem'[subs[s].task] = mem[subs[s].task]
    BY <1>3, <2>3, <2>4 DEF CreateTask
  <2> QED BY <1>2, <2>3, <2>4, <2>5 DEF Attached, InMemory
<1>4. ASSUME NEW t \in Ids, NEW w \in Outcomes, AppendLine(t, w) PROVE Attached(s)'
  <2> DEFINE l == emitted[t] + 1
  <2>1. subs'[s] = IF subs[s].state = "open" /\ subs[s].task = t
                   THEN [subs[s] EXCEPT !.seen = Append(@, l)] ELSE subs[s]
    BY <1>4 DEF AppendLine, Readers
  <2>2. subs[s] \in Reader
    BY <1>1 DEF TypeOK
  <2>3. subs[s].state = "open" /\ subs'[s].task = subs[s].task
    BY <2>1, <2>2 DEF Reader
  <2>4. mem' = [mem EXCEPT ![t] = [mem[t] EXCEPT !.lines = Append(@, l), !.count = @ + 1]]
    BY <1>4 DEF AppendLine
  <2>5. CASE subs[s].task = t
    <3>1. mem'[t] = [mem[t] EXCEPT !.lines = Append(@, l), !.count = @ + 1]
      BY <1>1, <2>4 DEF TypeOK
    <3>2. mem[t] \in Entry
      BY <1>2, <2>3, <2>5
    <3>3. /\ mem'[t].lines = Append(mem[t].lines, l) /\ mem'[t] # NoEntry
          /\ mem'[t].status = mem[t].status /\ mem'[t].loaded = mem[t].loaded
      <4>1. mem'[t] \in Entry
        <5>1. mem[t].lines \in Seq(Nat) /\ mem[t].count \in Nat /\ l \in Nat
          BY <1>1, <3>2 DEF Entry, TypeOK
        <5>2. ASSUME NEW q \in Seq(Nat), NEW n \in Nat
              PROVE  [mem[t] EXCEPT !.lines = q, !.count = n] \in Entry
          BY <3>2 DEF Entry
        <5>3. Append(mem[t].lines, l) \in Seq(Nat) /\ mem[t].count + 1 \in Nat
          BY <5>1
        <5>4. [mem[t] EXCEPT !.lines = Append(mem[t].lines, l), !.count = mem[t].count + 1]
                \in Entry
          BY <5>2, <5>3, Zenon
        <5> QED BY <3>1, <5>4, Zenon
      <4>2. mem'[t] # NoEntry
        BY <4>1, Present
      <4> QED BY <3>1, <3>2, <4>2 DEF Entry
    <3>4. subs'[s].seen = Append(subs[s].seen, l)
      BY <2>1, <2>2, <2>3, <2>5 DEF Reader
    <3> QED BY <1>2, <2>3, <2>5, <3>3, <3>4 DEF Attached, InMemory
  <2>6. CASE subs[s].task # t
    <3>1. subs'[s] = subs[s] /\ mem'[subs[s].task] = mem[subs[s].task]
      BY <1>1, <2>1, <2>4, <2>6 DEF TypeOK
    <3> QED BY <1>2, <2>3, <3>1 DEF Attached, InMemory
  <2> QED BY <2>5, <2>6
<1>5. ASSUME NEW t \in Ids, NEW st \in Terminal, NEW w \in Outcomes, CompleteTask(t, st, w)
      PROVE  Attached(s)'
  <2>1. subs'[s] = IF subs[s].state = "open" /\ subs[s].task = t
                   THEN [subs[s] EXCEPT !.state = "closed"] ELSE subs[s]
    BY <1>5 DEF CompleteTask, Readers, Close
  <2>2. subs[s] \in Reader
    BY <1>1 DEF TypeOK
  <2>3. subs[s].state = "open" /\ subs[s].task # t /\ subs'[s] = subs[s]
    BY <2>1, <2>2 DEF Reader
  <2>4. mem'[subs[s].task] = mem[subs[s].task]
    BY <1>5, <2>3 DEF CompleteTask
  <2> QED BY <1>2, <2>3, <2>4 DEF Attached, InMemory
<1>6. ASSUME NEW t \in Ids, NEW i \in Instances, NEW w \in Outcomes, LinkInstance(t, i, w)
      PROVE  Attached(s)'
  <2>1. subs'[s] = subs[s] /\ subs[s].state = "open"
    BY <1>6 DEF LinkInstance
  <2>2. CASE subs[s].task = t
    <3>1. mem'[t] = [mem[t] EXCEPT !.instance = i] /\ mem[t] \in Entry /\ i \in Dirs
      BY <1>1, <1>2, <1>6, <2>1, <2>2 DEF LinkInstance, TypeOK, Dirs
    <3>2. mem'[t] \in Entry
      BY <3>1 DEF Entry
    <3>3. /\ mem'[t].lines = mem[t].lines /\ mem'[t].status = mem[t].status
          /\ mem'[t].loaded = mem[t].loaded
      BY <3>1 DEF Entry
    <3> QED BY <1>2, <2>1, <2>2, <3>2, <3>3, Present DEF Attached, InMemory
  <2>3. CASE subs[s].task # t
    <3>1. mem'[subs[s].task] = mem[subs[s].task]
      BY <1>6, <2>3 DEF LinkInstance
    <3> QED BY <1>2, <2>1, <3>1 DEF Attached, InMemory
  <2> QED BY <2>2, <2>3
\* Fetching changes no entry whose lines are loaded.
<1>7. ASSUME NEW t \in Ids, NEW w \in Outcomes, Fetch(t, w), subs'[s] = subs[s] PROVE Attached(s)'
  <2>1. subs[s].state = "open"
    BY <1>7
  <2>2. mem[subs[s].task] # NoEntry /\ mem[subs[s].task].loaded
    BY <1>2, <2>1 DEF Attached, InMemory
  <2>3. mem'[subs[s].task] = mem[subs[s].task]
    BY <1>1, <1>2, <1>7, <2>1, <2>2, FetchKeepsLoaded
  <2> QED BY <1>2, <1>7, <2>1, <2>3 DEF Attached, InMemory
<1>8. ASSUME NEW t \in Ids, NEW w \in Outcomes, GetTask(t, w) PROVE Attached(s)'
  BY <1>7, <1>8 DEF GetTask
<1>9. ASSUME NEW r \in Subs, NEW t \in Ids, NEW w \in Outcomes, Subscribe(r, t, w) PROVE Attached(s)'
  <2>1. CASE r # s
    BY <1>1, <1>7, <1>9, <2>1 DEF Subscribe, TypeOK
  <2>2. CASE r = s
    <3> DEFINE e == Fetched(t, w)
    <3>1. /\ e # NoEntry
          /\ e.status = "running"
          /\ subs'[s].task = t
          /\ subs'[s].seen = e.lines
      <4>1. subs'[s] = IF e = NoEntry THEN [task |-> t, seen |-> <<>>, state |-> "closed"]
                       ELSE [task |-> t, seen |-> e.lines,
                             state |-> IF e.status = "running" THEN "open" ELSE "closed"]
        BY <1>1, <1>9, <2>2 DEF Subscribe, TypeOK
      <4> HIDE DEF e
      <4> QED BY <4>1
    <3>2. mem'[t] = e
      BY <1>1, <1>9 DEF Subscribe, Fetch, TypeOK
    <3>3. e.loaded
      <4>1. e \in Entry
        BY <1>1, <3>1, FetchedType
      <4>2. ASSUME NEW f \in Entry PROVE WithLines(t, f, w).loaded
        BY <4>2 DEF WithLines, Entry
      <4>3. (mem[t] # NoEntry => mem[t] \in Entry) /\ (db[t] # NoRow => FromRow(db[t]) \in Entry)
        BY <1>1, FromRowType DEF TypeOK
      <4> QED BY <3>1, <4>2, <4>3 DEF Fetched
    <3> QED BY <3>1, <3>2, <3>3 DEF Attached, InMemory
  <2> QED BY <2>1, <2>2
<1>10. ASSUME NEW r \in Subs, Unsubscribe(r) PROVE Attached(s)'
  <2>1. CASE r = s
    BY <1>1, <1>10, <2>1 DEF Unsubscribe, TypeOK, Idle
  <2>2. CASE r # s
    BY <1>1, <1>2, <1>10, <2>2 DEF Unsubscribe, TypeOK, Attached, InMemory
  <2> QED BY <2>1, <2>2
<1>11. CASE Checkpoint
  BY <1>2, <1>11 DEF Checkpoint, Attached, InMemory
<1>12. CASE Reboot \/ PowerLoss
  <2>1. subs' = [r \in Subs |-> Idle]
    BY <1>12 DEF Reboot, PowerLoss, Restart
  <2> QED BY <2>1 DEF Idle
<1>13. CASE UNCHANGED vars
  BY <1>2, <1>13 DEF vars, Attached, InMemory
<1> QED BY <1>3, <1>4, <1>5, <1>6, <1>8, <1>9, <1>10, <1>11, <1>12, <1>13 DEF Next

\* subscribeToTask with appendLine and completeTask: at every moment a reader
\* that is attached has received all lines of its running task and no other,
\* whatever calls, failed writes, evictions and restarts came before.
THEOREM ReadersSeeEveryLine == Spec => []LiveReader
<1>1. Init => ReaderInv
  BY InitReader
<1>2. ReaderInv /\ [Next]_vars => ReaderInv'
  BY NextType, OnlyCreatedStep, LiveReaderStep DEF ReaderInv
<1>3. ReaderInv => LiveReader
  BY DEF ReaderInv
<1> QED BY <1>1, <1>2, <1>3, PTL DEF Spec

-----------------------------------------------------------------------------
(* A task starts its network workflow at most once.                        *)

\* A workflow was started only by a task that is over, in the map and in the
\* table: what a power loss or a restart brings back has ended too.
StartedByEnded(t) ==
  /\ launched[t] <= 1
  /\ t > created => launched[t] = 0
  /\ launched[t] # 0 => /\ mem[t] # NoEntry => mem[t].status # "running"
                        /\ db[t] # NoRow => db[t].status # "running"

LaunchInv == TypeOK /\ OnlyCreated /\ \A t \in Ids : StartedByEnded(t)

\* A step that starts nothing and reopens nothing.
LEMMA NothingReopened ==
  ASSUME TypeOK, TypeOK', NEW u \in Ids, StartedByEnded(u),
         created' = created, launched'[u] = launched[u],
         mem'[u] # NoEntry /\ mem'[u].status = "running" =>
           (mem[u] # NoEntry /\ mem[u].status = "running") \/ (db[u] # NoRow /\ db[u].status = "running"),
         db'[u] # NoRow /\ db'[u].status = "running" => db[u] # NoRow /\ db[u].status = "running"
  PROVE  StartedByEnded(u)'
<1>1. launched'[u] <= 1 /\ (u > created' => launched'[u] = 0)
  BY DEF StartedByEnded
<1>2. ASSUME launched'[u] # 0
      PROVE  /\ mem'[u] # NoEntry => mem'[u].status # "running"
             /\ db'[u] # NoRow => db'[u].status # "running"
  <2>1. /\ mem[u] # NoEntry => mem[u].status # "running"
        /\ db[u] # NoRow => db[u].status # "running"
    BY <1>2, Zenon DEF StartedByEnded
  <2> QED BY <2>1, Zenon
<1> QED BY <1>1, <1>2 DEF StartedByEnded

\* What a fetch brings to the map has the status of the entry or of the row.
LEMMA FetchedStatus ==
  ASSUME TypeOK, NEW t \in Ids, NEW w \in Outcomes, Fetched(t, w) # NoEntry
  PROVE  \/ mem[t] # NoEntry /\ Fetched(t, w).status = mem[t].status
         \/ db[t] # NoRow /\ Fetched(t, w).status = db[t].status
<1>1. ASSUME NEW e \in Entry PROVE WithLines(t, e, w).status = e.status
  BY <1>1 DEF WithLines, Entry
<1>2. CASE mem[t] # NoEntry
  BY <1>1, <1>2 DEF Fetched, TypeOK
<1>3. CASE mem[t] = NoEntry
  <2>1. db[t] \in Row /\ db[t] # NoRow /\ Fetched(t, w) = WithLines(t, FromRow(db[t]), w)
    BY <1>3 DEF Fetched, TypeOK
  <2>2. FromRow(db[t]) \in Entry /\ FromRow(db[t]).status = db[t].status
    BY <2>1, FromRowType DEF FromRow
  <2> QED BY <1>1, <2>1, <2>2
<1> QED BY <1>2, <1>3

LEMMA RestartEndsAll ==
  ASSUME TypeOK, TypeOK', NEW base \in [Ids -> Row \cup {NoRow}], Restart(base), NEW u \in Ids
  PROVE  /\ mem'[u] # NoEntry => mem'[u].status # "running"
         /\ db'[u] # NoRow => db'[u].status # "running"
         /\ HasFile(u) => mem'[u] # NoEntry
<1> DEFINE d == Interrupted(base)
           orphans == Orphans(d)
<1>1. d[u] \in Row \cup {NoRow} /\ (d[u] # NoRow => d[u].status # "running")
  <2>1. ASSUME NEW r \in Row
        PROVE  [r EXCEPT !.status = "error"] \in Row /\ [r EXCEPT !.status = "error"].status = "error"
    BY DEF Row, Statuses, Terminal
  <2> QED BY <2>1 DEF Interrupted
<1>2. u \in Selected(d) => d[u] # NoRow
  BY DEF Selected, Rows
<1>3. PICK dir \in [orphans -> Dirs], unsaved \in SUBSET orphans : Hydrate(d, orphans, dir, unsaved)
  BY DEF Restart
<1>4. HasFile(u) => u \in Selected(d) \/ u \in orphans
  BY DEF Orphans
<1>5. u \in orphans => Recovered(u, dir[u]) \in Row /\ Recovered(u, dir[u]).status = "error"
  <2>1. ASSUME u \in orphans PROVE dir[u] \in Dirs
    BY <2>1
  <2>2. ASSUME u \in orphans PROVE files[u][dir[u]] \in Seq(Nat)
    BY <2>1, <2>2 DEF TypeOK
  <2> QED BY <2>1, <2>2 DEF Recovered, Row, Statuses, Terminal
<1> HIDE DEF d, orphans
<1>6. /\ mem'[u] = IF u \in Selected(d) THEN FromRow(d[u])
                   ELSE IF u \in orphans THEN FromRow(Recovered(u, dir[u])) ELSE NoEntry
      /\ db'[u] = IF u \in orphans \ unsaved /\ d[u] = NoRow THEN Recovered(u, dir[u]) ELSE d[u]
  BY <1>3 DEF Hydrate
<1>7. ASSUME NEW r \in Row
      PROVE  FromRow(r) # NoEntry /\ FromRow(r).status = r.status
  BY FromRowType, Present DEF FromRow
<1>8. mem'[u] # NoEntry => mem'[u].status # "running"
  BY <1>1, <1>2, <1>5, <1>6, <1>7
<1>9. db'[u] # NoRow => db'[u].status # "running"
  BY <1>1, <1>5, <1>6
<1>10. HasFile(u) => mem'[u] # NoEntry
  BY <1>1, <1>2, <1>4, <1>5, <1>6, <1>7
<1> QED BY <1>8, <1>9, <1>10

LEMMA LaunchStep ==
  ASSUME Outcomes = {TRUE}, LaunchInv, [Next]_vars
  PROVE  LaunchInv'
<1>1. TypeOK /\ TypeOK' /\ OnlyCreated /\ OnlyCreated' /\ \A u \in Ids : StartedByEnded(u)
  BY NextType, OnlyCreatedStep DEF LaunchInv
<1> SUFFICES ASSUME NEW u \in Ids PROVE StartedByEnded(u)'
  BY <1>1 DEF LaunchInv
<1>2. ASSUME NEW i \in Dirs, NEW w \in Outcomes, CreateTask(i, w)
      PROVE  StartedByEnded(u)'
  <2>1. created \in Nat /\ u \in Nat /\ created' = created + 1 /\ launched' = launched
    BY <1>1, <1>2 DEF CreateTask, TypeOK, Ids
  <2>2. CASE u = created + 1
    BY <1>1, <2>1, <2>2 DEF StartedByEnded
  <2>3. CASE u # created + 1
    <3>1. mem'[u] = mem[u] \/ mem'[u] = NoEntry
      BY <1>2, <2>3 DEF CreateTask
    <3>2. db'[u] = db[u] \/ db'[u] = NoRow
      BY <1>2, <2>3 DEF CreateTask
    <3>3. u > created' => u > created
      BY <2>1
    <3>4. StartedByEnded(u)
      BY <1>1
    <3> QED BY <2>1, <3>1, <3>2, <3>3, <3>4, Zenon DEF StartedByEnded
  <2> QED BY <2>2, <2>3
<1>3. ASSUME NEW t \in Ids, NEW w \in Outcomes, AppendLine(t, w)
      PROVE  StartedByEnded(u)'
  <2>1. created' = created /\ launched' = launched
    BY <1>3 DEF AppendLine
  <2>2. mem[t] \in Entry /\ mem[t] # NoEntry
    BY <1>1, <1>3 DEF AppendLine, InMemory, TypeOK
  <2>3. mem'[u] = mem[u] \/ (u = t /\ mem'[u].status = mem[u].status)
    BY <1>1, <1>3, <2>2 DEF AppendLine, TypeOK, Entry
  <2>4. db'[u] = db[u] \/ (db[u] # NoRow /\ db'[u].status = db[u].status)
    <3>1. \E n : db'[u] = db[u] \/ (db[u] # NoRow /\ db'[u] = [db[u] EXCEPT !.count = n])
      BY <1>1, <1>3 DEF AppendLine, UpdateRow, TypeOK
    <3> QED BY <1>1, <3>1 DEF TypeOK, Row
  <2> QED BY <1>1, <2>1, <2>2, <2>3, <2>4, NothingReopened
<1>4. ASSUME NEW t \in Ids, NEW st \in Terminal, NEW w \in Outcomes, CompleteTask(t, st, w)
      PROVE  StartedByEnded(u)'
  <2>1. w = TRUE /\ st # "running" /\ created' = created
    BY <1>4 DEF Terminal, CompleteTask
  <2>2. CASE u # t
    <3>1. mem'[u] = mem[u] /\ db'[u] = db[u] /\ launched'[u] = launched[u]
      BY <1>1, <1>4, <2>2 DEF CompleteTask, UpdateRow, TypeOK
    <3> QED BY <1>1, <2>1, <3>1, NothingReopened
  <2>3. CASE u = t
    <3>1. mem'[u].status = st
      BY <1>1, <1>4, <2>3 DEF CompleteTask, InMemory, TypeOK, Entry
    <3>2. db'[u] # NoRow => db'[u].status = st
      <4>1. db'[u] = IF db[u] # NoRow THEN [db[u] EXCEPT !.status = st, !.count = mem[u].count]
                     ELSE db[u]
        BY <1>1, <1>4, <2>1, <2>3 DEF CompleteTask, UpdateRow, TypeOK
      <4> QED BY <1>1, <4>1 DEF TypeOK, Row
    <3>3. launched'[u] <= 1 /\ (u > created => launched'[u] = 0)
      <4>1. mem[u] # NoEntry /\ launched[u] \in Nat
        BY <1>1, <1>4, <2>3 DEF CompleteTask, InMemory, TypeOK
      <4>2. launched[u] <= 1 /\ (u > created => launched[u] = 0)
        BY <1>1 DEF StartedByEnded
      <4>3. CASE st # "completed"
        BY <1>4, <4>2, <4>3 DEF CompleteTask
      <4>4. CASE st = "completed"
        <5>1. mem[u].status = "running"
          BY <1>4, <2>3, <4>4 DEF CompleteTask, MayEnd
        <5>2. launched[u] = 0
          <6>1. StartedByEnded(u)
            BY <1>1
          <6> QED BY <4>1, <5>1, <6>1, Zenon DEF StartedByEnded
        <5>3. launched'[u] = 1
          BY <1>1, <1>4, <2>3, <4>4, <5>2 DEF CompleteTask, TypeOK
        <5>4. ~(u > created)
          BY <1>1, <4>1 DEF OnlyCreated
        <5> QED BY <5>3, <5>4
      <4> QED BY <4>3, <4>4
    <3> QED BY <2>1, <3>1, <3>2, <3>3 DEF StartedByEnded
  <2> QED BY <2>2, <2>3
<1>5. ASSUME NEW t \in Ids, NEW i \in Instances, NEW w \in Outcomes, LinkInstance(t, i, w)
      PROVE  StartedByEnded(u)'
  <2>1. created' = created /\ launched' = launched
    BY <1>5 DEF LinkInstance
  <2>2. mem'[u] = mem[u] \/ (mem[u] # NoEntry /\ mem'[u].status = mem[u].status)
    BY <1>1, <1>5 DEF LinkInstance, InMemory, TypeOK, Entry
  <2>3. db'[u] = db[u] \/ (db[u] # NoRow /\ db'[u].status = db[u].status)
    BY <1>1, <1>5 DEF LinkInstance, UpdateRow, TypeOK, Row
  <2> QED BY <1>1, <2>1, <2>2, <2>3, NothingReopened
<1>6. ASSUME NEW t \in Ids, NEW w \in Outcomes, Fetch(t, w), UNCHANGED <<db, created, launched>>
      PROVE  StartedByEnded(u)'
  <2>1. mem'[u] = mem[u] \/ (u = t /\ mem'[u] = Fetched(t, w))
    BY <1>1, <1>6 DEF Fetch, TypeOK
  <2> QED BY <1>1, <1>6, <2>1, FetchedStatus, NothingReopened
<1>7. ASSUME NEW base \in [Ids -> Row \cup {NoRow}], Restart(base)
      PROVE  StartedByEnded(u)'
  <2>1. created' = created /\ launched' = launched
    BY <1>7 DEF Restart
  <2> QED BY <1>1, <1>7, <2>1, RestartEndsAll DEF StartedByEnded
<1>8. CASE Reboot \/ PowerLoss
  BY <1>1, <1>7, <1>8 DEF Reboot, PowerLoss, TypeOK
<1>9. ASSUME UNCHANGED <<mem, db, created, launched>>
      PROVE  StartedByEnded(u)'
  BY <1>1, <1>9 DEF StartedByEnded
<1>10. CASE \/ \E t \in Ids, w \in Outcomes : GetTask(t, w)
          \/ \E s \in Subs, t \in Ids, w \in Outcomes : Subscribe(s, t, w)
  BY <1>6, <1>10 DEF GetTask, Subscribe
<1>11. CASE (\E s \in Subs : Unsubscribe(s)) \/ Checkpoint \/ UNCHANGED vars
  BY <1>9, <1>11 DEF Unsubscribe, Checkpoint, vars
<1> QED BY <1>2, <1>3, <1>4, <1>5, <1>8, <1>10, <1>11 DEF Next

\* completeTask: while writes succeed, the network workflow of a task starts at
\* most once, even when a power loss made the table forget that it had completed.
THEOREM WorkflowsLaunchOnce == Outcomes = {TRUE} => (Spec => []LaunchedAtMostOnce)
<1>1. Init => LaunchInv
  BY InitReader DEF ReaderInv, Init, LaunchInv, StartedByEnded
<1> SUFFICES ASSUME Outcomes = {TRUE} PROVE Spec => []LaunchedAtMostOnce
  OBVIOUS
<1>2. LaunchInv /\ [Next]_vars => LaunchInv'
  BY LaunchStep
<1>3. LaunchInv => LaunchedAtMostOnce
  BY DEF LaunchInv, StartedByEnded, LaunchedAtMostOnce
<1> QED BY <1>1, <1>2, <1>3, PTL DEF Spec

\* hydrateFromDb, the scan of the log directories: a restart, after a power loss
\* or not, finds every task that left a log, although any write may have failed:
\* that of the row of a task, of its link, or of a log recovered before.
THEOREM RestartsFindEveryLog == Spec => RestartFindsEveryLog
<1>1. TypeOK /\ TypeOK' /\ [Next]_vars =>
        [boots' # boots => \A t \in Ids : HasFile(t) => mem'[t] # NoEntry]_vars
  <2> SUFFICES ASSUME TypeOK, TypeOK', [Next]_vars, boots' # boots, NEW u \in Ids, HasFile(u)
               PROVE  mem'[u] # NoEntry
    OBVIOUS
  <2>1. Reboot \/ PowerLoss
    BY DEF Next, vars, CreateTask, AppendLine, CompleteTask, LinkInstance, GetTask, Subscribe,
           Unsubscribe, Checkpoint
  <2>2. db \in [Ids -> Row \cup {NoRow}] /\ durable \in [Ids -> Row \cup {NoRow}]
    BY DEF TypeOK
  <2> QED BY <2>1, <2>2, RestartEndsAll DEF Reboot, PowerLoss
<1> QED BY <1>1, TypeCorrect, PTL DEF Spec, RestartFindsEveryLog

-----------------------------------------------------------------------------
(* What a power loss can do to the life of a task.                         *)

\* The rows of a running task, saved or not, know of no end: what makes a restart
\* end it as an error and never as a success.
RowsKnowNoEnd(t) ==
  Life(t) = "running" => \A r \in {db[t], durable[t]} : r # NoRow => r.status = "running"

SurvivalInv == TypeOK /\ OnlyCreated /\ \A t \in Ids : RowsKnowNoEnd(t)

\* Task t goes on as TaskLifecycle says, and its rows still know of no end.
LivesOn(t) == Life(t)' \in Survival!Successors(Life(t)) /\ RowsKnowNoEnd(t)'

\* The life of a task is one of the statuses TaskLifecycle knows.
LEMMA LifeType ==
  ASSUME TypeOK, NEW t \in Ids
  PROVE  Life(t) \in Survival!Lives
BY DEF Life, TypeOK, Survival!Lives, Survival!Terminal, Entry, Row, Statuses, Terminal

\* A task whose life and rows stay the same lives on.
LEMMA SameLife ==
  ASSUME TypeOK, NEW t \in Ids, RowsKnowNoEnd(t), Life(t)' = Life(t),
         \A r \in {db'[t], durable'[t]} : r # NoRow =>
           \E r0 \in {db[t], durable[t]} : r0 # NoRow /\ r.status = r0.status
  PROVE  LivesOn(t)
<1>1. Life(t)' \in Survival!Successors(Life(t))
  BY LifeType DEF Survival!Lives, Survival!Terminal, Survival!Successors
<1>2. RowsKnowNoEnd(t)'
  BY DEF RowsKnowNoEnd
<1> QED BY <1>1, <1>2 DEF LivesOn

\* createTask starts one task and ends the lives of those it evicts.
LEMMA CreateLivesOn ==
  ASSUME Outcomes = {TRUE}, SurvivalInv, TypeOK', OnlyCreated',
         NEW i \in Dirs, NEW w \in Outcomes, CreateTask(i, w), NEW u \in Ids
  PROVE  LivesOn(u)
<1> DEFINE o == Append(order, created + 1)
           row == [instance |-> i, status |-> "running", count |-> 0, recovered |-> FALSE]
<1>1. /\ created \in Nat /\ u \in Nat /\ created' = created + 1 /\ durable' = durable
      /\ TypeOK /\ OnlyCreated /\ RowsKnowNoEnd(u)
  BY DEF CreateTask, SurvivalInv, TypeOK, Ids
<1>2. PICK kept \in SUBSET Victims(o) :
        /\ kept # {} => FALSE \in Outcomes
        /\ db' = [v \in Ids |-> IF v = created + 1 THEN (IF w THEN row ELSE NoRow)
                                ELSE IF v \in Victims(o) \ kept THEN NoRow ELSE db[v]]
  BY DEF CreateTask
<1>3. mem' = [v \in Ids |-> IF v = created + 1 THEN [FromRow(row) EXCEPT !.loaded = TRUE]
                            ELSE IF v \in Victims(o) THEN NoEntry ELSE mem[v]]
  BY DEF CreateTask
<1>4. kept = {} /\ w = TRUE
  BY <1>2
<1>5. row \in Row /\ row.status = "running"
  BY DEF Row, Statuses
<1>6. /\ [FromRow(row) EXCEPT !.loaded = TRUE] \in Entry
      /\ [FromRow(row) EXCEPT !.loaded = TRUE].status = "running"
  BY <1>5, FromRowType DEF Entry, FromRow
<1> HIDE DEF o, row
<1>7. CASE u = created + 1
  <2>1. Life(u) = "none" /\ durable'[u] = NoRow
    BY <1>1, <1>7 DEF Life, OnlyCreated
  <2>2. mem'[u] = [FromRow(row) EXCEPT !.loaded = TRUE] /\ db'[u] = row
    BY <1>2, <1>3, <1>4, <1>7
  <2>3. mem'[u] # NoEntry /\ mem'[u].status = "running" /\ ~(u > created')
    <3>1. ~(u > created')
      BY <1>1, <1>7
    <3> QED BY <1>6, <2>2, <3>1, Present, Zenon
  <2>4. Life(u)' = "running"
    BY <2>3 DEF Life
  <2> QED BY <2>1, <2>2, <2>4, <1>5 DEF LivesOn, RowsKnowNoEnd, Survival!Successors
<1>8. CASE u # created + 1 /\ u > created
  <2>1. Life(u) = "none" /\ Life(u)' = "none"
    BY <1>1, <1>8 DEF Life
  <2> QED BY <2>1 DEF LivesOn, RowsKnowNoEnd, Survival!Successors
<1>9. CASE u <= created /\ u \in Victims(o)
  <2>1. Life(u)' = "gone"
    <3>1. u # created + 1 /\ ~(u > created')
      BY <1>1, <1>9
    <3>2. mem'[u] = NoEntry /\ db'[u] = NoRow
      BY <1>2, <1>3, <1>4, <1>9, <3>1
    <3> QED BY <3>1, <3>2 DEF Life
  <2>2. Life(u) # "none"
    <3>1. ~(u > created)
      BY <1>1, <1>9
    <3>2. mem[u] \in Entry \cup {NoEntry} /\ db[u] \in Row \cup {NoRow}
      BY <1>1 DEF TypeOK
    <3> QED BY <3>1, <3>2 DEF Life, Entry, Row, Statuses, Terminal
  <2> QED BY <1>1, <2>1, <2>2, LifeType
          DEF LivesOn, RowsKnowNoEnd, Survival!Lives, Survival!Terminal, Survival!Successors
<1>10. CASE u <= created /\ u \notin Victims(o)
  <2>1. mem'[u] = mem[u] /\ db'[u] = db[u]
    BY <1>1, <1>2, <1>3, <1>10
  <2>2. Life(u)' = Life(u)
    BY <1>1, <1>10, <2>1 DEF Life
  <2> QED BY <1>1, <2>1, <2>2, SameLife
<1> QED BY <1>1, <1>7, <1>8, <1>9, <1>10

\* Lines, links and reads leave the life of every task as it is.
LEMMA OthersLiveOn ==
  ASSUME SurvivalInv, TypeOK', NEW u \in Ids,
         created' = created, durable' = durable,
         \/ mem'[u] = mem[u]
         \/ mem[u] # NoEntry /\ mem'[u] # NoEntry /\ mem'[u].status = mem[u].status
         \/ mem[u] = NoEntry /\ db[u] # NoRow /\ mem'[u] # NoEntry /\ mem'[u].status = db[u].status,
         db'[u] = db[u] \/ (db[u] # NoRow /\ db'[u] # NoRow /\ db'[u].status = db[u].status)
  PROVE  LivesOn(u)
<1>1. Life(u)' = Life(u)
  <2>1. CASE mem'[u] = mem[u]
    BY <2>1 DEF Life
  <2>2. CASE mem[u] # NoEntry /\ mem'[u] # NoEntry /\ mem'[u].status = mem[u].status
    BY <2>2 DEF Life
  <2>3. CASE mem[u] = NoEntry /\ db[u] # NoRow /\ mem'[u] # NoEntry /\ mem'[u].status = db[u].status
    BY <2>3 DEF Life
  <2> QED BY <2>1, <2>2, <2>3
<1>2. TypeOK /\ RowsKnowNoEnd(u)
  BY DEF SurvivalInv
<1>3. \A r \in {db'[u], durable'[u]} : r # NoRow =>
        \E r0 \in {db[u], durable[u]} : r0 # NoRow /\ r.status = r0.status
  OBVIOUS
<1> QED BY <1>1, <1>2, <1>3, SameLife

\* completeTask ends a running task and may revise an abort.
LEMMA CompleteLivesOn ==
  ASSUME SurvivalInv, TypeOK', NEW t \in Ids, NEW st \in Terminal, NEW w \in Outcomes,
         CompleteTask(t, st, w), NEW u \in Ids
  PROVE  LivesOn(u)
<1>1. TypeOK /\ OnlyCreated /\ created' = created /\ durable' = durable
  BY DEF CompleteTask, SurvivalInv
<1>2. CASE u # t
  <2>1. mem'[u] = mem[u] /\ db'[u] = db[u]
    BY <1>1, <1>2 DEF CompleteTask, UpdateRow, TypeOK
  <2> QED BY <1>1, <2>1, OthersLiveOn
<1>3. CASE u = t
  <2>1. mem[u] # NoEntry /\ mem[u] \in Entry /\ created \in Nat /\ u \in Nat
    BY <1>1, <1>3 DEF CompleteTask, InMemory, TypeOK, Ids
  <2>2. ~(u > created)
    BY <1>1, <2>1 DEF OnlyCreated
  <2>3. mem'[u] # NoEntry /\ mem'[u].status = st
    <3>1. mem'[u] = [mem[u] EXCEPT !.status = st]
      BY <1>1, <1>3 DEF CompleteTask, TypeOK
    <3>2. [mem[u] EXCEPT !.status = st] \in Entry /\ [mem[u] EXCEPT !.status = st].status = st
      BY <2>1 DEF Entry, Statuses
    <3> QED BY <3>1, <3>2, Present
  <2>4. Life(u) = mem[u].status /\ Life(u)' = st
    BY <1>1, <2>1, <2>2, <2>3 DEF Life
  <2>5. MayEnd(mem[u].status, st)
    BY <1>3 DEF CompleteTask
  <2> QED BY <2>4, <2>5 DEF LivesOn, RowsKnowNoEnd, MayEnd, Survival!Successors, Survival!Terminal, Terminal
<1> QED BY <1>2, <1>3

\* Whatever the process does between two restarts, TaskLifecycle holds.
LEMMA ServedStep ==
  ASSUME Outcomes = {TRUE}, SurvivalInv, [Next]_vars, TypeOK', OnlyCreated',
         ~Reboot, ~PowerLoss, NEW u \in Ids
  PROVE  LivesOn(u) /\ boots' = boots
<1>1. TypeOK
  BY DEF SurvivalInv
<1>2. ASSUME NEW i \in Dirs, NEW w \in Outcomes, CreateTask(i, w)
      PROVE  LivesOn(u) /\ boots' = boots
  BY <1>2, CreateLivesOn DEF CreateTask
<1>3. ASSUME NEW t \in Ids, NEW w \in Outcomes, AppendLine(t, w)
      PROVE  LivesOn(u) /\ boots' = boots
  <2>1. created' = created /\ durable' = durable /\ boots' = boots
    BY <1>3 DEF AppendLine
  <2>2. mem'[u] = mem[u] \/ (mem[u] # NoEntry /\ mem'[u] # NoEntry /\ mem'[u].status = mem[u].status)
    <3>1. CASE u # t
      BY <1>3, <3>1 DEF AppendLine
    <3>2. CASE u = t
      <4>1. /\ mem[u] \in Entry /\ mem[u] # NoEntry
            /\ mem'[u] = [mem[u] EXCEPT !.lines = Append(@, emitted[u] + 1), !.count = @ + 1]
        BY <1>1, <1>3, <3>2 DEF AppendLine, InMemory, TypeOK
      <4>2. mem'[u] \in Entry \cup {NoEntry}
        BY DEF TypeOK
      <4>3. mem'[u].status = mem[u].status /\ mem'[u].instance = mem[u].instance
        BY <4>1 DEF Entry
      <4>4. mem'[u] # NoEntry
        <5>1. "status" \in DOMAIN mem'[u]
          BY <4>1 DEF Entry
        <5> QED BY <5>1 DEF NoEntry
      <4> QED BY <4>1, <4>3, <4>4
    <3> QED BY <3>1, <3>2
  <2>3. db'[u] = db[u] \/ (db[u] # NoRow /\ db'[u] # NoRow /\ db'[u].status = db[u].status)
    <3>1. \E n : db'[u] = db[u] \/ (db[u] # NoRow /\ db'[u] = [db[u] EXCEPT !.count = n])
      BY <1>1, <1>3 DEF AppendLine, UpdateRow, TypeOK
    <3>2. PICK n : db'[u] = db[u] \/ (db[u] # NoRow /\ db'[u] = [db[u] EXCEPT !.count = n])
      BY <3>1
    <3>3. ASSUME NEW r \in Row
          PROVE  [r EXCEPT !.count = n].status = r.status /\ "status" \in DOMAIN [r EXCEPT !.count = n]
      BY DEF Row
    <3>4. "status" \notin DOMAIN NoRow
      BY DEF NoRow
    <3>5. db[u] # NoRow => db[u] \in Row
      BY <1>1 DEF TypeOK
    <3> QED BY <3>2, <3>3, <3>4, <3>5
  <2> QED BY <2>1, <2>2, <2>3, OthersLiveOn
<1>4. ASSUME NEW t \in Ids, NEW st \in Terminal, NEW w \in Outcomes, CompleteTask(t, st, w)
      PROVE  LivesOn(u) /\ boots' = boots
  BY <1>4, CompleteLivesOn DEF CompleteTask
<1>5. ASSUME NEW t \in Ids, NEW i \in Instances, NEW w \in Outcomes, LinkInstance(t, i, w)
      PROVE  LivesOn(u) /\ boots' = boots
  <2>1. created' = created /\ durable' = durable /\ boots' = boots /\ i \in Dirs
    BY <1>5 DEF LinkInstance, Dirs
  <2>2. mem'[u] = mem[u] \/ (mem[u] # NoEntry /\ mem'[u] # NoEntry /\ mem'[u].status = mem[u].status)
    <3>1. ASSUME NEW e \in Entry
          PROVE  [e EXCEPT !.instance = i] \in Entry /\ [e EXCEPT !.instance = i].status = e.status
      BY <2>1 DEF Entry
    <3> QED BY <1>1, <1>5, <3>1, Present DEF LinkInstance, InMemory, TypeOK
  <2>3. db'[u] = db[u] \/ (db[u] # NoRow /\ db'[u] # NoRow /\ db'[u].status = db[u].status)
    <3>1. ASSUME NEW r \in Row
          PROVE  [r EXCEPT !.instance = i] \in Row /\ [r EXCEPT !.instance = i].status = r.status
      BY <2>1 DEF Row
    <3> QED BY <1>1, <1>5, <3>1, Present DEF LinkInstance, UpdateRow, TypeOK
  <2> QED BY <2>1, <2>2, <2>3, OthersLiveOn
<1>6. ASSUME NEW t \in Ids, NEW w \in Outcomes, Fetch(t, w), UNCHANGED <<db, durable, created, boots>>
      PROVE  LivesOn(u) /\ boots' = boots
  <2>1. mem'[u] = mem[u] \/ (u = t /\ mem'[u] = Fetched(t, w) /\ Fetched(t, w) # NoEntry)
    <3>1. mem' = [mem EXCEPT ![t] = Fetched(t, w)] /\ mem \in [Ids -> Entry \cup {NoEntry}]
      BY <1>1, <1>6 DEF Fetch, TypeOK
    <3>2. ASSUME mem[t] # NoEntry PROVE Fetched(t, w) # NoEntry
      <4>1. WithLines(t, mem[t], w) \in Entry
        BY <1>1, <3>1, <3>2, WithLinesType
      <4> QED BY <3>2, <4>1, Present DEF Fetched
    <3> QED BY <3>1, <3>2
  <2>2. ASSUME NEW e \in Entry PROVE WithLines(u, e, w).status = e.status
    BY <2>2 DEF WithLines, Entry
  <2>3. CASE mem'[u] = mem[u]
    BY <1>6, <2>3, OthersLiveOn
  <2>4. CASE mem'[u] = Fetched(u, w) /\ Fetched(u, w) # NoEntry /\ mem[u] # NoEntry
    <3>1. mem'[u].status = mem[u].status
      BY <1>1, <2>2, <2>4 DEF Fetched, TypeOK
    <3> QED BY <1>6, <2>4, <3>1, OthersLiveOn
  <2>5. CASE mem'[u] = Fetched(u, w) /\ Fetched(u, w) # NoEntry /\ mem[u] = NoEntry
    <3>1. db[u] # NoRow /\ db[u] \in Row /\ mem'[u] = WithLines(u, FromRow(db[u]), w)
      BY <1>1, <2>5 DEF Fetched, TypeOK
    <3>2. FromRow(db[u]) \in Entry /\ FromRow(db[u]).status = db[u].status
      BY <3>1, FromRowType DEF FromRow
    <3> QED BY <1>6, <2>2, <2>5, <3>1, <3>2, OthersLiveOn
  <2> QED BY <2>1, <2>3, <2>4, <2>5
<1>7. ASSUME UNCHANGED <<mem, db, created, boots>>, durable' \in {db, durable}
      PROVE  LivesOn(u) /\ boots' = boots
  <2>1. Life(u)' = Life(u)
    BY <1>7 DEF Life
  <2>2. RowsKnowNoEnd(u)
    BY DEF SurvivalInv
  <2> QED BY <1>1, <1>7, <2>1, <2>2, SameLife
<1>8. CASE \/ \E t \in Ids, w \in Outcomes : GetTask(t, w)
          \/ \E s \in Subs, t \in Ids, w \in Outcomes : Subscribe(s, t, w)
  BY <1>6, <1>8 DEF GetTask, Subscribe
<1>9. CASE (\E s \in Subs : Unsubscribe(s)) \/ Checkpoint \/ UNCHANGED vars
  BY <1>7, <1>9 DEF Unsubscribe, Checkpoint, vars
<1> QED BY <1>2, <1>3, <1>4, <1>5, <1>8, <1>9 DEF Next

\* A restart on the rows it finds ends what was running, as an error.
LEMMA RestartedLife ==
  ASSUME SurvivalInv, TypeOK', OnlyCreated', NEW base \in {db, durable}, Restart(base), NEW u \in Ids
  PROVE  /\ Life(u)' \in Survival!AfterRestart(Life(u))
         /\ RowsKnowNoEnd(u)'
         /\ boots' = boots + 1
<1>1. /\ TypeOK /\ OnlyCreated /\ RowsKnowNoEnd(u) /\ base \in [Ids -> Row \cup {NoRow}]
      /\ created' = created /\ boots' = boots + 1
  BY DEF SurvivalInv, TypeOK, Restart
<1>2. /\ mem'[u] # NoEntry => mem'[u].status # "running"
      /\ db'[u] # NoRow => db'[u].status # "running"
  BY <1>1, RestartEndsAll
<1>3. Life(u)' \in Survival!Lives /\ Life(u)' # "running"
  <2>1. Life(u)' \in Survival!Lives
    BY DEF Life, TypeOK, Survival!Lives, Survival!Terminal, Entry, Row, Statuses, Terminal
  <2>2. Life(u)' # "running"
    BY <1>2 DEF Life
  <2> QED BY <2>1, <2>2
<1>4. u > created => Life(u) = "none" /\ Life(u)' = "none"
  BY <1>1 DEF Life
<1>5. ~(u > created) => Life(u) # "none" /\ Life(u)' # "none"
  BY <1>1 DEF Life, TypeOK, Entry, Row, Statuses, Terminal
<1>6. CASE Life(u) = "running"
  <2> DEFINE d == Interrupted(base)
             orphans == Orphans(d)
  <2>1. base[u] # NoRow => base[u].status = "running"
    BY <1>1, <1>6 DEF RowsKnowNoEnd
  <2>2. d[u] \in Row \cup {NoRow} /\ (d[u] # NoRow => d[u].status = "error")
    <3>1. ASSUME NEW r \in Row
          PROVE  [r EXCEPT !.status = "error"] \in Row /\ [r EXCEPT !.status = "error"].status = "error"
      BY DEF Row, Statuses, Terminal
    <3> QED BY <1>1, <2>1, <3>1 DEF Interrupted
  <2>3. u \in Selected(d) => d[u] # NoRow
    BY DEF Selected, Rows
  <2>4. PICK dir \in [orphans -> Dirs], unsaved \in SUBSET orphans : Hydrate(d, orphans, dir, unsaved)
    BY DEF Restart
  <2> HIDE DEF d, orphans
  <2>5. /\ mem'[u] = IF u \in Selected(d) THEN FromRow(d[u])
                     ELSE IF u \in orphans THEN FromRow(Recovered(u, dir[u])) ELSE NoEntry
        /\ db'[u] = IF u \in orphans \ unsaved /\ d[u] = NoRow THEN Recovered(u, dir[u]) ELSE d[u]
    BY <2>4 DEF Hydrate
  <2>6. mem'[u] # NoEntry => mem'[u].status = "error"
    BY <2>2, <2>3, <2>5 DEF FromRow, Recovered
  <2>7. db'[u] # NoRow => db'[u].status = "error"
    BY <2>2, <2>5 DEF Recovered
  <2>8. Life(u)' \in {"error", "gone"}
    BY <1>4, <1>6, <2>6, <2>7, <1>1 DEF Life
  <2> QED BY <1>1, <1>3, <1>6, <2>8 DEF Survival!AfterRestart, RowsKnowNoEnd
<1>7. CASE Life(u) # "running"
  BY <1>1, <1>3, <1>4, <1>5, <1>7
  DEF Survival!AfterRestart, Survival!Lives, Survival!Terminal, RowsKnowNoEnd
<1> QED BY <1>6, <1>7

\* hydrateFromDb after a power loss, while writes succeed and however often a task
\* is linked: a restart ends every task that was running as an error, brings none
\* back to life, and changes no other task but among the ways it may have ended.
\* Between two restarts the store keeps the promise of TaskLifecycle.
THEOREM TasksSurvivePowerLoss == Outcomes = {TRUE} => (Spec => SurvivesPowerLoss)
<1> SUFFICES ASSUME Outcomes = {TRUE} PROVE Spec => SurvivesPowerLoss
  OBVIOUS
<1>1. Init => SurvivalInv
  BY InitReader, ConstantsAssumption DEF Init, ReaderInv, SurvivalInv, RowsKnowNoEnd
<1>2. ASSUME SurvivalInv, [Next]_vars
      PROVE  SurvivalInv' /\ [Survival!Served \/ Survival!Restart]_<<[t \in Ids |-> Life(t)], boots>>
  <2>1. TypeOK /\ TypeOK' /\ OnlyCreated'
    BY <1>2, NextType, OnlyCreatedStep DEF SurvivalInv
  <2>2. \A u \in Ids : Life(u)' \in Survival!Lives
    BY <2>1 DEF Life, TypeOK, Survival!Lives, Survival!Terminal, Entry, Row, Statuses, Terminal
  <2>3. ASSUME ~Reboot, ~PowerLoss
        PROVE  SurvivalInv' /\ [Survival!Served]_<<[t \in Ids |-> Life(t)], boots>>
    <3>1. \A u \in Ids : LivesOn(u)
      BY <1>2, <2>1, <2>3, ServedStep
    <3>2. boots' = boots
      BY <1>2, <2>3 DEF Next, vars, CreateTask, AppendLine, CompleteTask, LinkInstance, GetTask,
             Subscribe, Unsubscribe, Checkpoint
    <3>3. SurvivalInv'
      BY <2>1, <3>1 DEF SurvivalInv, LivesOn
    <3>4. [t \in Ids |-> Life(t)]' \in [Ids -> Survival!Lives]
      BY <2>2
    <3> QED BY <3>1, <3>2, <3>3, <3>4 DEF LivesOn, Survival!Served, Survival!Next
  <2>4. ASSUME NEW base \in {db, durable}, Restart(base)
        PROVE  SurvivalInv' /\ Survival!Restart
    <3>1. \A u \in Ids : Life(u)' \in Survival!AfterRestart(Life(u)) /\ RowsKnowNoEnd(u)'
      BY <1>2, <2>1, <2>4, RestartedLife
    <3>2. boots' = boots + 1
      BY <2>4 DEF Restart
    <3>3. [t \in Ids |-> Life(t)]' \in [Ids -> Survival!Lives]
      BY <2>2
    <3> QED BY <2>1, <3>1, <3>2, <3>3 DEF SurvivalInv, Survival!Restart
  <2> QED BY <2>3, <2>4 DEF Reboot, PowerLoss
<1>3. Init => Survival!Init /\ boots = 0
  BY ConstantsAssumption DEF Init, Survival!Init, Life, Ids
<1> QED BY <1>1, <1>2, <1>3, PTL DEF Spec, SurvivesPowerLoss, Survival!Survives

-----------------------------------------------------------------------------
(* The eviction order.  RetainsNewest, which TLC checks and                *)
(* GoadTaskStore_retained_proofs proves, needs writes that succeed.  What  *)
(* the eviction itself relies on holds also when writes fail and power is  *)
(* lost: the order lists the tasks in memory, each of them once.           *)

\* Sequence q lists the elements of S, each once.
Lists(q, S) ==
  /\ S = {q[k] : k \in 1..Len(q)}
  /\ \A j, k \in 1..Len(q) : j # k => q[j] # q[k]

\* taskOrder and taskMap hold the same tasks.
OrderListsMemory == Lists(order, InMemory)

\* createTask leaves at most MAX_TASKS tasks in memory.
CreationBoundsMemory == [][created' # created => Cardinality(InMemory') <= MaxTasks]_vars

OrderInv == TypeOK /\ OnlyCreated /\ OrderListsMemory

\* A new element goes at the end of the list.
LEMMA ListsAppend ==
  ASSUME NEW q \in Seq(Ids), NEW S \in SUBSET Ids, Lists(q, S), NEW t \in Ids, t \notin S
  PROVE  Lists(Append(q, t), S \cup {t})
<1> DEFINE n == Len(q)
           r == Append(q, t)
<1>1. n \in Nat /\ Len(r) = n + 1 /\ r[n + 1] = t /\ \A k \in 1..n : r[k] = q[k]
  BY AppendProperties
<1>2. S = {q[k] : k \in 1..n} /\ \A j, k \in 1..n : j # k => q[j] # q[k]
  BY DEF Lists
<1> HIDE DEF n, r
<1>3. \A k \in 1..(n + 1) : k \in 1..n \/ k = n + 1
  BY <1>1
<1>4. 1..n \subseteq 1..(n + 1) /\ n + 1 \in 1..(n + 1)
  BY <1>1
<1>5. S \cup {t} = {r[k] : k \in 1..(n + 1)}
  BY <1>1, <1>2, <1>3, <1>4
<1>6. \A j, k \in 1..(n + 1) : j # k => r[j] # r[k]
  BY <1>1, <1>2, <1>3
<1> QED BY <1>1, <1>5, <1>6 DEF Lists, r

\* What an eviction keeps of a list are the elements it did not delete, at most
\* MaxTasks of them.
LEMMA ListsKept ==
  ASSUME NEW o \in Seq(Ids), NEW S \in SUBSET Ids, Lists(o, S)
  PROVE  Lists(Kept(o), S \ Victims(o)) /\ Len(Kept(o)) <= MaxTasks
<1> DEFINE n == Len(o)
           m == n - MaxTasks
           r == Kept(o)
<1>1. n \in Nat /\ MaxTasks \in Nat /\ MaxTasks > 0
  BY ConstantsAssumption
<1>2. S = {o[k] : k \in 1..n} /\ \A j, k \in 1..n : j # k => o[j] # o[k]
  BY DEF Lists
<1>3. CASE n > MaxTasks
  <2>1. m \in 1..n /\ m + 1 \in 1..n /\ r = SubSeq(o, m + 1, n)
    BY <1>1, <1>3 DEF Kept
  <2>2. Len(r) = MaxTasks /\ \A k \in 1..MaxTasks : r[k] = o[m + k]
    BY <1>1, <1>3, <2>1, SubSeqProperties
  <2>3. Victims(o) = {o[k] : k \in 1..m}
    BY DEF Victims
  <2> HIDE DEF m, r
  <2>4. /\ \A k \in 1..MaxTasks : m + k \in 1..n /\ m + k \notin 1..m
        /\ \A k \in 1..n : k \notin 1..m => k - m \in 1..MaxTasks /\ m + (k - m) = k
        /\ 1..m \subseteq 1..n
    BY <1>1, <1>3 DEF m
  <2>5. ASSUME NEW x \in S \ Victims(o)
        PROVE  x \in {r[k] : k \in 1..MaxTasks}
    <3>1. PICK k \in 1..n : x = o[k]
      BY <1>2
    <3>2. k \notin 1..m
      BY <2>3, <3>1
    <3>3. k - m \in 1..MaxTasks /\ r[k - m] = x
      BY <2>2, <2>4, <3>1, <3>2
    <3> QED BY <3>3
  <2>6. ASSUME NEW k \in 1..MaxTasks
        PROVE  r[k] \in S \ Victims(o)
    <3>1. m + k \in 1..n /\ m + k \notin 1..m /\ r[k] = o[m + k]
      BY <2>2, <2>4
    <3>2. \A j \in 1..m : o[j] # o[m + k]
      BY <1>2, <2>4, <3>1
    <3> QED BY <1>2, <2>3, <3>1, <3>2
  <2>7. S \ Victims(o) = {r[k] : k \in 1..MaxTasks}
    BY <2>5, <2>6
  <2>8. ASSUME NEW j \in 1..MaxTasks, NEW k \in 1..MaxTasks, j # k
        PROVE  r[j] # r[k]
    <3>1. m + j # m + k
      BY <2>1, <2>8
    <3> QED BY <1>2, <2>2, <2>4, <3>1
  <2> QED BY <1>1, <2>2, <2>7, <2>8 DEF Lists, r
<1>4. CASE ~(n > MaxTasks)
  <2>1. r = o /\ Victims(o) = {}
    BY <1>1, <1>4 DEF Kept, Victims
  <2> QED BY <1>1, <1>4, <2>1
<1> QED BY <1>3, <1>4

\* Two lists without a common element, one after the other.
LEMMA ListsConcat ==
  ASSUME NEW p \in Seq(Ids), NEW q \in Seq(Ids), NEW S \in SUBSET Ids, NEW T \in SUBSET Ids,
         Lists(p, S), Lists(q, T), S \cap T = {}
  PROVE  Lists(p \o q, S \cup T)
<1> DEFINE a == Len(p)
           b == Len(q)
           r == p \o q
<1>1. /\ a \in Nat /\ b \in Nat /\ Len(r) = a + b
      /\ \A k \in 1..(a + b) : r[k] = IF k <= a THEN p[k] ELSE q[k - a]
  BY ConcatProperties
<1>2. S = {p[k] : k \in 1..a} /\ \A j, k \in 1..a : j # k => p[j] # p[k]
  BY DEF Lists
<1>3. T = {q[k] : k \in 1..b} /\ \A j, k \in 1..b : j # k => q[j] # q[k]
  BY DEF Lists
<1> HIDE DEF a, b, r
<1>4. /\ \A k \in 1..a : k \in 1..(a + b) /\ r[k] = p[k]
      /\ \A k \in 1..b : a + k \in 1..(a + b) /\ r[a + k] = q[k]
  BY <1>1
<1>5. \A k \in 1..(a + b) : \/ k \in 1..a /\ r[k] = p[k]
                            \/ k - a \in 1..b /\ r[k] = q[k - a]
  BY <1>1
<1>6. S \cup T = {r[k] : k \in 1..(a + b)}
  BY <1>2, <1>3, <1>4, <1>5
<1>7. ASSUME NEW j \in 1..(a + b), NEW k \in 1..(a + b), j # k
      PROVE  r[j] # r[k]
  <2>1. CASE j \in 1..a /\ r[j] = p[j] /\ k \in 1..a /\ r[k] = p[k]
    BY <1>2, <1>7, <2>1
  <2>2. CASE j - a \in 1..b /\ r[j] = q[j - a] /\ k - a \in 1..b /\ r[k] = q[k - a]
    <3>1. j - a # k - a
      BY <1>1, <1>7
    <3> QED BY <1>3, <2>2, <3>1
  <2>3. CASE j \in 1..a /\ r[j] = p[j] /\ k - a \in 1..b /\ r[k] = q[k - a]
    <3>1. r[j] \in S /\ r[k] \in T
      BY <1>2, <1>3, <2>3
    <3> QED BY <3>1
  <2>4. CASE j - a \in 1..b /\ r[j] = q[j - a] /\ k \in 1..a /\ r[k] = p[k]
    <3>1. r[j] \in T /\ r[k] \in S
      BY <1>2, <1>3, <2>4
    <3> QED BY <3>1
  <2> QED BY <1>5, <2>1, <2>2, <2>3, <2>4
<1> QED BY <1>1, <1>6, <1>7 DEF Lists, r

\* An injective sequence as long as a set is large lists the whole set.
LEMMA ListingsList ==
  ASSUME NEW S \in SUBSET Ids, NEW q \in Listings(S)
  PROVE  Lists(q, S)
<1> DEFINE n == Cardinality(S)
<1>1. n \in Nat
  BY IdsFinite
<1>2. q \in [1..n -> S] /\ \A j, k \in 1..n : j # k => q[j] # q[k]
  BY DEF Listings
<1>3. Len(q) = n
  BY <1>1, <1>2
<1>4. IsFiniteSet(S)
  <2>1. IsFiniteSet(Ids)
    BY FS_Interval, ConstantsAssumption DEF Ids
  <2> QED BY <2>1, FS_Subset
<1>5. Cardinality(1..n) = n
  BY <1>1, FS_Interval
<1>6. q \in Injection(1..n, S)
  BY <1>2 DEF Injection, IsInjective
<1>7. q \in Surjection(1..n, S)
  BY <1>4, <1>5, <1>6, FS_Injection
<1>8. \A x \in S : \E k \in 1..n : q[k] = x
  BY <1>7 DEF Surjection
<1>9. S = {q[k] : k \in 1..n}
  BY <1>2, <1>8
<1> QED BY <1>2, <1>3, <1>9 DEF Lists

\* A list is as long as its set is large.
LEMMA ListsBound ==
  ASSUME NEW q \in Seq(Ids), NEW S, Lists(q, S)
  PROVE  Cardinality(S) <= Len(q)
<1>1. q \in Surjection(1..Len(q), S)
  <2>1. q \in [1..Len(q) -> Ids]
    OBVIOUS
  <2>2. S = {q[k] : k \in 1..Len(q)}
    BY DEF Lists
  <2>3. q \in [1..Len(q) -> S]
    BY <2>1, <2>2
  <2>4. \A x \in S : \E k \in 1..Len(q) : q[k] = x
    BY <2>2
  <2> QED BY <2>3, <2>4 DEF Surjection
<1>2. IsFiniteSet(1..Len(q)) /\ Cardinality(1..Len(q)) = Len(q)
  <2>1. Len(q) \in Nat
    OBVIOUS
  <2> QED BY <2>1, FS_Interval
<1> QED BY <1>1, <1>2, FS_Surjection

\* createTask appends the id it made and evicts from the front.
LEMMA CreateTaskListed ==
  ASSUME OrderInv, NEW i \in Dirs, NEW w \in Outcomes, CreateTask(i, w)
  PROVE  OrderListsMemory' /\ Len(order') <= MaxTasks
<1> DEFINE t == created + 1
           o == Append(order, t)
<1>1. t \in Ids /\ t > created
  BY ConstantsAssumption DEF CreateTask, OrderInv, TypeOK, Ids
<1>2. t \notin InMemory /\ InMemory \in SUBSET Ids
  BY <1>1 DEF OrderInv, OnlyCreated, InMemory
<1>3. o \in Seq(Ids) /\ Lists(o, InMemory \cup {t})
  <2>1. order \in Seq(Ids) /\ Lists(order, InMemory)
    BY DEF OrderInv, TypeOK, OrderListsMemory
  <2> HIDE DEF t
  <2>2. Append(order, t) \in Seq(Ids)
    BY <1>1, <2>1
  <2>3. Lists(Append(order, t), InMemory \cup {t})
    BY <1>1, <1>2, <2>1, ListsAppend
  <2> QED BY <2>2, <2>3
<1>4. order' = Kept(o)
  BY DEF CreateTask
<1>5. Lists(Kept(o), (InMemory \cup {t}) \ Victims(o)) /\ Len(Kept(o)) <= MaxTasks
  BY <1>1, <1>2, <1>3, ListsKept
\* The new task is the last of the order, and MaxTasks is positive.
<1>6. t \notin Victims(o)
  <2>1. Len(o) = Len(order) + 1 /\ o[Len(order) + 1] = t /\ Len(order) \in Nat
    BY <1>1, AppendProperties DEF OrderInv, TypeOK
  <2>2. \A k \in 1..(Len(o) - MaxTasks) : k \in 1..Len(o) /\ Len(o) \in 1..Len(o) /\ k # Len(o)
    BY <2>1, ConstantsAssumption
  <2>3. \A j, k \in 1..Len(o) : j # k => o[j] # o[k]
    BY <1>3 DEF Lists
  <2> HIDE DEF o, t
  <2> QED BY <2>1, <2>2, <2>3 DEF Victims
<1>7. InMemory' = (InMemory \cup {t}) \ Victims(o)
  <2> DEFINE e == [FromRow([instance |-> i, status |-> "running", count |-> 0,
                            recovered |-> FALSE]) EXCEPT !.loaded = TRUE]
  <2>1. mem' = [u \in Ids |-> IF u = t THEN e ELSE IF u \in Victims(o) THEN NoEntry ELSE mem[u]]
    BY DEF CreateTask
  <2>2. e # NoEntry
    <3>1. [instance |-> i, status |-> "running", count |-> 0, recovered |-> FALSE] \in Row
      BY DEF Row, Statuses
    <3>2. e \in Entry
      BY <3>1, FromRowType DEF Entry
    <3> QED BY <3>2, Present
  <2> HIDE DEF e, o, t
  <2> QED BY <1>1, <1>6, <2>1, <2>2 DEF InMemory
<1> QED BY <1>4, <1>5, <1>7 DEF OrderListsMemory

\* Fetching a task lists it when it was not in memory and is now.
LEMMA FetchListed ==
  ASSUME OrderInv, NEW t \in Ids, NEW w \in Outcomes, Fetch(t, w)
  PROVE  OrderListsMemory'
<1>1. TypeOK /\ Lists(order, InMemory) /\ InMemory \in SUBSET Ids
  BY DEF OrderInv, OrderListsMemory, InMemory
<1>2. CASE t \in InMemory
  <2>1. Fetched(t, w) # NoEntry
    <3>1. mem[t] \in Entry /\ Fetched(t, w) = WithLines(t, mem[t], w)
      BY <1>1, <1>2 DEF TypeOK, InMemory, Fetched
    <3> QED BY <1>1, <3>1, WithLinesType, Present
  <2>2. InMemory' = InMemory /\ order' = order
    BY <1>1, <1>2, <2>1 DEF Fetch, InMemory, TypeOK
  <2> QED BY <1>1, <2>2 DEF OrderListsMemory
<1>3. CASE t \notin InMemory /\ Fetched(t, w) = NoEntry
  <2>1. InMemory' = InMemory /\ order' = order
    BY <1>1, <1>3 DEF Fetch, InMemory, TypeOK
  <2> QED BY <1>1, <2>1 DEF OrderListsMemory
<1>4. CASE t \notin InMemory /\ Fetched(t, w) # NoEntry
  <2>1. InMemory' = InMemory \cup {t} /\ order' = Append(order, t)
    BY <1>1, <1>4 DEF Fetch, InMemory, TypeOK
  <2>2. Lists(Append(order, t), InMemory \cup {t})
    BY <1>1, <1>4, ListsAppend DEF TypeOK
  <2> QED BY <2>1, <2>2 DEF OrderListsMemory
<1> QED BY <1>2, <1>3, <1>4

\* hydrateFromDb lists the rows it selected, then the orphans.
LEMMA RestartListed ==
  ASSUME TypeOK, NEW base, base \in [Ids -> Row \cup {NoRow}], Restart(base)
  PROVE  OrderListsMemory'
<1> DEFINE d == Interrupted(base)
           orphans == Orphans(d)
<1>1. Selected(d) \in SUBSET Ids
  BY DEF Selected, Rows
<1>2. orphans \in SUBSET Ids /\ Selected(d) \cap orphans = {}
  BY DEF Orphans
<1>3. PICK dir \in [orphans -> Dirs], unsaved \in SUBSET orphans,
             p \in Listings(Selected(d)), q \in Listings(orphans) :
        Hydrate(d, orphans, dir, unsaved) /\ order' = p \o q
  BY DEF Restart
<1> HIDE DEF d, orphans
<1>4. Lists(p, Selected(d)) /\ Lists(q, orphans) /\ p \in Seq(Ids) /\ q \in Seq(Ids)
  BY <1>1, <1>2, ListingsList, ListingsAreSeqs
<1>5. InMemory' = Selected(d) \cup orphans
  <2>1. ASSUME NEW r PROVE FromRow(r) # NoEntry
    BY DEF FromRow, NoEntry
  <2>2. mem' = [t \in Ids |-> IF t \in Selected(d) THEN FromRow(d[t])
                              ELSE IF t \in orphans THEN FromRow(Recovered(t, dir[t]))
                              ELSE NoEntry]
    BY <1>3 DEF Hydrate
  <2> QED BY <1>1, <1>2, <2>1, <2>2 DEF InMemory
<1> QED BY <1>1, <1>2, <1>3, <1>4, <1>5, ListsConcat DEF OrderListsMemory

\* The calls that keep the set of tasks in memory and the order.
LEMMA SameMemory ==
  ASSUME OrderInv, InMemory' = InMemory, order' = order
  PROVE  OrderListsMemory'
BY DEF OrderInv, OrderListsMemory

LEMMA OrderStep == OrderInv /\ [Next]_vars => OrderInv'
<1> SUFFICES ASSUME OrderInv, [Next]_vars PROVE OrderListsMemory'
  BY NextType, OnlyCreatedStep DEF OrderInv
<1>1. TypeOK
  BY DEF OrderInv
<1>2. ASSUME NEW i \in Dirs, NEW w \in Outcomes, CreateTask(i, w) PROVE OrderListsMemory'
  BY <1>2, CreateTaskListed
<1>3. ASSUME NEW t \in Ids, t \in InMemory, NEW e, e # NoEntry, mem' = [mem EXCEPT ![t] = e],
             order' = order
      PROVE  OrderListsMemory'
  <2>1. InMemory' = InMemory
    BY <1>1, <1>3 DEF TypeOK, InMemory
  <2> QED BY <1>3, <2>1, SameMemory
<1>4. ASSUME NEW t \in Ids, NEW w \in Outcomes, AppendLine(t, w) PROVE OrderListsMemory'
  <2> DEFINE e == [mem[t] EXCEPT !.lines = Append(@, emitted[t] + 1), !.count = @ + 1]
  <2>1. t \in InMemory /\ mem' = [mem EXCEPT ![t] = e] /\ order' = order
    BY <1>4 DEF AppendLine
  <2>2. e # NoEntry
    BY <1>1, <2>1 DEF TypeOK, InMemory, Entry, NoEntry
  <2> QED BY <1>3, <2>1, <2>2
<1>5. ASSUME NEW t \in Ids, NEW st \in Terminal, NEW w \in Outcomes, CompleteTask(t, st, w)
      PROVE  OrderListsMemory'
  <2> DEFINE e == [mem[t] EXCEPT !.status = st]
  <2>1. t \in InMemory /\ mem' = [mem EXCEPT ![t] = e] /\ order' = order
    BY <1>5 DEF CompleteTask
  <2>2. e # NoEntry
    BY <1>1, <2>1 DEF TypeOK, InMemory, Entry, NoEntry
  <2> QED BY <1>3, <2>1, <2>2
<1>6. ASSUME NEW t \in Ids, NEW i \in Instances, NEW w \in Outcomes, LinkInstance(t, i, w)
      PROVE  OrderListsMemory'
  <2> DEFINE e == [mem[t] EXCEPT !.instance = i]
  <2>1. t \in InMemory /\ mem' = [mem EXCEPT ![t] = e] /\ order' = order
    BY <1>6 DEF LinkInstance
  <2>2. e # NoEntry
    BY <1>1, <2>1 DEF TypeOK, InMemory, Entry, NoEntry
  <2> QED BY <1>3, <2>1, <2>2
<1>7. CASE \E t \in Ids, w \in Outcomes : GetTask(t, w)
  BY <1>7, FetchListed DEF GetTask
<1>8. CASE \E s \in Subs, t \in Ids, w \in Outcomes : Subscribe(s, t, w)
  BY <1>8, FetchListed DEF Subscribe
<1>9. CASE (\E s \in Subs : Unsubscribe(s)) \/ Checkpoint
  <2>1. mem' = mem /\ order' = order
    BY <1>9 DEF Unsubscribe, Checkpoint
  <2> QED BY <2>1, SameMemory DEF InMemory
<1>10. CASE Reboot
  BY <1>1, <1>10, RestartListed DEF Reboot, TypeOK
<1>11. CASE PowerLoss
  BY <1>1, <1>11, RestartListed DEF PowerLoss, TypeOK
<1>12. CASE UNCHANGED vars
  <2>1. mem' = mem /\ order' = order
    BY <1>12 DEF vars
  <2> QED BY <2>1, SameMemory DEF InMemory
<1> QED BY <1>2, <1>4, <1>5, <1>6, <1>7, <1>8, <1>9, <1>10, <1>11, <1>12 DEF Next

LEMMA InitOrder == Init => OrderInv
<1> SUFFICES ASSUME Init PROVE OrderInv
  OBVIOUS
<1>1. OnlyCreated
  BY DEF Init, OnlyCreated, HasFile
<1>2. InMemory = {} /\ Len(order) = 0
  BY DEF Init, InMemory
<1>3. Lists(order, InMemory)
  BY <1>2 DEF Lists
<1> QED BY <1>1, <1>3, InitType DEF OrderInv, OrderListsMemory

\* goad-task-store.ts, taskMap and taskOrder: whatever calls come, writes that
\* fail, restarts and power losses included, the eviction order holds every task
\* in memory exactly once and no other, so no task escapes eviction and none is
\* evicted for another.
THEOREM OrderIsExact == Spec => []OrderListsMemory
<1>1. OrderInv => OrderListsMemory
  BY DEF OrderInv
<1> QED BY <1>1, InitOrder, OrderStep, PTL DEF Spec

\* createTask with evictOldestIfNeeded: after each createTask at most MAX_TASKS
\* tasks are in memory, also when lookups and recovered logs had brought in more
\* and although failed writes left rows behind.
THEOREM CreationsBoundMemory == Spec => CreationBoundsMemory
<1>1. ASSUME OrderInv, [Next]_vars, created' # created
      PROVE  Cardinality(InMemory') <= MaxTasks
  <2>1. PICK i \in Dirs, w \in Outcomes : CreateTask(i, w)
    BY <1>1 DEF Next, vars, AppendLine, CompleteTask, LinkInstance, GetTask, Subscribe,
                Unsubscribe, Checkpoint, Reboot, PowerLoss, Restart
  <2>2. Lists(order', InMemory') /\ Len(order') <= MaxTasks
    BY <1>1, <2>1, CreateTaskListed DEF OrderListsMemory
  <2>3. order' \in Seq(Ids)
    BY <1>1, NextType DEF OrderInv, TypeOK
  <2>4. Cardinality(InMemory') <= Len(order')
    BY <2>2, <2>3, ListsBound
  <2>5. Cardinality(InMemory') \in Nat /\ Len(order') \in Nat
    BY <2>3, IdsFinite DEF InMemory
  <2> QED BY <2>2, <2>4, <2>5, ConstantsAssumption
<1>2. OrderInv /\ [Next]_vars => [created' # created => Cardinality(InMemory') <= MaxTasks]_vars
  BY <1>1
<1> QED BY <1>2, InitOrder, OrderStep, PTL DEF Spec, CreationBoundsMemory
=============================================================================
