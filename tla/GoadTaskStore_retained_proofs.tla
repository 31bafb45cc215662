------------------- MODULE GoadTaskStore_retained_proofs -------------------
(***************************************************************************)
(* What the GOAD task store retains, for any number of tasks, instances,   *)
(* readers, lines and restarts, while writes succeed, no power is lost and *)
(* a task that has an instance is not linked to another one.               *)
(*                                                                         *)
(* The map, the table and the logs are three records of the same tasks.    *)
(* A restart rebuilds the first from the other two, so each property below *)
(* needs the others: hydrateFromDb selects all rows only if there are no   *)
(* more than MAX_TASKS, and it finds no orphan only if evictions left no   *)
(* log, which needs every log to be in a directory the eviction looks at.  *)
(***************************************************************************)
EXTENDS GoadTaskStore_proofs

\* Every write succeeds and the table keeps what was committed.
Reliable == Outcomes = {TRUE} /\ ~Lossy

\* A task gets another instance only while it has none.
LinkedOnce ==
  \A t \in Ids : mem[t] # NoEntry /\ mem'[t] # NoEntry /\ mem'[t].instance # mem[t].instance
                   => mem[t].instance = Global

\* The lines a task has written, in order.
Numbers(n) == [k \in 1..n |-> k]

\* The entry, the row and the logs of task t agree: the row tells what the entry
\* tells, the logs lie where the instance says and hold every line written, and
\* so do the lines in memory once they are loaded.
Consistent(t) ==
  /\ db[t] = NoRow <=> mem[t] = NoEntry
  /\ mem[t] # NoEntry =>
       /\ db[t].status = mem[t].status
       /\ db[t].instance = mem[t].instance
       /\ db[t].recovered = mem[t].recovered
       /\ LogLines(t, mem[t].instance) = Numbers(emitted[t])
       /\ mem[t].loaded => mem[t].lines = Numbers(emitted[t])
  /\ \A d \in Dirs : files[t][d] # <<>> =>
       mem[t] # NoEntry /\ (d = Global \/ d = mem[t].instance)
  /\ t > created => emitted[t] = 0

RetainedInv ==
  /\ TypeOK
  /\ OnlyCreated
  /\ \A t \in Ids : Consistent(t)
  /\ RetainsNewest

\* One step in the life of task t.
Lived(t) == Life(t)' \in Lifecycle!Successors(Life(t))

-----------------------------------------------------------------------------
(* Lemmas on sequences.                                                    *)

LEMMA NumbersZero == Numbers(0) = <<>>
  BY DEF Numbers

LEMMA NumbersAppend ==
  ASSUME NEW n \in Nat
  PROVE  Append(Numbers(n), n + 1) = Numbers(n + 1)
<1>1. Numbers(n) \in Seq(Nat) /\ Len(Numbers(n)) = n
  BY DEF Numbers
<1>2. /\ Append(Numbers(n), n + 1) \in Seq(Nat)
      /\ Len(Append(Numbers(n), n + 1)) = n + 1
      /\ \A k \in 1..n : Append(Numbers(n), n + 1)[k] = Numbers(n)[k]
      /\ Append(Numbers(n), n + 1)[n + 1] = n + 1
  BY <1>1, AppendProperties
<1>3. Numbers(n + 1) \in Seq(Nat) /\ Len(Numbers(n + 1)) = n + 1
  BY DEF Numbers
<1>4. ASSUME NEW k \in 1..(n + 1)
      PROVE  Append(Numbers(n), n + 1)[k] = Numbers(n + 1)[k]
  <2>1. CASE k = n + 1
    BY <1>2, <2>1 DEF Numbers
  <2>2. CASE k \in 1..n
    <3>1. Numbers(n)[k] = k /\ Numbers(n + 1)[k] = k
      BY <2>2 DEF Numbers
    <3>2. Append(Numbers(n), n + 1)[k] = Numbers(n)[k]
      BY <1>2, <2>2, Zenon
    <3> QED BY <3>1, <3>2, Zenon
  <2>3. k = n + 1 \/ k \in 1..n
    OBVIOUS
  <2> QED BY <2>1, <2>2, <2>3, Zenon
<1> QED BY <1>2, <1>3, <1>4, SeqEqual

\* Appending to the second of two logs appends to what is read from both.
LEMMA ConcatAppend ==
  ASSUME NEW a \in Seq(Nat), NEW b \in Seq(Nat), NEW l \in Nat
  PROVE  a \o Append(b, l) = Append(a \o b, l)
<1>1. Append(b, l) = b \o <<l>> /\ Append(a \o b, l) = (a \o b) \o <<l>>
  BY AppendIsConcat, ConcatProperties
<1> QED BY <1>1, ConcatAssociative

\* The only ascending listing of an interval is the identity, shifted.
LEMMA AscendingListing ==
  ASSUME NEW a \in Nat, NEW b \in Nat, a <= b + 1, NEW S, S = a..b,
         NEW p \in Listings(S), Ascending(p)
  PROVE  /\ Len(p) = b - a + 1
         /\ \A k \in 1..(b - a + 1) : p[k] = a + k - 1
<1> DEFINE n == b - a + 1
<1>1. n \in Nat /\ Cardinality(S) = n
  BY FS_Interval
<1>2. p \in [1..n -> S] /\ \A j, k \in 1..n : j # k => p[j] # p[k]
  BY <1>1 DEF Listings
<1>3. Len(p) = n
  BY <1>1, <1>2
<1>4. ASSUME NEW k \in 1..n
      PROVE  p[k] = a + k - 1
  <2>1. p[k] \in Nat /\ a <= p[k] /\ p[k] <= b
    BY <1>2
  <2>2. \A j \in 1..n : j < k => p[j] < p[k]
    BY <1>2 DEF Ascending
  <2>3. \A j \in 1..n : k < j => p[k] < p[j]
    BY <1>2 DEF Ascending
\* k distinct elements lie between a and p[k]: the image of 1..k.
  <2>4. k <= p[k] - a + 1
    <3> DEFINE f == [j \in 1..k |-> p[j]]
    <3>1. \A j \in 1..k : p[j] \in a..p[k]
      BY <1>2, <2>1, <2>2
    <3>2. f \in Injection(1..k, a..p[k])
      BY <1>2, <3>1 DEF Injection, IsInjective
    <3>3. Cardinality(1..k) <= Cardinality(a..p[k])
      BY <2>1, <3>2, FS_Interval, FS_Injection
    <3>4. Cardinality(1..k) = k
      BY FS_Interval
    <3>5. Cardinality(a..p[k]) = p[k] - a + 1
      BY <2>1, FS_Interval
    <3> QED BY <3>3, <3>4, <3>5
\* n - k + 1 distinct elements lie between p[k] and b: the image of k..n.
  <2>5. n - k + 1 <= b - p[k] + 1
    <3> DEFINE f == [j \in k..n |-> p[j]]
    <3>1. \A j \in k..n : p[j] \in p[k]..b
      BY <1>2, <2>1, <2>3
    <3>2. f \in Injection(k..n, p[k]..b)
      BY <1>1, <1>2, <3>1 DEF Injection, IsInjective
    <3>3. Cardinality(k..n) <= Cardinality(p[k]..b)
      BY <2>1, <3>2, FS_Interval, FS_Injection
    <3>4. Cardinality(k..n) = n - k + 1
      BY <1>1, FS_Interval
    <3>5. Cardinality(p[k]..b) = b - p[k] + 1
      BY <2>1, FS_Interval
    <3> QED BY <3>3, <3>4, <3>5
  <2> QED BY <1>1, <2>1, <2>4, <2>5
<1> QED BY <1>3, <1>4

\* The listing of no element.
LEMMA EmptyListing ==
  ASSUME NEW q \in Listings({})
  PROVE  q = <<>>
<1>1. q \in [1..0 -> {}]
  BY FS_EmptySet DEF Listings
<1> QED BY <1>1

-----------------------------------------------------------------------------
(* The tasks retained.                                                     *)

\* Sequences of consecutive numbers list an interval.
LEMMA LatestRange ==
  ASSUME NEW o \in Seq(Ids), NEW c \in Nat, Len(o) <= c,
         \A k \in 1..Len(o) : o[k] = c - Len(o) + k
  PROVE  {o[k] : k \in DOMAIN o} = (c - Len(o) + 1)..c
<1>1. Len(o) \in Nat /\ DOMAIN o = 1..Len(o)
  BY LenProperties
<1>2. ASSUME NEW u \in (c - Len(o) + 1)..c
      PROVE  \E k \in 1..Len(o) : o[k] = u
  <2>1. u \in Int /\ u - (c - Len(o)) \in 1..Len(o)
    BY <1>1
  <2>2. o[u - (c - Len(o))] = c - Len(o) + (u - (c - Len(o)))
    BY <2>1
  <2>3. c - Len(o) + (u - (c - Len(o))) = u
    BY <1>1, <2>1
  <2> QED BY <2>1, <2>2, <2>3
<1>3. ASSUME NEW k \in 1..Len(o)
      PROVE  o[k] \in (c - Len(o) + 1)..c
  BY <1>1
<1> QED BY <1>1, <1>2, <1>3

\* The order after a step, given by a sequence q of the latest tasks up to c.
LEMMA RetainsLatest ==
  ASSUME NEW q \in Seq(Ids), NEW c \in Nat,
         Len(q) = IF c < MaxTasks THEN c ELSE MaxTasks,
         \A k \in 1..Len(q) : q[k] = c - Len(q) + k,
         order' = q, created' = c, InMemory' = (c - Len(q) + 1)..c
  PROVE  RetainsNewest'
<1>1. Len(q) \in Nat /\ DOMAIN q = 1..Len(q) /\ Len(q) <= c
  BY LenProperties, ConstantsAssumption
<1>2. {q[k] : k \in DOMAIN q} = (c - Len(q) + 1)..c
  BY <1>1, LatestRange
<1>3. InMemory' = {q[k] : k \in DOMAIN q}
  BY <1>2
<1>4. \A k \in DOMAIN q : q[k] = c - Len(q) + k
  BY <1>1
<1> HIDE <1>1
<1> QED BY <1>3, <1>4, Zenon DEF RetainsNewest

\* The tasks in memory are the latest Len(order) ones.
LEMMA InMemoryInterval ==
  ASSUME TypeOK, RetainsNewest
  PROVE  /\ Len(order) \in 0..MaxTasks
         /\ Len(order) <= created
         /\ InMemory = (created - Len(order) + 1)..created
<1>1. created \in Nat /\ MaxTasks \in Nat \ {0} /\ Len(order) \in Nat
  BY ConstantsAssumption DEF TypeOK
<1>2. Len(order) \in 0..MaxTasks /\ Len(order) <= created
  BY <1>1 DEF RetainsNewest
<1>3. DOMAIN order = 1..Len(order)
  BY LenProperties DEF TypeOK
<1>4. /\ \A k \in 1..Len(order) : order[k] = created - Len(order) + k
      /\ InMemory = {order[k] : k \in 1..Len(order)}
  BY <1>3 DEF RetainsNewest
<1>5. ASSUME NEW u
      PROVE  u \in InMemory <=> u \in (created - Len(order) + 1)..created
  <2>1. ASSUME u \in InMemory PROVE u \in (created - Len(order) + 1)..created
    <3>1. PICK k \in 1..Len(order) : u = order[k]
      BY <1>4, <2>1
    <3> QED BY <1>1, <1>2, <1>4, <3>1
  <2>2. ASSUME u \in (created - Len(order) + 1)..created PROVE u \in InMemory
    <3>1. u - (created - Len(order)) \in 1..Len(order)
      BY <1>1, <1>2, <2>2
    <3>2. order[u - (created - Len(order))] = u
      BY <1>1, <1>2, <1>4, <2>2, <3>1
    <3> QED BY <1>4, <3>1, <3>2
  <2> QED BY <2>1, <2>2
<1> QED BY <1>2, <1>5

\* createTask evicts the oldest task when MAX_TASKS are retained, and the others
\* move up.
LEMMA Eviction ==
  ASSUME TypeOK, RetainsNewest, created < MaxId,
         NEW t \in Ids, t = created + 1, NEW o, o = Append(order, t)
  PROVE  /\ Len(Kept(o)) = IF t < MaxTasks THEN t ELSE MaxTasks
         /\ \A k \in 1..Len(Kept(o)) : Kept(o)[k] = t - Len(Kept(o)) + k
         /\ Victims(o) = IF Len(order) < MaxTasks THEN {} ELSE {created - MaxTasks + 1}
<1>1. created \in Nat /\ MaxTasks \in Nat \ {0} /\ Len(order) \in Nat /\ order \in Seq(Ids)
  BY ConstantsAssumption DEF TypeOK
<1>2. Len(order) \in 0..MaxTasks /\ Len(order) <= created
  BY InMemoryInterval
<1>3. Len(order) = IF created < MaxTasks THEN created ELSE MaxTasks
  BY DEF RetainsNewest
<1>5. /\ o \in Seq(Ids) /\ Len(o) = Len(order) + 1
      /\ \A k \in 1..Len(order) : o[k] = order[k]
      /\ o[Len(order) + 1] = t
  BY <1>1, AppendProperties
<1>6. \A k \in 1..Len(order) : order[k] = created - Len(order) + k
  BY <1>1, LenProperties DEF RetainsNewest
<1>7. \A k \in 1..Len(o) : o[k] = created - Len(order) + k
  BY <1>1, <1>5, <1>6
<1>8. CASE Len(order) < MaxTasks
  <2>1. Kept(o) = o /\ 1..(Len(o) - MaxTasks) = {}
    BY <1>1, <1>5, <1>8 DEF Kept
  <2>2. Victims(o) = {}
    BY <2>1 DEF Victims
  <2> QED BY <1>1, <1>3, <1>5, <1>7, <1>8, <2>1, <2>2
<1>9. CASE Len(order) = MaxTasks
  <2>1. Kept(o) = SubSeq(o, 2, MaxTasks + 1)
    BY <1>1, <1>5, <1>9 DEF Kept
  <2>2. /\ Len(Kept(o)) = MaxTasks
        /\ \A k \in 1..MaxTasks : Kept(o)[k] = o[k + 1]
    <3>1. \A k \in 2..(MaxTasks + 1) : o[k] \in Ids
      BY <1>1, <1>5, <1>9
    <3> QED BY <1>1, <1>5, <1>9, <2>1, <3>1, SubSeqProperties
  <2>3. 1..(Len(o) - MaxTasks) = {1}
    BY <1>1, <1>5, <1>9
  <2>4. o[1] = created - MaxTasks + 1
    BY <1>1, <1>5, <1>7, <1>9
  <2>5. Victims(o) = {created - MaxTasks + 1}
    BY <2>3, <2>4 DEF Victims
  <2>6. ASSUME NEW k \in 1..MaxTasks
        PROVE  Kept(o)[k] = t - MaxTasks + k
    <3>1. Kept(o)[k] = o[k + 1]
      BY <2>2
    <3>2. k + 1 \in 1..Len(o) /\ k \in Nat
      BY <1>1, <1>5, <1>9
    <3>3. o[k + 1] = created - Len(order) + (k + 1)
      BY <1>7, <3>2
    <3> QED BY <1>1, <1>9, <3>1, <3>2, <3>3
  <2>7. ~(t < MaxTasks) /\ ~(Len(order) < MaxTasks)
    BY <1>1, <1>2, <1>9
  <2> QED BY <2>2, <2>5, <2>6, <2>7
<1> QED BY <1>1, <1>2, <1>8, <1>9

\* hydrateFromDb selects every row when there are at most MAX_TASKS.
LEMMA SelectsAll ==
  ASSUME NEW d, NEW a \in Nat, NEW b \in Nat, b - a + 1 <= MaxTasks, Rows(d) = a..b
  PROVE  Selected(d) = Rows(d)
<1>1. MaxTasks \in Nat \ {0}
  BY ConstantsAssumption
<1> SUFFICES ASSUME NEW t \in Rows(d)
             PROVE  Cardinality({u \in Rows(d) : u < t}) < MaxTasks
  BY DEF Selected
<1>2. t \in Nat /\ a <= t /\ t <= b
  OBVIOUS
<1>3. {u \in Rows(d) : u < t} = a..(t - 1)
  BY <1>2
<1>4. a \in Int /\ t - 1 \in Int
  BY <1>2
<1>5. Cardinality(a..(t - 1)) = IF a > t - 1 THEN 0 ELSE t - 1 - a + 1
  BY <1>4, FS_Interval
<1>6. Cardinality(a..(t - 1)) < MaxTasks
  <2> DEFINE c == Cardinality(a..(t - 1))
  <2>1. c = IF a > t - 1 THEN 0 ELSE t - 1 - a + 1
    BY <1>5
  <2> HIDE DEF c
  <2>2. c < MaxTasks
    BY <1>1, <1>2, <2>1
  <2> QED BY <2>2 DEF c
<1> QED BY <1>3, <1>6

-----------------------------------------------------------------------------
(* The steps.                                                              *)

\* A task that a step leaves alone.
LEMMA Untouched ==
  ASSUME TypeOK, TypeOK', RetainsNewest, NEW u \in Ids, Consistent(u),
         mem'[u] = mem[u], db'[u] = db[u], files'[u] = files[u], emitted'[u] = emitted[u],
         created' = created \/ (created' = created + 1 /\ u # created')
  PROVE  Consistent(u)' /\ Lived(u)
<1>1. created \in Nat /\ u \in Nat
  BY DEF TypeOK, Ids
<1>2. \A d : LogLines(u, d)' = LogLines(u, d)
  BY DEF LogLines
<1>3. Consistent(u)'
  BY <1>1, <1>2 DEF Consistent
<1>4. Life(u)' = Life(u)
  BY <1>1 DEF Life
<1>5. Life(u) \in Lifecycle!Lives
  BY <1>1 DEF Life, TypeOK, Lifecycle!Lives, Lifecycle!Terminal, Entry, Row, Statuses, Terminal
<1>6. Life(u) \in Lifecycle!Successors(Life(u))
  BY <1>5 DEF Lifecycle!Lives, Lifecycle!Successors, Lifecycle!Terminal
<1> QED BY <1>3, <1>4, <1>6 DEF Lived

LEMMA InitRetained == Init => RetainedInv
<1> SUFFICES ASSUME Init PROVE RetainedInv
  OBVIOUS
<1>1. TypeOK /\ OnlyCreated
  BY InitReader DEF ReaderInv
<1>2. ASSUME NEW u \in Ids PROVE Consistent(u)
  BY <1>2 DEF Init, Consistent
<1>3. RetainsNewest
  BY ConstantsAssumption DEF Init, RetainsNewest, InMemory
<1> QED BY <1>1, <1>2, <1>3 DEF RetainedInv

LEMMA CreateTaskRetained ==
  ASSUME RetainedInv, TypeOK', Reliable,
         NEW i \in Dirs, NEW w \in Outcomes, CreateTask(i, w)
  PROVE  RetainsNewest' /\ \A u \in Ids : Consistent(u)' /\ Lived(u)
<1>0. PICK t : t = created + 1
  OBVIOUS
<1> DEFINE o == Append(order, t)
           row == [instance |-> i, status |-> "running", count |-> 0, recovered |-> FALSE]
           new == [FromRow(row) EXCEPT !.loaded = TRUE]
<1>1. TypeOK /\ OnlyCreated /\ RetainsNewest /\ \A u \in Ids : Consistent(u)
  BY DEF RetainedInv
<1>2. created \in Nat /\ created < MaxId /\ t \in Ids /\ created' = t /\ emitted' = emitted
  BY <1>0, <1>1, ConstantsAssumption DEF CreateTask, TypeOK, Ids
<1>3. mem[t] = NoEntry /\ emitted[t] = 0 /\ \A d \in Dirs : files[t][d] = <<>>
  BY <1>0, <1>1, <1>2 DEF OnlyCreated, Consistent, HasFile
<1>4. w = TRUE /\ FALSE \notin Outcomes
  BY DEF Reliable
<1>5. /\ Len(Kept(o)) = IF t < MaxTasks THEN t ELSE MaxTasks
      /\ \A k \in 1..Len(Kept(o)) : Kept(o)[k] = t - Len(Kept(o)) + k
      /\ Victims(o) = IF Len(order) < MaxTasks THEN {} ELSE {created - MaxTasks + 1}
  BY <1>0, <1>1, <1>2, Eviction
<1>6. /\ Len(order) \in 0..MaxTasks
      /\ Len(order) <= created
      /\ InMemory = (created - Len(order) + 1)..created
  BY <1>1, InMemoryInterval
<1>7. Victims(o) \subseteq InMemory /\ t \notin Victims(o)
  BY <1>0, <1>2, <1>5, <1>6, ConstantsAssumption
<1>8. /\ new \in Entry /\ row \in Row
      /\ new.instance = i /\ new.status = "running" /\ new.lines = <<>>
      /\ new.loaded /\ new.recovered = FALSE
      /\ row.instance = i /\ row.status = "running" /\ row.recovered = FALSE
  <2>1. row \in Row
    BY DEF Row, Statuses
  <2>2. FromRow(row) \in Entry
    BY <2>1, FromRowType
  <2>3. new \in Entry
    BY <2>2 DEF Entry
  <2>4. /\ FromRow(row).instance = i /\ FromRow(row).status = "running"
        /\ FromRow(row).lines = <<>> /\ FromRow(row).recovered = FALSE
    BY DEF FromRow
  <2>5. /\ new.instance = i /\ new.status = "running" /\ new.lines = <<>>
        /\ new.loaded /\ new.recovered = FALSE
    BY <2>2, <2>4 DEF Entry
  <2> QED BY <2>1, <2>3, <2>5
<1>9. /\ mem' = [u \in Ids |-> IF u = t THEN new ELSE IF u \in Victims(o) THEN NoEntry ELSE mem[u]]
      /\ order' = Kept(o)
  BY <1>0 DEF CreateTask
<1>10. /\ db' = [u \in Ids |-> IF u = t THEN row ELSE IF u \in Victims(o) THEN NoRow ELSE db[u]]
       /\ files' = [u \in Ids |-> IF u \in Victims(o) THEN Unlinked(u) ELSE files[u]]
  <2>1. PICK kept \in SUBSET Victims(Append(order, created + 1)) :
          /\ kept # {} => FALSE \in Outcomes
          /\ db' = [u \in Ids |-> IF u = created + 1 THEN (IF w THEN row ELSE NoRow)
                                  ELSE IF u \in Victims(Append(order, created + 1)) \ kept
                                       THEN NoRow ELSE db[u]]
          /\ files' = [u \in Ids |-> IF u \in Victims(Append(order, created + 1)) \ kept
                                     THEN Unlinked(u) ELSE files[u]]
    BY DEF CreateTask
  <2>2. Append(order, created + 1) = o
    BY <1>0
  <2> HIDE DEF row, o
  <2>3. kept = {}
    BY <1>4, <2>1
  <2>4. Victims(Append(order, created + 1)) \ kept = Victims(o)
    BY <2>2, <2>3
  <2> QED BY <1>0, <1>4, <2>1, <2>4
<1> HIDE DEF o, row, new
<1>11. Consistent(t)' /\ Lived(t)
  <2>1. mem'[t] = new /\ db'[t] = row /\ files'[t] = files[t] /\ emitted'[t] = 0
    BY <1>2, <1>3, <1>7, <1>9, <1>10
  <2>2. LogLines(t, i)' = <<>>
    <3>1. files'[t][Global] = <<>> /\ files'[t][i] = <<>>
      BY <1>3, <2>1 DEF Dirs
    <3>2. <<>> \o <<>> = <<>>
      OBVIOUS
    <3> QED BY <3>1, <3>2 DEF LogLines
  <2>3. Consistent(t)'
    <3>1. new # NoEntry /\ row # NoRow
      BY <1>8, Present
    <3>2. \A d \in Dirs : files'[t][d] = <<>>
      BY <1>3, <2>1
    <3>3. LogLines(t, new.instance)' = Numbers(emitted'[t]) /\ new.lines = Numbers(emitted'[t])
      BY <1>8, <2>1, <2>2, NumbersZero
    <3> QED BY <1>8, <2>1, <3>1, <3>2, <3>3 DEF Consistent
  <2>4. Life(t) = "none" /\ Life(t)' = "running"
    <3>1. new # NoEntry /\ t > created /\ ~(t > created')
      BY <1>0, <1>2, <1>8, Present
    <3> QED BY <1>8, <2>1, <3>1 DEF Life
  <2> QED BY <2>3, <2>4 DEF Lived, Lifecycle!Successors
<1>12. ASSUME NEW u \in Victims(o)
       PROVE  Consistent(u)' /\ Lived(u)
  <2>1. u \in Ids /\ u # t /\ u <= created /\ mem[u] # NoEntry
    BY <1>0, <1>2, <1>6, <1>7 DEF InMemory
  <2>2. mem'[u] = NoEntry /\ db'[u] = NoRow /\ emitted'[u] = emitted[u]
    BY <1>2, <1>9, <1>10, <2>1
  <2>3. files'[u] = [files[u] EXCEPT ![Global] = <<>>, ![mem[u].instance] = <<>>]
    BY <1>10, <2>1 DEF Unlinked
  <2>4. ASSUME NEW d \in Dirs PROVE files'[u][d] = <<>>
    <3>1. files[u] \in [Dirs -> Seq(Nat)]
      BY <1>1, <2>1 DEF TypeOK
    <3>2. files[u][d] = <<>> \/ d = Global \/ d = mem[u].instance
      BY <1>1, <2>1 DEF Consistent
    <3> QED BY <2>3, <3>1, <3>2
  <2>5. created' = created + 1
    BY <1>0, <1>2
  <2>6. Consistent(u)'
    BY <1>2, <2>1, <2>2, <2>4, <2>5 DEF Consistent, Ids
  <2>7. Life(u) \in Statuses /\ Life(u)' = "gone"
    <3>1. mem[u] \in Entry
      BY <1>1, <2>1 DEF TypeOK
    <3> QED BY <1>2, <2>1, <2>2, <2>5, <3>1 DEF Life, Ids, Entry
  <2> QED BY <2>6, <2>7 DEF Lived, Lifecycle!Successors, Lifecycle!Terminal, Statuses, Terminal
<1>13. ASSUME NEW u \in Ids, u # t, u \notin Victims(o)
       PROVE  Consistent(u)' /\ Lived(u)
  <2>1. mem'[u] = mem[u] /\ db'[u] = db[u] /\ files'[u] = files[u] /\ emitted'[u] = emitted[u]
    BY <1>2, <1>9, <1>10, <1>13
  <2> QED BY <1>0, <1>1, <1>2, <1>13, <2>1, Untouched
<1>14. RetainsNewest'
  <2> DEFINE q == Kept(o)
  <2>1. order' = q /\ created' = t /\ q \in Seq(Ids)
    BY <1>2, <1>9 DEF TypeOK
  <2>2. /\ Len(q) = IF t < MaxTasks THEN t ELSE MaxTasks
        /\ \A k \in 1..Len(q) : q[k] = t - Len(q) + k
    BY <1>5
  <2>3. InMemory' = (InMemory \cup {t}) \ Victims(o)
    BY <1>2, <1>7, <1>8, <1>9, Present DEF InMemory
  <2> HIDE DEF q
  <2>4. (InMemory \cup {t}) \ Victims(o) = (t - Len(q) + 1)..t
    <3>1. Len(order) = IF created < MaxTasks THEN created ELSE MaxTasks
      BY <1>1 DEF RetainsNewest
    <3>2. MaxTasks \in Nat \ {0}
      BY ConstantsAssumption
    <3>3. CASE Len(order) < MaxTasks
      <4>1. Victims(o) = {} /\ Len(order) = created /\ Len(q) = created + 1
        BY <1>0, <1>2, <1>5, <2>2, <3>1, <3>2, <3>3
      <4>2. InMemory = 1..created
        BY <1>2, <1>6, <4>1
      <4> QED BY <1>0, <1>2, <4>1, <4>2
    <3>4. CASE ~(Len(order) < MaxTasks)
      <4>1. Victims(o) = {created - MaxTasks + 1} /\ Len(order) = MaxTasks /\ Len(q) = MaxTasks
        BY <1>0, <1>2, <1>5, <2>2, <3>1, <3>2, <3>4
      <4>2. InMemory = (created - MaxTasks + 1)..created
        BY <1>6, <4>1
      <4> QED BY <1>0, <1>2, <3>2, <4>1, <4>2
    <3> QED BY <3>3, <3>4
  <2>5. t \in Nat
    BY <1>0, <1>2
  <2> QED BY <2>1, <2>2, <2>3, <2>4, <2>5, RetainsLatest
<1>15. ASSUME NEW u \in Ids PROVE Consistent(u)' /\ Lived(u)
  BY <1>11, <1>12, <1>13, Zenon
<1> QED BY <1>14, <1>15

\* A step that creates and evicts nothing.
LEMMA OrderKept ==
  ASSUME RetainsNewest, order' = order, created' = created,
         \A u \in Ids : mem'[u] = NoEntry <=> mem[u] = NoEntry
  PROVE  RetainsNewest'
<1>1. InMemory' = InMemory
  BY DEF InMemory
<1> QED BY <1>1 DEF RetainsNewest

\* A step that changes the entry, the row and the logs of one task.
LEMMA OneTask ==
  ASSUME RetainedInv, TypeOK', NEW t \in Ids, Consistent(t)', Lived(t),
         order' = order, created' = created, mem[t] # NoEntry, mem'[t] # NoEntry,
         \A u \in Ids : u # t => /\ mem'[u] = mem[u] /\ db'[u] = db[u]
                                 /\ files'[u] = files[u] /\ emitted'[u] = emitted[u]
  PROVE  RetainsNewest' /\ \A u \in Ids : Consistent(u)' /\ Lived(u)
<1>1. TypeOK /\ RetainsNewest /\ \A u \in Ids : Consistent(u)
  BY DEF RetainedInv
<1>2. \A u \in Ids : mem'[u] = NoEntry <=> mem[u] = NoEntry
  BY Zenon
<1>3. RetainsNewest'
  BY <1>1, <1>2, OrderKept
<1>4. ASSUME NEW u \in Ids PROVE Consistent(u)' /\ Lived(u)
  <2>1. CASE u = t
    BY <2>1, Zenon
  <2>2. CASE u # t
    <3>1. mem'[u] = mem[u] /\ db'[u] = db[u] /\ files'[u] = files[u] /\ emitted'[u] = emitted[u]
      BY <2>2, Zenon
    <3> QED BY <1>1, <3>1, Untouched
  <2> QED BY <2>1, <2>2
<1> QED BY <1>3, <1>4

\* The life of a task that is in memory before and after a step.
LEMMA LifeInMemory ==
  ASSUME TypeOK, TypeOK', RetainsNewest, NEW t \in Ids,
         mem[t] # NoEntry, mem'[t] # NoEntry, created' = created,
         mem'[t].status = mem[t].status \/ MayEnd(mem[t].status, mem'[t].status),
         mem'[t].status = mem[t].status \/ mem'[t].status \in Terminal
  PROVE  Lived(t)
<1>1. t <= created /\ created \in Nat /\ t \in Nat
  <2>1. created \in Nat /\ t \in Nat
    BY ConstantsAssumption DEF TypeOK, Ids
  <2>2. t \in InMemory
    BY DEF InMemory
  <2>3. t \in (created - Len(order) + 1)..created
    BY <2>2, InMemoryInterval
  <2> QED BY <2>1, <2>3
<1>2. Life(t) = mem[t].status /\ Life(t)' = mem'[t].status
  BY <1>1 DEF Life
<1>3. mem[t].status \in Statuses /\ mem'[t].status \in Statuses
  BY DEF TypeOK, Entry
<1> QED BY <1>2, <1>3 DEF Lived, Lifecycle!Successors, Lifecycle!Terminal, Statuses, Terminal, MayEnd

LEMMA AppendLineRetained ==
  ASSUME RetainedInv, TypeOK', Reliable,
         NEW t \in Ids, NEW w \in Outcomes, AppendLine(t, w)
  PROVE  RetainsNewest' /\ \A u \in Ids : Consistent(u)' /\ Lived(u)
<1>1. TypeOK /\ RetainsNewest /\ Consistent(t)
  BY DEF RetainedInv
<1>2. mem[t] # NoEntry /\ mem[t] \in Entry /\ w = TRUE /\ emitted[t] \in Nat
  BY <1>1 DEF AppendLine, InMemory, TypeOK, Reliable
<1>3. PICK l \in Nat : l = emitted[t] + 1
  BY <1>2
<1>4. PICK d \in Dirs : d = mem[t].instance
  BY <1>2 DEF Entry
<1>5. PICK e : e = [mem[t] EXCEPT !.lines = Append(@, l), !.count = @ + 1]
  OBVIOUS
<1>6. /\ e \in Entry /\ e.instance = d /\ e.lines = Append(mem[t].lines, l)
      /\ e.status = mem[t].status /\ e.loaded = mem[t].loaded
      /\ e.recovered = mem[t].recovered
  <2>1. mem[t].lines \in Seq(Nat) /\ mem[t].count \in Nat
    BY <1>2 DEF Entry
  <2>2. Append(mem[t].lines, l) \in Seq(Nat) /\ mem[t].count + 1 \in Nat
    BY <2>1
  <2>3. PICK q \in Seq(Nat), n \in Nat : q = Append(mem[t].lines, l) /\ n = mem[t].count + 1
    BY <2>2, Zenon
  <2>4. e = [mem[t] EXCEPT !.lines = q, !.count = n]
    BY <1>5, <2>3
  <2>5. /\ e \in Entry /\ e.instance = mem[t].instance /\ e.lines = q
        /\ e.status = mem[t].status /\ e.loaded = mem[t].loaded
        /\ e.recovered = mem[t].recovered
    BY <1>2, <2>4 DEF Entry
  <2> QED BY <1>4, <2>3, <2>5
<1>7. /\ mem' = [mem EXCEPT ![t] = e]
      /\ files' = [files EXCEPT ![t][d] = Append(@, l)]
      /\ emitted' = [emitted EXCEPT ![t] = l]
      /\ UpdateRow(t, w /\ e.count % SyncEvery = 0, [db[t] EXCEPT !.count = e.count])
      /\ order' = order /\ created' = created
  BY <1>2, <1>3, <1>5, <1>6 DEF AppendLine
<1>8. mem'[t] = e /\ emitted'[t] = l /\ files'[t] = [files[t] EXCEPT ![d] = Append(@, l)]
  BY <1>1, <1>7 DEF TypeOK
<1>9. db[t] \in Row /\ db[t] # NoRow
  BY <1>1, <1>2 DEF TypeOK, Consistent
<1>10. /\ db'[t] # NoRow /\ db'[t].status = db[t].status /\ db'[t].instance = db[t].instance
       /\ db'[t].recovered = db[t].recovered
  <2>1. db'[t] = db[t] \/ db'[t] = [db[t] EXCEPT !.count = e.count]
    BY <1>1, <1>7 DEF UpdateRow, TypeOK
  <2>2. e.count \in Nat
    BY <1>5, <1>6 DEF Entry
  <2>3. ASSUME NEW r, r = [db[t] EXCEPT !.count = e.count]
        PROVE  /\ r \in Row /\ r.status = db[t].status /\ r.instance = db[t].instance
               /\ r.recovered = db[t].recovered
    BY <1>9, <2>2, <2>3 DEF Row
  <2> QED BY <1>9, <2>1, <2>3, Present
<1>11. Append(Numbers(emitted[t]), l) = Numbers(l)
  BY <1>2, <1>3, NumbersAppend
<1>12. LogLines(t, d)' = Numbers(l)
  <2>1. files[t] \in [Dirs -> Seq(Nat)] /\ Global \in Dirs
    BY <1>1 DEF TypeOK, Dirs
  <2>2. LogLines(t, d) = Numbers(emitted[t])
    BY <1>1, <1>2, <1>4 DEF Consistent
  <2>3. CASE d = Global
    BY <1>8, <1>11, <2>1, <2>2, <2>3 DEF LogLines
  <2>4. CASE d # Global
    <3>1. files'[t][Global] = files[t][Global] /\ files'[t][d] = Append(files[t][d], l)
      BY <1>8, <2>1, <2>4
    <3>2. files[t][Global] \o Append(files[t][d], l) = Append(files[t][Global] \o files[t][d], l)
      BY <2>1, ConcatAppend
    <3> QED BY <1>11, <2>2, <2>4, <3>1, <3>2 DEF LogLines
  <2> QED BY <2>3, <2>4
<1>13. Consistent(t)'
  <2>1. e # NoEntry
    BY <1>5, <1>6, Present
  <2>2. e.loaded => e.lines = Numbers(l)
    BY <1>1, <1>2, <1>5, <1>6, <1>11 DEF Consistent
  <2>3. ASSUME NEW x \in Dirs, files'[t][x] # <<>>
        PROVE  x = Global \/ x = d
    BY <1>1, <1>4, <1>8, <2>3 DEF Consistent, TypeOK
  <2>4. t <= created
    BY <1>1, <1>2, InMemoryInterval DEF InMemory
  <2>5. ~(t > created')
    BY <1>1, <1>7, <2>4 DEF TypeOK, Ids
  <2>6. /\ db'[t].status = e.status /\ db'[t].instance = e.instance /\ db'[t].recovered = e.recovered
    BY <1>1, <1>2, <1>4, <1>5, <1>6, <1>10 DEF Consistent
  <2> QED BY <1>5, <1>6, <1>8, <1>10, <1>12, <2>1, <2>2, <2>3, <2>5, <2>6 DEF Consistent
<1>14. Lived(t)
  BY <1>1, <1>2, <1>5, <1>6, <1>7, <1>8, LifeInMemory, Present
<1>15. \A u \in Ids : u # t => /\ mem'[u] = mem[u] /\ db'[u] = db[u]
                               /\ files'[u] = files[u] /\ emitted'[u] = emitted[u]
  BY <1>1, <1>7 DEF UpdateRow, TypeOK
<1> QED BY <1>2, <1>5, <1>6, <1>7, <1>8, <1>13, <1>14, <1>15, OneTask, Present

LEMMA CompleteTaskRetained ==
  ASSUME RetainedInv, TypeOK', Reliable,
         NEW t \in Ids, NEW st \in Terminal, NEW w \in Outcomes, CompleteTask(t, st, w)
  PROVE  RetainsNewest' /\ \A u \in Ids : Consistent(u)' /\ Lived(u)
<1>1. TypeOK /\ RetainsNewest /\ Consistent(t)
  BY DEF RetainedInv
<1>2. mem[t] # NoEntry /\ mem[t] \in Entry /\ w = TRUE
  BY <1>1 DEF CompleteTask, InMemory, TypeOK, Reliable
<1>3. /\ mem' = [mem EXCEPT ![t].status = st]
      /\ UpdateRow(t, w, [db[t] EXCEPT !.status = st, !.count = mem[t].count])
      /\ order' = order /\ created' = created /\ files' = files /\ emitted' = emitted
      /\ MayEnd(mem[t].status, st)
  BY DEF CompleteTask
<1>4. PICK e : e = [mem[t] EXCEPT !.status = st]
  OBVIOUS
<1>5. /\ e \in Entry /\ e.status = st /\ e.instance = mem[t].instance /\ e.lines = mem[t].lines
      /\ e.loaded = mem[t].loaded /\ e.recovered = mem[t].recovered
  BY <1>2, <1>4 DEF Entry, Statuses
<1>6. mem'[t] = e /\ e # NoEntry
  BY <1>1, <1>3, <1>4, <1>5, Present DEF TypeOK
<1>7. db[t] \in Row /\ db[t] # NoRow
  BY <1>1, <1>2 DEF TypeOK, Consistent
<1>8. PICK r : r = [db[t] EXCEPT !.status = st, !.count = mem[t].count]
  OBVIOUS
<1>9. r \in Row /\ r.status = st /\ r.instance = db[t].instance /\ r.recovered = db[t].recovered
  <2>1. mem[t].count \in Nat
    BY <1>2 DEF Entry
  <2> QED BY <1>7, <1>8, <2>1 DEF Row, Statuses
<1>10. db'[t] = r /\ r # NoRow
  BY <1>1, <1>2, <1>3, <1>7, <1>8, <1>9, Present DEF UpdateRow, TypeOK
<1>11. LogLines(t, mem[t].instance)' = LogLines(t, mem[t].instance) 
  <2>1. LogLines(t, e.instance)' = LogLines(t, mem[t].instance)
    BY <1>3, <1>5 DEF LogLines
  <2>2. (mem[t].instance)' = e.instance
    BY <1>6
  <2> QED BY <2>1, <2>2 DEF LogLines
<1>12. Consistent(t)'
  <2>1. /\ db[t].instance = mem[t].instance /\ db[t].recovered = mem[t].recovered
        /\ LogLines(t, mem[t].instance) = Numbers(emitted[t])
        /\ mem[t].loaded => mem[t].lines = Numbers(emitted[t])
        /\ \A d \in Dirs : files[t][d] # <<>> => d = Global \/ d = mem[t].instance
        /\ t > created => emitted[t] = 0
    BY <1>1, <1>2 DEF Consistent
  <2> QED BY <1>3, <1>5, <1>6, <1>9, <1>10, <1>11, <2>1 DEF Consistent
<1>13. Lived(t)
  BY <1>1, <1>2, <1>3, <1>5, <1>6, LifeInMemory
<1>14. \A u \in Ids : u # t => /\ mem'[u] = mem[u] /\ db'[u] = db[u]
                               /\ files'[u] = files[u] /\ emitted'[u] = emitted[u]
  BY <1>1, <1>3 DEF UpdateRow, TypeOK
<1> QED BY <1>2, <1>3, <1>6, <1>12, <1>13, <1>14, OneTask

LEMMA LinkInstanceRetained ==
  ASSUME RetainedInv, TypeOK', Reliable, LinkedOnce,
         NEW t \in Ids, NEW i \in Instances, NEW w \in Outcomes, LinkInstance(t, i, w)
  PROVE  RetainsNewest' /\ \A u \in Ids : Consistent(u)' /\ Lived(u)
<1>1. TypeOK /\ RetainsNewest /\ Consistent(t) /\ i \in Dirs /\ i # Global
  BY ConstantsAssumption DEF RetainedInv, Dirs
<1>2. mem[t] # NoEntry /\ mem[t] \in Entry /\ w = TRUE
  BY <1>1 DEF LinkInstance, InMemory, TypeOK, Reliable
<1>3. /\ mem' = [mem EXCEPT ![t].instance = i]
      /\ UpdateRow(t, w, [db[t] EXCEPT !.instance = i])
      /\ order' = order /\ created' = created /\ files' = files /\ emitted' = emitted
  BY DEF LinkInstance
<1>4. PICK e : e = [mem[t] EXCEPT !.instance = i]
  OBVIOUS
<1>5. /\ e \in Entry /\ e.status = mem[t].status /\ e.instance = i /\ e.lines = mem[t].lines
      /\ e.loaded = mem[t].loaded /\ e.recovered = mem[t].recovered
  BY <1>1, <1>2, <1>4 DEF Entry
<1>6. mem'[t] = e /\ e # NoEntry
  BY <1>1, <1>3, <1>4, <1>5, Present DEF TypeOK
<1>7. db[t] \in Row /\ db[t] # NoRow
  BY <1>1, <1>2 DEF TypeOK, Consistent
<1>8. PICK r : r = [db[t] EXCEPT !.instance = i]
  OBVIOUS
<1>9. r \in Row /\ r.status = db[t].status /\ r.instance = i /\ r.recovered = db[t].recovered
  BY <1>1, <1>7, <1>8 DEF Row
<1>10. db'[t] = r /\ r # NoRow
  BY <1>1, <1>2, <1>3, <1>7, <1>8, <1>9, Present DEF UpdateRow, TypeOK
<1>11. mem[t].instance = i \/ mem[t].instance = Global
  BY <1>2, <1>5, <1>6 DEF LinkedOnce
<1>12. files[t] \in [Dirs -> Seq(Nat)] /\ Global \in Dirs
  BY <1>1 DEF TypeOK, Dirs
<1>13. /\ db[t].status = mem[t].status /\ db[t].recovered = mem[t].recovered
       /\ LogLines(t, mem[t].instance) = Numbers(emitted[t])
       /\ mem[t].loaded => mem[t].lines = Numbers(emitted[t])
       /\ \A d \in Dirs : files[t][d] # <<>> => d = Global \/ d = mem[t].instance
       /\ t > created => emitted[t] = 0
  BY <1>1, <1>2 DEF Consistent
<1>14. LogLines(t, i)' = Numbers(emitted[t])
  <2>1. LogLines(t, i)' = LogLines(t, i)
    BY <1>3 DEF LogLines
  <2>2. CASE mem[t].instance = i
    BY <1>13, <2>1, <2>2
  <2>3. CASE mem[t].instance = Global
    <3>1. files[t][i] = <<>> /\ files[t][Global] \in Seq(Nat)
      BY <1>1, <1>12, <1>13, <2>3
    <3>2. LogLines(t, i) = files[t][Global]
      BY <1>1, <3>1, ConcatEmptySeq DEF LogLines
    <3>3. LogLines(t, Global) = files[t][Global]
      BY DEF LogLines
    <3> QED BY <1>13, <2>1, <2>3, <3>2, <3>3
  <2> QED BY <1>11, <2>2, <2>3
<1>15. Consistent(t)'
  BY <1>3, <1>5, <1>6, <1>9, <1>10, <1>11, <1>13, <1>14 DEF Consistent
<1>16. Lived(t)
  BY <1>1, <1>2, <1>3, <1>5, <1>6, LifeInMemory
<1>17. \A u \in Ids : u # t => /\ mem'[u] = mem[u] /\ db'[u] = db[u]
                               /\ files'[u] = files[u] /\ emitted'[u] = emitted[u]
  BY <1>1, <1>3 DEF UpdateRow, TypeOK
<1> QED BY <1>2, <1>3, <1>6, <1>15, <1>16, <1>17, OneTask

\* getTask and subscribeToTask: what they fetch is in memory already, and loading
\* its lines reads them all.
LEMMA FetchRetained ==
  ASSUME RetainedInv, TypeOK', Reliable, NEW t \in Ids, NEW w \in Outcomes, Fetch(t, w),
         UNCHANGED <<db, files, created, emitted>>
  PROVE  RetainsNewest' /\ \A u \in Ids : Consistent(u)' /\ Lived(u)
<1>1. TypeOK /\ RetainsNewest /\ \A u \in Ids : Consistent(u)
  BY DEF RetainedInv
<1>4. w = TRUE
  BY DEF Reliable
<1>2. CASE mem[t] = NoEntry
  <2>1. Fetched(t, w) = NoEntry
    BY <1>1, <1>2 DEF Fetched, Consistent
  <2>2. mem' = mem /\ order' = order
    BY <1>1, <1>2, <2>1 DEF Fetch, TypeOK
  <2>3. RetainsNewest'
    BY <1>1, <2>2, OrderKept
  <2>4. ASSUME NEW u \in Ids PROVE Consistent(u)' /\ Lived(u)
    BY <1>1, <2>2, Untouched
  <2> QED BY <2>3, <2>4
<1>3. CASE mem[t] # NoEntry
  <2>1. mem[t] \in Entry
    BY <1>1, <1>3 DEF TypeOK
  <2>2. PICK e : e = WithLines(t, mem[t], TRUE)
    OBVIOUS
  <2>3. /\ LogLines(t, mem[t].instance) = Numbers(emitted[t])
        /\ LogLines(t, mem[t].instance) \in Seq(Nat)
        /\ mem[t].loaded => mem[t].lines = Numbers(emitted[t])
    BY <1>1, <1>3, <2>1, LogLinesType DEF Consistent, Entry
  <2>4. /\ e \in Entry /\ e.status = mem[t].status /\ e.instance = mem[t].instance
        /\ e.recovered = mem[t].recovered /\ e.lines = Numbers(emitted[t])
    <3>1. CASE mem[t].loaded
      <4>1. e = [mem[t] EXCEPT !.loaded = TRUE]
        BY <2>2, <3>1 DEF WithLines
      <4>2. e = mem[t]
        BY <2>1, <3>1, <4>1 DEF Entry
      <4> QED BY <2>1, <2>3, <3>1, <4>2
    <3>2. CASE ~mem[t].loaded
      <4>1. PICK q \in Seq(Nat), n \in Nat :
              q = LogLines(t, mem[t].instance) /\ n = Len(LogLines(t, mem[t].instance))
        BY <2>3, LenProperties
      <4>2. e = [mem[t] EXCEPT !.lines = q, !.count = n, !.loaded = TRUE]
        BY <2>2, <3>2, <4>1 DEF WithLines
      <4>3. /\ e \in Entry /\ e.status = mem[t].status /\ e.instance = mem[t].instance
            /\ e.recovered = mem[t].recovered /\ e.lines = q
        BY <2>1, <4>2 DEF Entry
      <4> QED BY <2>3, <4>1, <4>3
    <3> QED BY <3>1, <3>2
  <2>5. mem' = [mem EXCEPT ![t] = e] /\ order' = order
    BY <1>3, <1>4, <2>2 DEF Fetch, Fetched, InMemory
  <2>6. mem'[t] = e /\ e # NoEntry
    BY <1>1, <2>4, <2>5, Present DEF TypeOK
  <2>7. LogLines(t, e.instance)' = LogLines(t, mem[t].instance)
    BY <2>4 DEF LogLines
  <2>8. Consistent(t)'
    BY <1>1, <1>3, <2>3, <2>4, <2>6, <2>7 DEF Consistent
  <2>9. Lived(t)
    BY <1>1, <1>3, <2>4, <2>6, LifeInMemory
  <2>10. \A u \in Ids : u # t => mem'[u] = mem[u]
    BY <1>1, <2>5 DEF TypeOK
  <2> QED BY <1>3, <2>5, <2>6, <2>8, <2>9, <2>10, OneTask
<1> QED BY <1>2, <1>3

\* hydrateFromDb: every row is selected and no log is an orphan, so the map is
\* rebuilt as it was, with the interrupted tasks ended.
LEMMA RebootRetained ==
  ASSUME RetainedInv, TypeOK', Reboot
  PROVE  RetainsNewest' /\ \A u \in Ids : Consistent(u)' /\ Lived(u)
<1> DEFINE orphans == Orphans(Interrupted(db))
           a == created - Len(order) + 1
<1>1. TypeOK /\ RetainsNewest /\ \A u \in Ids : Consistent(u)
  BY DEF RetainedInv
<1>2. PICK d : d = Interrupted(db)
  OBVIOUS
<1>3. ASSUME NEW u \in Ids
      PROVE  d[u] = IF db[u] # NoRow /\ db[u].status = "running"
                    THEN [db[u] EXCEPT !.status = "error"] ELSE db[u]
  BY <1>2 DEF Interrupted
<1>4. ASSUME NEW u \in Ids
      PROVE  /\ d[u] = NoRow <=> mem[u] = NoEntry
             /\ mem[u] # NoEntry =>
                  /\ d[u] \in Row
                  /\ d[u].instance = mem[u].instance
                  /\ d[u].recovered = mem[u].recovered
                  /\ d[u].status = IF mem[u].status = "running" THEN "error" ELSE mem[u].status
  <2>1. CASE mem[u] = NoEntry
    <3>1. db[u] = NoRow
      BY <1>1, <2>1 DEF Consistent
    <3>2. d[u] = NoRow
      BY <1>3, <3>1
    <3> QED BY <2>1, <3>2
  <2>2. CASE mem[u] # NoEntry
    <3>1. /\ db[u] \in Row /\ db[u] # NoRow /\ db[u].status = mem[u].status
          /\ db[u].instance = mem[u].instance /\ db[u].recovered = mem[u].recovered
      BY <1>1, <2>2 DEF Consistent, TypeOK
    <3>2. CASE db[u].status = "running"
      <4>1. d[u] = [db[u] EXCEPT !.status = "error"]
        BY <1>3, <3>1, <3>2
      <4>2. /\ d[u] \in Row /\ d[u].status = "error" /\ d[u].instance = db[u].instance
            /\ d[u].recovered = db[u].recovered
        BY <3>1, <4>1 DEF Row, Statuses, Terminal
      <4> QED BY <2>2, <3>1, <3>2, <4>2, Present
    <3>3. CASE db[u].status # "running"
      BY <1>3, <2>2, <3>1, <3>3
    <3> QED BY <3>2, <3>3
  <2> QED BY <2>1, <2>2
<1>5. /\ created \in Nat /\ Len(order) \in 0..MaxTasks /\ Len(order) <= created
      /\ InMemory = a..created
  BY <1>1, InMemoryInterval DEF TypeOK
<1>6. Rows(d) = InMemory
  BY <1>4 DEF Rows, InMemory
<1>7. a \in Nat /\ created - a + 1 <= MaxTasks /\ a <= created + 1 /\ created - a + 1 = Len(order)
  BY <1>5, ConstantsAssumption
<1> HIDE DEF a
<1>8. Selected(d) = InMemory
  BY <1>5, <1>6, <1>7, SelectsAll
<1>9. orphans = {}
  <2>1. ASSUME NEW u \in Ids, HasFile(u) PROVE u \in InMemory
    BY <1>1, <2>1 DEF HasFile, Consistent, InMemory
  <2> QED BY <1>2, <1>8, <2>1 DEF Orphans
<1>10. /\ created' = created /\ files' = files /\ emitted' = emitted
       /\ \E pos \in DirOrders, dir \in [orphans -> Dirs], unsaved \in SUBSET orphans,
             p \in Listings(Selected(Interrupted(db))), q \in Listings(orphans) :
            /\ Ascending(p)
            /\ Scanned(orphans, pos, dir, q)
            /\ Hydrate(Interrupted(db), orphans, dir, unsaved)
            /\ order' = p \o q
  BY DEF Reboot, Restart
<1> HIDE DEF orphans
<1>11. PICK dir \in [orphans -> Dirs], unsaved \in SUBSET orphans,
            p \in Listings(InMemory), q \in Listings(orphans) :
          Ascending(p) /\ Hydrate(d, orphans, dir, unsaved) /\ order' = p \o q
  BY <1>2, <1>8, <1>10
<1>12. RetainsNewest'
  <2>1. p \in Seq(Ids) /\ Len(p) = Len(order) /\ \A k \in 1..Len(p) : p[k] = a + k - 1
    <3>1. Len(p) = created - a + 1 /\ \A k \in 1..(created - a + 1) : p[k] = a + k - 1
      BY <1>5, <1>7, <1>11, AscendingListing
    <3>2. p \in Seq(Ids)
      BY ListingsAreSeqs DEF InMemory
    <3> QED BY <1>7, <3>1, <3>2
  <2>2. q = <<>>
    BY <1>9, EmptyListing
  <2>3. order' = p
    BY <1>11, <2>1, <2>2, ConcatEmptySeq
  <2>4. InMemory' = InMemory
    <3>1. ASSUME NEW u \in Ids PROVE mem'[u] = IF u \in InMemory THEN FromRow(d[u]) ELSE NoEntry
      BY <1>8, <1>9, <1>11 DEF Hydrate
    <3>2. ASSUME NEW u \in InMemory PROVE FromRow(d[u]) # NoEntry
      BY <1>4, FromRowType, Present DEF InMemory
    <3> QED BY <3>1, <3>2 DEF InMemory
  <2>5. Len(order) = IF created < MaxTasks THEN created ELSE MaxTasks
    BY <1>1 DEF RetainsNewest
  <2>6. \A k \in 1..Len(p) : p[k] = created - Len(p) + k
    BY <1>5, <2>1 DEF a
  <2>7. InMemory' = (created - Len(p) + 1)..created
    BY <1>5, <2>1, <2>4 DEF a
  <2> QED BY <1>5, <1>10, <2>1, <2>3, <2>5, <2>6, <2>7, RetainsLatest
<1>13. ASSUME NEW u \in Ids
       PROVE  Consistent(u)' /\ Lived(u)
  <2>1. mem'[u] = (IF u \in InMemory THEN FromRow(d[u]) ELSE NoEntry) /\ db'[u] = d[u]
    BY <1>8, <1>9, <1>11 DEF Hydrate
  <2>2. CASE mem[u] = NoEntry
    <3>1. mem'[u] = mem[u] /\ db'[u] = db[u]
      BY <1>1, <1>4, <2>1, <2>2 DEF InMemory, Consistent
    <3> QED BY <1>1, <1>10, <3>1, Untouched
  <2>3. CASE mem[u] # NoEntry
    <3>1. /\ d[u] \in Row /\ d[u] # NoRow
          /\ d[u].instance = mem[u].instance /\ d[u].recovered = mem[u].recovered
          /\ d[u].status = IF mem[u].status = "running" THEN "error" ELSE mem[u].status
      BY <1>4, <2>3, Present
    <3>2. PICK e : e = FromRow(d[u])
      OBVIOUS
    <3>3. /\ e \in Entry /\ ~e.loaded /\ e.status = d[u].status /\ e.instance = d[u].instance
          /\ e.recovered = d[u].recovered
      BY <3>1, <3>2, FromRowType DEF FromRow
    <3>4. mem'[u] = e /\ e # NoEntry
      BY <2>1, <2>3, <3>2, <3>3, Present DEF InMemory
    <3>5. LogLines(u, e.instance)' = LogLines(u, mem[u].instance)
      BY <1>10, <3>1, <3>3 DEF LogLines
    <3>6. /\ LogLines(u, mem[u].instance) = Numbers(emitted[u])
          /\ \A x \in Dirs : files[u][x] # <<>> => x = Global \/ x = mem[u].instance
          /\ u > created => emitted[u] = 0
      BY <1>1, <2>3 DEF Consistent
    <3>7. Consistent(u)'
      BY <1>10, <2>1, <3>1, <3>3, <3>4, <3>5, <3>6 DEF Consistent
    <3>8. Lived(u)
      <4>1. mem'[u].status = mem[u].status \/ (mem[u].status = "running" /\ mem'[u].status = "error")
        BY <3>1, <3>3, <3>4
      <4>2. mem'[u].status = mem[u].status \/ MayEnd(mem[u].status, mem'[u].status)
        BY <4>1 DEF MayEnd
      <4>3. mem'[u].status = mem[u].status \/ mem'[u].status \in Terminal
        BY <4>1 DEF Terminal
      <4> QED BY <1>1, <1>10, <2>3, <3>4, <4>2, <4>3, LifeInMemory
    <3> QED BY <3>7, <3>8
  <2> QED BY <2>2, <2>3
<1> QED BY <1>12, <1>13

LEMMA StepRetained ==
  ASSUME RetainedInv, Reliable, [Next]_vars, [LinkedOnce]_vars
  PROVE  RetainedInv' /\ \A u \in Ids : Lived(u)
<1>1. TypeOK /\ OnlyCreated /\ RetainsNewest /\ \A u \in Ids : Consistent(u)
  BY DEF RetainedInv
<1>2. TypeOK' /\ OnlyCreated'
  BY <1>1, NextType, OnlyCreatedStep
<1> DEFINE Kept1 == RetainsNewest' /\ \A u \in Ids : Consistent(u)' /\ Lived(u)
<1>3. ASSUME UNCHANGED <<mem, order, db, files, created, emitted>>
      PROVE  Kept1
  <2>1. RetainsNewest'
    BY <1>1, <1>3, OrderKept
  <2>2. ASSUME NEW u \in Ids PROVE Consistent(u)' /\ Lived(u)
    BY <1>1, <1>2, <1>3, Untouched
  <2> QED BY <2>1, <2>2
<1>4. ASSUME NEW i \in Dirs, NEW w \in Outcomes, CreateTask(i, w) PROVE Kept1
  BY <1>2, <1>4, CreateTaskRetained
<1>5. ASSUME NEW t \in Ids, NEW w \in Outcomes, AppendLine(t, w) PROVE Kept1
  BY <1>2, <1>5, AppendLineRetained
<1>6. ASSUME NEW t \in Ids, NEW st \in Terminal, NEW w \in Outcomes, CompleteTask(t, st, w)
      PROVE  Kept1
  BY <1>2, <1>6, CompleteTaskRetained
<1>7. ASSUME NEW t \in Ids, NEW i \in Instances, NEW w \in Outcomes, LinkInstance(t, i, w)
      PROVE  Kept1
  <2>1. CASE LinkedOnce
    BY <1>2, <1>7, <2>1, LinkInstanceRetained
  <2>2. CASE UNCHANGED vars
    BY <1>3, <2>2 DEF vars
  <2> QED BY <2>1, <2>2
<1>8. ASSUME NEW t \in Ids, NEW w \in Outcomes, GetTask(t, w) PROVE Kept1
  BY <1>2, <1>8, FetchRetained DEF GetTask
<1>9. ASSUME NEW s \in Subs, NEW t \in Ids, NEW w \in Outcomes, Subscribe(s, t, w) PROVE Kept1
  BY <1>2, <1>9, FetchRetained DEF Subscribe
<1>10. ASSUME NEW s \in Subs, Unsubscribe(s) PROVE Kept1
  BY <1>3, <1>10 DEF Unsubscribe
<1>11. ASSUME Checkpoint PROVE Kept1
  BY <1>3, <1>11 DEF Checkpoint
<1>12. ASSUME Reboot PROVE Kept1
  BY <1>2, <1>12, RebootRetained
<1>13. ASSUME PowerLoss PROVE Kept1
  BY <1>13 DEF PowerLoss, Reliable
<1>14. ASSUME UNCHANGED vars PROVE Kept1
  BY <1>3, <1>14 DEF vars
<1> HIDE DEF Kept1
<1>15. Kept1
  BY <1>4, <1>5, <1>6, <1>7, <1>8, <1>9, <1>10, <1>11, <1>12, <1>13, <1>14 DEF Next
<1> QED BY <1>2, <1>15 DEF Kept1, RetainedInv

\* The hypotheses of the theorems below, as a specification.
RetainingSpec == Spec /\ [][LinkedOnce]_vars

LEMMA Retained == Reliable => (RetainingSpec => []RetainedInv)
<1>1. Init => RetainedInv
  BY InitRetained
<1>2. Reliable /\ RetainedInv /\ [Next]_vars /\ [LinkedOnce]_vars => RetainedInv'
  BY StepRetained
<1> SUFFICES ASSUME Reliable PROVE RetainingSpec => []RetainedInv
  OBVIOUS
<1>3. RetainedInv /\ [Next]_vars /\ [LinkedOnce]_vars => RetainedInv'
  BY <1>2
<1> QED BY <1>1, <1>3, PTL DEF Spec, RetainingSpec

\* createTask, completeTask, updateTaskInstance, evictOldestIfNeeded and
\* hydrateFromDb: the map and the table hold the same tasks and agree on them.
THEOREM RowsAlwaysMatch == Reliable => (RetainingSpec => []RowsMatchMemory)
<1>1. RetainedInv => RowsMatchMemory
  BY DEF RetainedInv, Consistent, RowsMatchMemory, Rows, InMemory
<1> QED BY <1>1, Retained, PTL

\* evictOldestIfNeeded: no log outlives its task, so no restart revives it.
THEOREM EvictedLeaveNoLog == Reliable => (RetainingSpec => []EvictionLeavesNoLog)
<1>1. RetainedInv => EvictionLeavesNoLog
  BY DEF RetainedInv, Consistent, EvictionLeavesNoLog, Rows, HasFile
<1> QED BY <1>1, Retained, PTL

\* createTask with hydrateFromDb: the store holds the newest tasks, up to
\* MAX_TASKS, and lists them oldest first, however often the process restarts.
THEOREM NewestAreRetained == Reliable => (RetainingSpec => []RetainsNewest)
<1>1. RetainedInv => RetainsNewest
  BY DEF RetainedInv
<1> QED BY <1>1, Retained, PTL

\* loadLinesFromFile: lines once loaded are all the lines the task ever wrote, in
\* order, although a link moved the log to another directory halfway.
THEOREM ReplaysAreComplete == Reliable => (RetainingSpec => []ReplayComplete)
<1>1. RetainedInv => ReplayComplete
  BY DEF RetainedInv, Consistent, ReplayComplete, Numbers, InMemory
<1> QED BY <1>1, Retained, PTL

\* completeTask with its guard, evictOldestIfNeeded and hydrateFromDb: the store
\* implements TaskLifecycle.  No restart revives an evicted task or reopens an
\* ended one.
THEOREM StoreImplementsLifecycle == Reliable => (RetainingSpec => ImplementsLifecycle)
<1>1. Init => Lifecycle!Init
  BY ConstantsAssumption DEF Init, Lifecycle!Init, Life, Ids
<1>2. Reliable /\ RetainedInv /\ [Next]_vars /\ [LinkedOnce]_vars => Lifecycle!Next
  <2> SUFFICES ASSUME Reliable, RetainedInv, [Next]_vars, [LinkedOnce]_vars
               PROVE  Lifecycle!Next
    OBVIOUS
  <2>1. \A u \in Ids : Lived(u)
    BY StepRetained
  <2>2. ASSUME NEW s, NEW r, s \in Lifecycle!Successors(r), r \in Lifecycle!Lives
        PROVE  s \in Lifecycle!Lives
    BY <2>2 DEF Lifecycle!Successors, Lifecycle!Lives, Lifecycle!Terminal
  <2>3. \A u \in Ids : Life(u) \in Lifecycle!Lives
    BY DEF RetainedInv, Life, TypeOK, Lifecycle!Lives, Lifecycle!Terminal, Entry, Row, Statuses, Terminal
  <2>4. \A u \in Ids : Life(u)' \in Lifecycle!Lives
    BY <2>1, <2>2, <2>3 DEF Lived
  <2> QED BY <2>1, <2>4 DEF Lifecycle!Next, Lived
<1> SUFFICES ASSUME Reliable PROVE RetainingSpec => ImplementsLifecycle
  OBVIOUS
<1>3. RetainedInv /\ [Next]_vars /\ [LinkedOnce]_vars => Lifecycle!Next
  BY <1>2
<1>4. RetainingSpec => []RetainedInv
  BY Retained
<1> QED BY <1>1, <1>3, <1>4, PTL DEF Spec, RetainingSpec, ImplementsLifecycle, Lifecycle!Spec
=============================================================================
