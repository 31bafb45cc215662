--------------------------- MODULE GoadTaskStore ---------------------------
(***************************************************************************)
(* The server-side GOAD task store, src/src/lib/goad/goad-task-store.ts.   *)
(*                                                                         *)
(* One task lives in three places: an entry of the in-memory map (status,  *)
(* line buffer, subscriber sets), a row of the SQLite table goad_tasks,    *)
(* and log files named after the directory the task belonged to when each  *)
(* line was written.  Every operation of the module runs to completion     *)
(* without yielding, so it is one action here; what interleaves is the     *)
(* order of the calls, and a restart, which keeps only rows and files.     *)
(*                                                                         *)
(* A task id is the position of its creation (the code's ids start with    *)
(* the creation time).  A line is its serial number within the task, which *)
(* makes lost, repeated and reordered lines visible.  Directory Global     *)
(* (tasks/_global) stands for "no instance".                               *)
(***************************************************************************)
EXTENDS Naturals, Sequences, FiniteSets

CONSTANTS
  MaxId,        \* bound: tasks created in a behaviour
  MaxTasks,     \* MAX_TASKS, the number of tasks retained
  Instances,    \* GOAD instance ids (workspaces)
  Global,       \* the _global directory: a task linked to no instance
  Subs,         \* readers of a task's output (SSE connections)
  MaxLines,     \* bound: lines written per task
  MaxBoots,     \* bound: restarts
  SyncEvery,    \* lines between two writes of line_count (50 in the code)
  Outcomes,     \* outcomes of a DB or file access; FALSE is an error caught and logged
  Lossy         \* TRUE if a crash may roll SQLite back to its last checkpoint

ASSUME ConstantsAssumption ==
  /\ MaxId \in Nat /\ MaxTasks \in Nat \ {0} /\ SyncEvery \in Nat \ {0}
  /\ MaxLines \in Nat /\ MaxBoots \in Nat
  /\ Global \notin Instances
  /\ Outcomes \subseteq BOOLEAN
  /\ TRUE \in Outcomes
  /\ Lossy \in BOOLEAN

Ids      == 1..MaxId
Dirs     == Instances \cup {Global}
Terminal == {"completed", "error", "aborted"}
Statuses == {"running"} \cup Terminal

VARIABLES
  mem,      \* taskMap: the entry of a task, or NoEntry
  order,    \* taskOrder: ids, the next one to evict first
  db,       \* the rows of goad_tasks as the process reads them
  durable,  \* the rows as of the last WAL checkpoint
  files,    \* files[t][d]: the lines in tasks/d/t.log; empty is no file
  subs,     \* what each reader has received
  created,  \* number of createTask calls so far: the last id
  emitted,  \* emitted[t]: number of lines the task has written
  launched, \* launched[t]: completions that start the network workflow
  boots     \* number of restarts so far

vars == <<mem, order, db, durable, files, subs, created, emitted, launched, boots>>

Entry == [instance : Dirs, status : Statuses, lines : Seq(Nat), count : Nat,
          loaded : BOOLEAN, recovered : BOOLEAN]
Row   == [instance : Dirs, status : Statuses, count : Nat, recovered : BOOLEAN]
Reader == [task : Ids \cup {0}, seen : Seq(Nat),
           state : {"idle", "open", "closed", "stranded"}]

NoEntry == [absent |-> TRUE]
NoRow   == [absent |-> TRUE]
Idle    == [task |-> 0, seen |-> <<>>, state |-> "idle"]

InMemory == {t \in Ids : mem[t] # NoEntry}
Rows(d)  == {t \in Ids : d[t] # NoRow}
HasFile(t) == \E d \in Dirs : files[t][d] # <<>>

-----------------------------------------------------------------------------
(* Helpers on entries and rows.                                            *)

\* entryFromDbRow: metadata only, the lines are read when first asked for.
FromRow(r) == [instance |-> r.instance, status |-> r.status, lines |-> <<>>,
               count |-> r.count, loaded |-> FALSE, recovered |-> r.recovered]

\* Mutant of LogLines: reads the current directory only.
LogLinesCurrentOnly(t, d) == files[t][d]

\* logFileCandidates: _global first, then the directory of the current instance.
LogLines(t, d) ==
  IF d = Global THEN files[t][Global] ELSE files[t][Global] \o files[t][d]

\* Mutant of WithLines: counts one line too few, as for a trailing newline.
WithLinesShortCount(t, e, w) ==
  IF e.loaded \/ ~w THEN [e EXCEPT !.loaded = TRUE]
  ELSE [e EXCEPT !.lines = LogLines(t, e.instance),
                 !.count = Len(LogLines(t, e.instance)) - 1,
                 !.loaded = TRUE]

\* loadLinesFromFile: after a read that fails (~w) the entry keeps the lines it has
\* and counts as loaded.
WithLines(t, e, w) ==
  IF e.loaded \/ ~w THEN [e EXCEPT !.loaded = TRUE]
  ELSE [e EXCEPT !.lines = LogLines(t, e.instance),
                 !.count = Len(LogLines(t, e.instance)),
                 !.loaded = TRUE]

\* Mutant of Fetched: subscribes to a hydrated entry without reading its log.
FetchedUnloaded(t, w) ==
  IF mem[t] # NoEntry THEN mem[t]
  ELSE IF db[t] # NoRow THEN FromRow(db[t])
  ELSE NoEntry

\* hydrateTaskFromDbIfMissing followed by loadLinesFromFile: what getTask and
\* subscribeToTask work on, or NoEntry.
Fetched(t, w) ==
  IF mem[t] # NoEntry THEN WithLines(t, mem[t], w)
  ELSE IF db[t] # NoRow THEN WithLines(t, FromRow(db[t]), w)
  ELSE NoEntry

\* The change of taskMap and taskOrder made by fetching task t.
Fetch(t, w) ==
  /\ mem' = [mem EXCEPT ![t] = Fetched(t, w)]
  /\ order' = IF t \in InMemory \/ Fetched(t, w) = NoEntry THEN order ELSE Append(order, t)

\* Mutant of UpdateRow: changes memory only.
UpdateRowForgotten(t, w, r) == db' = db

\* An UPDATE ... WHERE id = t that succeeds when w, and touches no row when
\* there is none.
UpdateRow(t, w, r) == db' = IF w /\ db[t] # NoRow THEN [db EXCEPT ![t] = r] ELSE db

\* The readers attached to a task in T, after f was done to each of them.
Readers(T, f(_)) ==
  [s \in Subs |-> IF subs[s].state = "open" /\ subs[s].task \in T THEN f(subs[s]) ELSE subs[s]]

-----------------------------------------------------------------------------
Init ==
  /\ mem = [t \in Ids |-> NoEntry]
  /\ order = <<>>
  /\ db = [t \in Ids |-> NoRow]
  /\ durable = [t \in Ids |-> NoRow]
  /\ files = [t \in Ids |-> [d \in Dirs |-> <<>>]]
  /\ subs = [s \in Subs |-> Idle]
  /\ created = 0
  /\ emitted = [t \in Ids |-> 0]
  /\ launched = [t \in Ids |-> 0]
  /\ boots = 0

\* evictOldestIfNeeded, on the order o that createTask has just extended: the
\* tasks deleted and the order left.
Victims(o) == {o[k] : k \in 1..(Len(o) - MaxTasks)}

\* Mutant of Kept: keeps one task fewer than MAX_TASKS.
KeptOneFewer(o) == IF Len(o) > MaxTasks THEN SubSeq(o, Len(o) - MaxTasks + 2, Len(o)) ELSE o

Kept(o)    == IF Len(o) > MaxTasks THEN SubSeq(o, Len(o) - MaxTasks + 1, Len(o)) ELSE o

\* Mutant of Unlinked: forgets the file written before the task was linked.
UnlinkedCurrentOnly(u) == [files[u] EXCEPT ![mem[u].instance] = <<>>]

\* The log files of a victim after the unlinks: those of its present candidates.
Unlinked(u) == [files[u] EXCEPT ![Global] = <<>>, ![mem[u].instance] = <<>>]

\* A reader of a victim stays in the subscriber sets of an entry nobody can
\* reach any more: it hears neither a line nor the end.
Strand(r) == [r EXCEPT !.state = "stranded"]

\* createTask: INSERT (an error is logged), new entry, evict, notify.  A
\* DELETE that fails skips the files of its victim.
CreateTask(i, w) ==
  LET t == created + 1
      o == Append(order, t)
      row == [instance |-> i, status |-> "running", count |-> 0, recovered |-> FALSE]
  IN /\ created < MaxId
     /\ \E kept \in SUBSET Victims(o) :
          /\ kept # {} => FALSE \in Outcomes
          /\ db' = [u \in Ids |-> IF u = t THEN (IF w THEN row ELSE NoRow)
                                  ELSE IF u \in Victims(o) \ kept THEN NoRow ELSE db[u]]
          /\ files' = [u \in Ids |-> IF u \in Victims(o) \ kept THEN Unlinked(u) ELSE files[u]]
     /\ mem' = [u \in Ids |-> IF u = t THEN [FromRow(row) EXCEPT !.loaded = TRUE]
                              ELSE IF u \in Victims(o) THEN NoEntry ELSE mem[u]]
     /\ order' = Kept(o)
     /\ subs' = Readers(Victims(o), Strand)
     /\ created' = t
     /\ UNCHANGED <<durable, emitted, launched, boots>>

\* appendLine: a no-op for an unknown task; whatever the status otherwise.
AppendLine(t, w) ==
  LET l == emitted[t] + 1
      e == [mem[t] EXCEPT !.lines = Append(@, l), !.count = @ + 1]
  IN /\ t \in InMemory
     /\ emitted[t] < MaxLines
     /\ mem' = [mem EXCEPT ![t] = e]
     /\ files' = IF w THEN [files EXCEPT ![t][e.instance] = Append(@, l)] ELSE files
     /\ UpdateRow(t, w /\ e.count % SyncEvery = 0, [db[t] EXCEPT !.count = e.count])
     /\ subs' = Readers({t}, LAMBDA r : [r EXCEPT !.seen = Append(@, l)])
     /\ emitted' = [emitted EXCEPT ![t] = l]
     /\ UNCHANGED <<order, durable, created, launched, boots>>

\* Mutant of MayEnd: any later call overwrites the status.
MayEndAlways(now, st) == TRUE

\* The guard of completeTask: a task ends once, and only an abort is revised,
\* to an error.
MayEnd(now, st) == now = "running" \/ (now = "aborted" /\ st = "error")

\* What completeTask does to each subscriber.
Close(r) == [r EXCEPT !.state = "closed"]

\* completeTask (abortTask is completeTask with "aborted"): status, row, close
\* and drop every subscriber, start the network workflow, which goes on only
\* for a completed task.
CompleteTask(t, st, w) ==
  /\ t \in InMemory
  /\ MayEnd(mem[t].status, st)
  /\ mem' = [mem EXCEPT ![t].status = st]
  /\ UpdateRow(t, w, [db[t] EXCEPT !.status = st, !.count = mem[t].count])
  /\ subs' = Readers({t}, Close)
  /\ launched' = IF st = "completed" THEN [launched EXCEPT ![t] = @ + 1] ELSE launched
  /\ UNCHANGED <<order, durable, files, created, emitted, boots>>

\* updateTaskInstance: lines written before stay where they are.
LinkInstance(t, i, w) ==
  /\ t \in InMemory
  /\ mem' = [mem EXCEPT ![t].instance = i]
  /\ UpdateRow(t, w, [db[t] EXCEPT !.instance = i])
  /\ UNCHANGED <<order, durable, files, subs, created, emitted, launched, boots>>

\* getTask
GetTask(t, w) ==
  /\ Fetched(t, w) # NoEntry
  /\ Fetch(t, w)
  /\ UNCHANGED <<db, durable, files, subs, created, emitted, launched, boots>>

\* subscribeToTask: replay, then stay attached only while the task runs.
Subscribe(s, t, w) ==
  LET e == Fetched(t, w)
  IN /\ subs[s].state = "idle"
     /\ t <= created
     /\ Fetch(t, w)
     /\ subs' = [subs EXCEPT ![s] =
          IF e = NoEntry THEN [task |-> t, seen |-> <<>>, state |-> "closed"]
          ELSE [task |-> t, seen |-> e.lines,
                state |-> IF e.status = "running" THEN "open" ELSE "closed"]]
     /\ UNCHANGED <<db, durable, files, created, emitted, launched, boots>>

\* The function subscribeToTask returned: the reader went away.
Unsubscribe(s) ==
  /\ subs[s].state # "idle"
  /\ subs' = [subs EXCEPT ![s] = Idle]
  /\ UNCHANGED <<mem, order, db, durable, files, created, emitted, launched, boots>>

\* SQLite moves the WAL into the database file, at a time of its own choosing.
Checkpoint ==
  /\ Lossy
  /\ durable' = db
  /\ UNCHANGED <<mem, order, db, files, subs, created, emitted, launched, boots>>

-----------------------------------------------------------------------------
(* hydrateFromDb, run when the module is imported.                         *)

\* Mutant of Interrupted: interrupted tasks stay running.
InterruptedIgnored(d) == d

\* UPDATE goad_tasks SET status = 'error' ... WHERE status = 'running'
Interrupted(d) ==
  [t \in Ids |-> IF d[t] # NoRow /\ d[t].status = "running"
                 THEN [d[t] EXCEPT !.status = "error"] ELSE d[t]]

\* SELECT ... ORDER BY started_at ASC LIMIT MAX_TASKS
Selected(d) == {t \in Rows(d) : Cardinality({u \in Rows(d) : u < t}) < MaxTasks}

\* The sequences that list each element of S once.
Listings(S) == {q \in [1..Cardinality(S) -> S] : \A j, k \in 1..Cardinality(S) : j # k => q[j] # q[k]}
Ascending(q) == \A j, k \in DOMAIN q : j < k => q[j] < q[k]

\* The entry and row made for a log file found in directory d whose task is
\* not in memory.
Recovered(t, d) == [instance |-> d, status |-> "error", count |-> Len(files[t][d]),
                    recovered |-> TRUE]

\* The orders in which readdir may list the log directories.
DirOrders == {f \in [Dirs -> 1..Cardinality(Dirs)] : \A d, e \in Dirs : d # e => f[d] # f[e]}

\* The scan of the log directories in the order pos: an orphan is recovered from
\* the first directory that holds a log of it, and q lists the orphans as met.
Scanned(orphans, pos, dir, q) ==
  /\ \A t \in orphans : files[t][dir[t]] # <<>>
  /\ \A t \in orphans, e \in Dirs : files[t][e] # <<>> => pos[dir[t]] <= pos[e]
  /\ \A j, k \in DOMAIN q : j < k => \/ pos[dir[q[j]]] < pos[dir[q[k]]]
                                     \/ dir[q[j]] = dir[q[k]] /\ q[j] < q[k]

\* Mutant of Orphans: a log whose task has a row is passed over.
OrphansWithoutRow(d) == {t \in Ids : HasFile(t)} \ Rows(d)

\* Mutant of Orphans: the directories of the instances are not scanned.
OrphansUnlinked(d) == {t \in Ids : files[t][Global] # <<>>} \ Selected(d)

\* The logs of tasks that are not in memory.  (A directory or a log that cannot be
\* read is left out.)
Orphans(d) == {t \in Ids : HasFile(t)} \ Selected(d)

\* The map and the table after hydrating from the rows d and the orphans, of which
\* those in unsaved could not be inserted.
Hydrate(d, orphans, dir, unsaved) ==
  /\ mem' = [t \in Ids |-> IF t \in Selected(d) THEN FromRow(d[t])
                           ELSE IF t \in orphans THEN FromRow(Recovered(t, dir[t]))
                           ELSE NoEntry]
  /\ db' = [t \in Ids |-> IF t \in orphans \ unsaved /\ d[t] = NoRow
                          THEN Recovered(t, dir[t]) ELSE d[t]]

\* The process ends and a new one starts on the rows and files it finds: a log
\* whose task was not selected is an orphan, and goes after the selected ones.
Restart(base) ==
  LET d == Interrupted(base)
      orphans == Orphans(d)
  IN /\ boots < MaxBoots
     /\ boots' = boots + 1
     /\ \E pos \in DirOrders, dir \in [orphans -> Dirs], unsaved \in SUBSET orphans,
           p \in Listings(Selected(d)), q \in Listings(orphans) :
          /\ unsaved # {} => FALSE \in Outcomes
          /\ Ascending(p)
          /\ Scanned(orphans, pos, dir, q)
          /\ Hydrate(d, orphans, dir, unsaved)
          /\ order' = p \o q
     /\ subs' = [s \in Subs |-> Idle]
     /\ UNCHANGED <<durable, files, created, emitted, launched>>

\* A restart that finds every committed row, and one after a power loss.
Reboot    == Restart(db)
PowerLoss == Lossy /\ Restart(durable)

Next ==
  \/ \E i \in Dirs, w \in Outcomes : CreateTask(i, w)
  \/ \E t \in Ids, w \in Outcomes : AppendLine(t, w)
  \/ \E t \in Ids, st \in Terminal, w \in Outcomes : CompleteTask(t, st, w)
  \/ \E t \in Ids, i \in Instances, w \in Outcomes : LinkInstance(t, i, w)
  \/ \E t \in Ids, w \in Outcomes : GetTask(t, w)
  \/ \E s \in Subs, t \in Ids, w \in Outcomes : Subscribe(s, t, w)
  \/ \E s \in Subs : Unsubscribe(s)
  \/ Checkpoint
  \/ Reboot
  \/ PowerLoss

Spec == Init /\ [][Next]_vars
-----------------------------------------------------------------------------
(* Properties.                                                             *)

\* Every variable has the type its comment gives; the memory of the store and
\* its eviction list name only tasks that were created.
TypeOK ==
  /\ mem \in [Ids -> Entry \cup {NoEntry}]
  /\ order \in Seq(Ids)
  /\ db \in [Ids -> Row \cup {NoRow}]
  /\ durable \in [Ids -> Row \cup {NoRow}]
  /\ files \in [Ids -> [Dirs -> Seq(Nat)]]
  /\ subs \in [Subs -> Reader]
  /\ created \in 0..MaxId
  /\ emitted \in [Ids -> Nat]
  /\ launched \in [Ids -> Nat]
  /\ boots \in 0..MaxBoots

\* subscribeToTask, appendLine, completeTask: a reader still attached has
\* received exactly the lines of its task, each once and in order, and its
\* task is still running: the replay and the live lines join without a gap or
\* a repetition whatever was called in between.
LiveReader ==
  \A s \in Subs : subs[s].state = "open" =>
    LET t == subs[s].task
    IN /\ t \in InMemory
       /\ mem[t].status = "running"
       /\ mem[t].loaded
       /\ subs[s].seen = mem[t].lines

\* loadLinesFromFile: an entry whose lines are loaded holds every line the
\* task ever wrote, in order, also after a restart and after a link moved the
\* log to another directory.
ReplayComplete ==
  \A t \in InMemory : mem[t].loaded => mem[t].lines = [k \in 1..emitted[t] |-> k]

\* createTask, completeTask, updateTaskInstance, evictOldestIfNeeded,
\* hydrateFromDb: the map and the table hold the same tasks and agree on
\* status and instance.
RowsMatchMemory ==
  /\ Rows(db) = InMemory
  /\ \A t \in InMemory : /\ db[t].status = mem[t].status
                         /\ db[t].instance = mem[t].instance
                         /\ db[t].recovered = mem[t].recovered

\* evictOldestIfNeeded: a task that was evicted leaves no log file, so no later
\* restart brings it back.
EvictionLeavesNoLog == \A t \in Ids : t \notin Rows(db) => ~HasFile(t)

\* createTask, hydrateFromDb: the store holds the most recent tasks, up to
\* MaxTasks, oldest first.
RetainsNewest ==
  /\ InMemory = {order[k] : k \in DOMAIN order}
  /\ Len(order) = IF created < MaxTasks THEN created ELSE MaxTasks
  /\ \A k \in DOMAIN order : order[k] = created - Len(order) + k

\* The life of task t as getTask shows it.
Life(t) == IF t > created THEN "none"
           ELSE IF mem[t] # NoEntry THEN mem[t].status
           ELSE IF db[t] # NoRow THEN db[t].status
           ELSE "gone"

Lifecycle == INSTANCE TaskLifecycle WITH status <- [t \in Ids |-> Life(t)]

\* completeTask with its guard, hydrateFromDb: a task ends once, stays ended
\* over restarts, and only an abort is ever revised.
ImplementsLifecycle == Lifecycle!Spec

Survival == INSTANCE TaskSurvival WITH status <- [t \in Ids |-> Life(t)]

\* hydrateFromDb after a power loss: a forgotten end never lets a task run again,
\* and a task that was running is never made a success.
SurvivesPowerLoss == Survival!Survives

\* completeTask: the network workflow of a task starts at most once, also when
\* a power loss made the store forget that the task had completed.
LaunchedAtMostOnce == \A t \in Ids : launched[t] <= 1

\* hydrateFromDb, the scan of the log directories: after a restart every task
\* that left a log is known again, whatever became of its row: lost with a power
\* loss, beyond the LIMIT, or never written, be it at the creation or at an earlier
\* recovery.
RestartFindsEveryLog ==
  [][boots' # boots => \A t \in Ids : HasFile(t) => mem'[t] # NoEntry]_vars

=============================================================================
