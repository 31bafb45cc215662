# Formal models of LUX (ludus-ux)

LUX is a web interface (Next.js, TypeScript) for the Ludus cyber-range platform. Most of it
renders pages and forwards requests; what can go wrong in ways a test seldom reaches is the
part that keeps *state of its own* between requests: long GOAD deployments that run over SSH
while browsers come and go, the workspaces and firewall rules that must find their user and
range after such a deployment, testing-mode operations that poll Ludus until it agrees, and
in-process caches that are refilled in the background.

This directory holds TLA+ models of that part, the TLC configurations that check them on small
instances, and TLAPS proofs of the main safety properties for every value of the constants.
Paths below are relative to the repository root, which is `src/`; so `src/src/lib/goad` is the
directory `src/lib/goad` of LUX.

    tlc -workers 2 -config GoadTaskStore_readers.cfg MCGoadTaskStore    # model-check a run
    tlapm GoadTaskStore_proofs.tla                                      # check the proofs

Contents: 1 the system, 2 the modules, 3 the runs, 4 the proofs, 5 what the code does not keep,
6 observations without a run, 7 limits of the models, 8 what is not modelled and why.

## 1. The system and its components

One Node.js process serves every user. JavaScript runs one stretch of code at a time, so two
requests interleave only where one of them awaits (a fetch, an SSH event, a timer). State that
must survive a restart lives in SQLite (`better-sqlite3`, synchronous, WAL mode) and in files;
the rest is in memory. Three other parties change the world meanwhile: Ludus (with its
PocketBase), the GOAD command on the Ludus host, and browsers with any number of tabs.

```
 browser tabs ──HTTP/SSE──► API routes ──► GOAD task store ──► SQLite rows + log files
     │                         │  ▲  └──► execute / stop ──SSH──► goad.sh on the Ludus host
     │                         │  └ events (onClose, onError, lines)
     │                         ├──► pending rules: handoff row + file per instance
     │                         ├──► deploy linkage: loops that list, hand over and link
     │                         ├──► testing-mode operations ──► Ludus, PocketBase, logs
     └─ pages (server render) ─┴──► SWR caches ──► Ludus
```

### Modelled

**GOAD task store** (`src/src/lib/goad/goad-task-store.ts`).
*State:* a map of tasks in memory (status, line buffer, subscribers), the eviction order, the
table `goad_tasks`, one log file per task and directory.
*Operations:* create, append a line, complete or abort, link to an instance, get, subscribe,
unsubscribe, evict the oldest, hydrate when the process starts.
*Used by:* the execute and stop routes write; SSE routes and pages read; `completeTask` starts
the network workflow.
*Hard:* readers attach while lines arrive and the task ends; a restart keeps rows and files but
not memory; SQLite may lose its latest transactions at a power loss while log files keep
theirs; every write may fail and is then only logged; eviction must clean up in three places.
*Correct when:* a reader sees every line once and in order; memory, rows and logs agree; the
newest tasks are kept; a task ends once and stays ended; the workflow starts at most once.

**GOAD execution and stop** (`execute/route.ts`, `goad-ssh.ts`, `tasks/[taskId]/stop/route.ts`,
`task-cleanup-registry.ts`, `goad-task-outcome.ts`).
*State:* one SSH connection with its channels, a registry of cleanup functions, the remote
process, the task's status.
*Operations:* prepare, connect, write an environment file, run one or two PTY sessions, judge
the log at the close, report an error, stop.
*Hard:* Stop may come at any moment, twice, with a 600 ms timer; GOAD's REPL exits 0 after an
error; three callers report the end of one task in any order; the cleanup is registered after
an await; a connection may end without an error event.
*Correct when:* an interrupted or failed command is never shown as completed, and one shown as
completed has run to its end; the registry holds no dead cleanup; the task ends.

**Firewall rules after a deployment** (`goad-pending-network-workflow.ts`,
`goad-pending-network-fs.ts`, `goad-deploy-handoff-store.ts`, their routes, the wizard and the
instance page).
*State:* the rules of a wizard deployment in two copies (handoff row, file per instance), the
range configuration at Ludus, the progress of each workflow and tab.
*Operations:* hand off, execute, link, store the file, take it (read and unlink), fall back to
the handoff, write the configuration, deploy the network tag, discard.
*Hard:* the workflow and any number of tabs reach for one file between awaits; a tab may be
closed after it took the file; another operator may replace the file; a restart loses workflows.
*Correct when:* rules leave the file once, are never applied for another operator, and those of
a completed task reach the range if nobody has applied or discarded them.

**Server-side caches** (`server-cache.ts`, used by `admin-data.ts`, `admin-range-vms-cache.ts`,
`server-prefetch.ts`, `ludus-swr-invalidate.ts`).
*State:* entries with a time of their own, a set of "revalidation under way" flags; the VM
inventory is built from another cache.
*Operations:* `peek`, `get`, background revalidation, `invalidate`, refresh.
*Hard:* a fetch that began before an invalidation ends after it; an error of Ludus is a value, and
the empty lists made of it are cached; fetchers may reject as well; a stale or empty lower layer
feeds an upper one, and Next's own cache lies below the prefetch.
*Correct when:* a flag is never left behind, peeks share one fetch, a refresh is fresh or empty,
and once Ludus fails no more every cache comes to agree with it.

**Testing-mode operations** (`range-op-store.ts`, `api/range/ops/route.ts`,
`testing-mode-pb-reconcile.ts`).
*State:* rows pending, running, completed or error with a marker in the Ansible log; a set of
operations whose automatic second stop was sent; PocketBase's flag; each request's progress.
*Operations:* post (supersedes the one in progress), mark the log, ask Ludus and wait, poll,
dismiss, check for completion, patch PocketBase, time out, stop once more, expire.
*Hard:* a POST works on its row for minutes while polls check, dismiss or supersede it;
completion is inferred from three sources that lag, fail or tell of an earlier run; the check
itself changes one of them.
*Correct when:* a success has a cause (or one known way to mislead the log), an older operation in
progress has been ended before, an ended one is only set back by its own request, a stop is
repeated once, and the page is released after 20 minutes.

**GOAD deploy linkage** (`goad-deploy-link.ts`, `goad-instance-range-store.ts`, the execute,
`set-range`, `link-instance` and `deploy-handoff` routes, `goad-instance-access.ts`).
*State:* the owner and the range file of each workspace on the host, the local row, the snapshot
and the progress of one background loop per deployment, the instance of each task.
*Operations:* snapshot, list, judge the owner, wait, hand over (chown), write the range file,
record the row and link the task; the same by the page, for its user or by an administrator.
*Hard:* every decision uses a listing taken earlier, which may leave out directories or owners; a
command may fail, or be told as the opposite of what it did; two deployments wait at once;
hand-over must not hit a GOAD that still writes; a restart loses the loops.
*Correct when:* nobody gets another user's workspace, a deployment never loses sight of its own,
a row has its file, and every loop ends.

Everything else is listed with its reason in section 8.

The file `PROJECT.json` lists the same components with their sources, the hazards at their
lines, the map from definitions to source lines, and the runs, mutants, findings and theorems.

## 2. The modules

| Module | What it is |
|---|---|
| `TaskLifecycle` | abstract specification: what the store promises about a task's status |
| `TaskSurvival` | abstract specification: what is left of that promise when power may be lost |
| `RangeOpLifecycle` | abstract specification: what the table of testing operations promises |
| `WorkspaceOwnership` | abstract specification: whose a workspace is, and what its range file names |
| `GoadTaskStore`, `MCGoadTaskStore` | the store; its instances for TLC |
| `GoadExecute`, `MCGoadExecute` | one command from `createTask` to its end, with Stop |
| `PendingNetwork`, `MCPendingNetwork` | rules of several deployments on one instance |
| `SWRCache` | three caches, two of them layered |
| `TestingOps`, `MCTestingOps` | testing-mode operations of one range |
| `DeployLink`, `MCDeployLink` | loops and page requests that link workspaces to ranges |
| `*_proofs` | theorems about the module named |
| `GoadTaskStore_retained_proofs` | more about the store: theorems on what the store retains, and that it implements `TaskLifecycle` |

In every module a definition named after its bug (`KeptOneFewer`, `BypassedOne`, ...) stands
before the one it varies, marked "Mutant of": with it in place of the real definition the
property `PROJECT.json` names for it fails. They are not part of any specification.

### GoadTaskStore

All operations of the file are synchronous, so each is one action; the interleaving is the order
of the calls. A task id is its position of creation, a line is its serial number within the
task, so that a lost, repeated or reordered line shows.

| Variable | Code |
|---|---|
| `mem`, `order` | `taskMap`, `taskOrder` |
| `db`, `durable` | the rows the process reads; the rows at the last WAL checkpoint |
| `files` | `tasks/<instance or _global>/<id>.log` |
| `subs` | what each SSE reader has received; `stranded` is a reader of an evicted task |
| `emitted`, `launched` | ghost: lines written, workflows started |

`CreateTask` includes the eviction, `CompleteTask` the closing of subscribers and the start of
the workflow, `GetTask` and `Subscribe` the hydration from the row and the reading of the log.
`Reboot` and `PowerLoss` are the end of the process followed by `hydrateFromDb`, including the
scan for logs without a row; a power loss starts from `durable`. `Outcomes` says how an access to
the table or to a log may turn out: with `FALSE` in it any write may fail, and any reading of a log
file, which then yields no lines. `unsaved` are the logs whose row the restart could not insert.

### GoadExecute

`stage` is how far `streamGoadCommand` has come; `split` is a command in two sessions, of which
`sessions` have been opened; `host` and `fate` are the remote process; `registry` and `ending` are
the cleanup and its timer. `failure` and `interrupt` are what the output shows; a command that
gets Ctrl+C (history: `ctrlC`) may print `KeyboardInterrupt` or swallow the signal. A command may
outlive its connection (`LeftBehindEnds`). `Ended` is the guard of `completeTask`, `Verdict` is
`onClose`. The variable `silent` is chosen at the start and never changes: it says whether the
connection may go away without an error event. Properties that need every failure to be reported
assume `~silent`; the findings do not.

### PendingNetwork

One action is one stretch of server code between awaits, or one request of a browser. `dep` is
the handoff and the task of a deployment, `file` the snapshot of the instance, `wf` and `page`
the two consumers, `config` the rules at Ludus. `WfStart` runs from `completeTask` to the first
await: link check, take, owner check, fallback. `flaky`, chosen at the start, says whether
requests to Ludus may fail. `Due` are the rules that a completed, linked deployment still has to
get: nobody has applied them, and nobody has discarded them (history: `discarded`).

### SWRCache

Ludus data are versions: `truth` is the current one, `Nothing` the empty lists that every fetcher
makes of an error, which are stored like any other data. `entries` and `inflight` are the two
fields of `SWRCache`; `fetch` holds the fetches under way with the version their request saw.
`admin` and `vms` are read with `get`, `prefetch` only with `peek`. The inventory reads the admin
data first, from their cache or, when cold, from Ludus, which is the stage `admin`. A fetch for
`prefetch` asks Next's cache, `layer2`, which answers with what it has, stale or not, and
refreshes it afterwards; a revalidated tag makes its entry stale and does not drop it. `Fail` is a
fetcher that rejects, which an error of Ludus does not cause. A read that changes nothing is no
action. `Mutate` and `Invalidate` are the two ends of a proxied request.

### TestingOps

An operation is its position of creation. One action is one stretch between awaits: `Post`,
`Mark`, `Returns` or `Refused` are the request that creates an operation, the actions of
`CheckStep` are `checkCompletion`, run by that request (`at["post"]`) or by a poll
(`at["poll"]`).

| Variable | Code |
|---|---|
| `kind`, `status`, `age` | the row in `range_ops`; ages are under 4 minutes, from 4, over 20 |
| `since` | the log after the row's marker: the newest clean recap, the kinds of job without one whose text lies in the window around it, and of those after the last recap |
| `stage`, `at`, `sawOn` | what the POST, or a check, waits for; what PocketBase told the check |
| `retried` | `testingStopRetriedOpIds` |
| `testing`, `pb` | the range's mode; PocketBase's `testingEnabled` |
| `settled`, `backed`, `misled`, `stops` | history: ended before; had a cause to succeed; proved by a job without a clean recap; automatic stops |

The proof of a success is looked for in the text from the recap before the newest clean one to the
end of the log (`recapRunWindow`, cut open at its end), so the text of a job that failed, was killed
or still runs passes for it: `Shows` is that search, `JobWrites` such a job.

Ludus's jobs, its deployments, the lag of PocketBase and the clock are external actions that may
happen at any moment. `Returns` sets the row to running whatever it says by then, as the code does.

### DeployLink

| Variable | Code |
|---|---|
| `owner`, `file` | a workspace's directory and its `.goad_range_id` on the host |
| `row` | `goad_instance_ranges` |
| `job`, `inst` | status and instance of the deployment's task |
| `made` | the workspace the deployment's GOAD made |
| `before`, `ws`, `listed` | in the loop: the ids it leaves alone, the one it works on, its owner as listed |
| `at` | what the loop, or the page's request, waits for |
| `origin`, `reassigned`, `unheard` | history: who a workspace was made for; handed over by an administrator; its file not written though the command counted as done |

`Execute` is the end of the execute route, where the snapshot is taken and the loop starts;
`List` to `GiveUp` are the loop's rounds; `SetRange` and `PageLinks` are the page's two requests,
neither of which waits for the other; `Chown`, `Write` and `Record` are shared by both, as in the
code. Whether a command is done and whether it is told as a success are chosen independently:
the answer may be lost, and `sshExec` takes a channel closed without an exit code for exit code 0. A
snapshot is any set of the directories there are, and a round's listing may leave out any. Which of
several new workspaces a loop picks is left open, since that depends on what the listing shows.

### Abstraction and refinement

`TaskLifecycle` says that a task goes from none to running, ends once, is never reopened, may
only be revised from aborted to error, and may be forgotten. `GoadTaskStore` implements it under
`status[t] <- Life(t)`, the status `getTask` would show (memory first, then the row): the run
`store_retention` checks it and `StoreImplementsLifecycle` proves it.

`TaskSurvival` extends it by restarts that may forget: a verdict may change, a task may vanish or
an evicted one come back, but nothing runs across a restart, nothing is made to run again, and a
task that was running never becomes a success. The same `Life(t)` maps the store to it
(`SurvivesPowerLoss`), now with power losses and tasks linked any number of times.

`RangeOpLifecycle` has two variables: the status of each operation and whether the request that
posted it may still return. A POST ends the newest operation in progress; what has ended stays
ended, except that its own request, once, may set it back to running. `TestingOps` implements it
with the status of the row, and `waits[o]` when the request of o is in some stage
(`ImplementsRangeOps`).

`WorkspaceOwnership` keeps the accounts and the range files, and forgets loops, listings,
snapshots, deadlines and rows. A workspace is claimed by the user it was made for, or by anyone
when it was made for the host's account; one made for root, or for anyone else, stays; an
administrator reassigns any; a file is written with a range of whoever owns the workspace at that
moment. `DeployLink` implements it with its own variables of these names
(`ImplementsOwnership`): the old listings and the time between a decision and its command are
what the mapping shows to be harmless.

## 3. The runs

A *passing* run explores every state of its instance. Under "shows" are the properties and what
they mean; the comment above each property in its module names the code.

| Run | Instance | Shows |
|---|---|---|
| `store_readers` | 2 tasks of 2 lines, 1 slot, 1 reader, every access may fail, 1 restart (1.4 million states) | `TypeOK`; `LiveReader`: a replayed line and a live one join without gap or repetition; `RestartFindsEveryLog` when the row of a recovered log cannot be inserted |
| `store_retention` | 3 tasks, 2 slots, 1 instance, 2 lines, 2 restarts, no failures (0.35 million) | `RowsMatchMemory`, `EvictionLeavesNoLog`, `RetainsNewest`, `ReplayComplete`, `ImplementsLifecycle` |
| `store_power_loss` | 2 tasks, 1 slot, 1 reader, 2 lines, one restart or power loss (0.25 million) | `LaunchedAtMostOnce`: a forgotten completion is not acted on twice; `RestartFindsEveryLog`; `SurvivesPowerLoss` |
| `execute_ends` | 1 or 2 sessions, 2 stops, signals, silent or reported failures (1571) | `CleanupIsLive`, `InterruptedNotCompleted`, `FailureNotCompleted`, `CompletedRanToEnd`, `TaskEnds` (liveness) |
| `pending_rules` | 2 deployments, 2 operators, 1 tab, discards, flaky or not, 1 restart (1.1 million) | `TakenOnce`, `OwnRulesOnly`, `RulesReachRange` (liveness) |
| `cache_converge` | 3 caches, 2 fetches at a time, 2 versions (51 thousand) | `FlagHasFetch`, `OneRevalidation`, `RefreshIsFresh`, `Converges` (liveness) |
| `testing_races` | 2 operations, 2 requests served at a time (3.2 million) | `OneInProgress`, `OneAutomaticStop`, `ImplementsRangeOps` |
| `testing_timeout` | 1 operation, 1 restart, jobs without a clean recap, polls go on (0.4 million) | `SuccessIsReal`, `TimedOutSettles` (liveness) |
| `deploy_links` | 2 deployments of 2 users, 1 directory, a page, an administrator, 1 restart (0.64 million) | `ThirdPartyUntouched`, `OwnNeverPassedOver`, `RowHasFile`, `ImplementsOwnership`, `LinkageEnds` (liveness) |

Each component's `TypeOK` is in one of its runs. Three further runs each check one statement of the
source that the code does not keep; section 5.

### Bounds, and why they are enough

- **Store.** One slot and two tasks, or two slots and three, force evictions, of an ended task
  and of a running one. Two lines let a line be lost, repeated or swapped, and let a log be split
  between `_global` and an instance by a link in the middle, or be replayed in part before the rest
  arrives live. `SyncEvery` is 2 instead of 50: the line count is written on some lines and not on
  others. The run with failing accesses has no instance, since a reader does not care where the
  log lies. One reader suffices because readers
  do not affect one another. One instance suffices besides `_global`; a link to a second one
  loses lines, see section 6. Two restarts show a task that was interrupted, recovered and
  found again. `MaxBoots` and `MaxLines` bound guards of the model only.
- **Execute.** A command has at most two sessions in the code. Two stop requests are a Stop and a
  late second one, or an abort and its revision to an error; a third finds nothing new to do.
  `Signals = TRUE` lets the remote shell die of a signal, of which the channel reports no code.
- **Rules.** Two deployments on an instance are one operator's rules against another's, or a new
  file against an old task. One tab may be closed and opened any number of times, so it plays
  several tabs in turn; `RulesTakenOnce` is proved for any number at once.
- **Caches.** Two fetches are enough for an older and a newer one of the same cache, or one of
  each layer. Two versions are before and after a change.
- **Testing operations.** Two operations are one that is superseded and its successor, of the same
  kind or of the other. Two requests are a POST that still waits and a poll, two POSTs, or the end
  of a superseded one beside the check of the new. The other run has a restart and jobs that end
  without a clean recap (`Unclean`) instead of the second operation; `SuccessesAreReal` is proved
  for any number of operations with both. A row expires at 30 minutes only when no request of its
  own is in flight, since the longest of them waits five. The 10-second minimum age before a poll
  reads the log and the 2-second gaps between the checks of a POST are left out: they only delay.
- **Linkage.** One directory that two deployments, a person at the host and a page contest is
  where the owner check and the snapshot matter: the loser must leave it alone although it was
  listed without an owner. Who runs GOAD by hand there (`Others`) is the host account or root, the
  two accounts that the rules treat apart; users make directories by deploying. With one
  directory a page never links its task to another one than the loop works on, and no loop has a
  choice; with two the instance has tens of millions of states, so for these cases there are the
  theorems, which hold for any number. The deadline may be over whenever the code looks.

Deadlock is checked where the system never stops by itself: the caches, the testing operations,
and the execution, where `Finished` marks the only end. It is not checked for the store, the
rules and the linkage, whose instances really come to an end when their bounds are used up and
no reader, tab or loop is left to act.

### Fairness, and why the code justifies it

- `GoadExecute`: weak fairness of `Progress`. Preparations are awaited requests that settle, the
  SSH library answers every request or reports an error (`readyTimeout`, `keepaliveInterval`), and
  the remote command of an open session ends. The last is an assumption on GOAD:
  `goad-task-store.ts:425-427` says that it can spin for ever after a range error, which is why
  the store stops such a task; a command that spins for any other reason keeps its task running
  until a Stop. Nothing is assumed of Stop, nor of a command whose connection is gone.
- `PendingNetwork`: weak fairness of each workflow: its requests are answered and its waits have
  time-outs. Nothing is assumed of browsers, operators, GOAD or restarts. `RulesReachRange`
  excuses the cases in which something else touched the configuration (`Disturbed`).
- `SWRCache`: pages go on being read, entries age, every request ends, fetchers do not reject for
  ever, and Ludus fails finitely often, since each failure leaves empty data for a whole TTL. The
  strong fairness of the reads replaces the bound on `Fetches`: in the code a read is never
  refused, in the model it waits for a free slot.
- `TestingOps`: the page polls as long as it shows an operation in progress
  (`WF PollOp`), and the requests of a check are answered or time out (`WF CheckStep`). Nothing is
  asked of POSTs, of Ludus or of time: the property begins when the 20 minutes are over.
- `DeployLink`: loops go on, commands answer or fail, the task of a deployment ends (that is
  `TaskEnds` of `GoadExecute`; where that fails, section 5, a loop that holds a host directory
  waits with it), and the deadline is over some time, which is strong fairness of `GiveUp` since
  the loop passes the place again and again.
- `GoadTaskStore`: none; only safety is stated.

## 4. The proofs

Every theorem holds for all values of the constants that satisfy `ConstantsAssumption`, the named
assumption each module makes. Hypotheses beyond it are in the statement:

- `RulesTakenOnce`: unlinks succeed.
- `WorkflowsLaunchOnce`, `TasksSurvivePowerLoss`: accesses to the table and the logs succeed
  (`Outcomes = {TRUE}`); power may be lost.
- `EndsAreReported`: for executions whose failures are reported (`~silent`).
- `StopsWorkUnlessPtyOpensLater`: failures are reported and no PTY opens after a stop request.
- `OnlyLateAnswersAreStale`: when a mutation empties the caches, no fetch of a VM list holds an
  answer from before it (`NoneOutdated`).
- `UndisturbedRulesDeployed`, of one deployment: its rules are due (`Due`: linked, neither applied
  nor discarded), requests to Ludus do not fail, nothing else
  touches the configuration while its workflow is under way (`Undisturbed`), and no restart cuts
  the workflow short (`NotCutShort`). These are the excuses of `RulesReachRange`.
- the theorems of `GoadTaskStore_retained_proofs`: writes succeed and no power is lost
  (`Reliable`), and a task is given an instance only while it has none (`LinkedOnce`, the
  step condition of `RetainingSpec`). The store does not refuse a second link; it takes an
  operator who asks for one, or a page and a linkage loop that name different workspaces, and then
  the properties fail (section 6).

| Theorem | Statement | Inductive invariant |
|---|---|---|
| `TypeCorrect` | store: `[]TypeOK` | `TypeOK` itself; needs that `Listings` are sequences and evicting keeps one |
| `ReadersSeeEveryLine` | store: `[]LiveReader` | `ReaderInv`: `TypeOK`, `OnlyCreated`, `LiveReader` |
| `WorkflowsLaunchOnce` | store: `[]LaunchedAtMostOnce` | `LaunchInv`: `StartedByEnded` for every task |
| `RestartsFindEveryLog` | store: `RestartFindsEveryLog` | `TypeOK`; a lemma on the result of hydration |
| `TasksSurvivePowerLoss` | store: `SurvivesPowerLoss` | `SurvivalInv`: `TypeOK`, `OnlyCreated`, `RowsKnowNoEnd` for every task |
| `OrderIsExact` | store: the eviction order lists the tasks in memory, each once | `OrderInv`: `TypeOK`, `OnlyCreated`, `OrderListsMemory` |
| `CreationsBoundMemory` | store: no `createTask` leaves more than `MaxTasks` tasks in memory | `OrderInv` |
| `RowsAlwaysMatch`, `EvictedLeaveNoLog`, `NewestAreRetained`, `ReplaysAreComplete` | retained: `[]RowsMatchMemory`, `[]EvictionLeavesNoLog`, `[]RetainsNewest`, `[]ReplayComplete` | `RetainedInv`: `Consistent` for every task, `RetainsNewest` |
| `StoreImplementsLifecycle` | retained: `ImplementsLifecycle` | `RetainedInv` |
| `ExecuteTypeCorrect` | execute: `[]TypeOK` | `IInv`: `TypeOK`, `EndedFirst`, `Registered`, `RanToEnd` |
| `InterruptedNeverCompletes`, `FailedNeverCompletes` | execute: `[]InterruptedNotCompleted`, `[]FailureNotCompleted` | `IInv`, its part `EndedFirst` |
| `CleanupsAreLive` | execute: `[]CleanupIsLive` | `IInv`, its part `Registered` |
| `CompletedTasksRanToEnd` | execute: `[]CompletedRanToEnd` | `IInv`, its part `RanToEnd` |
| `EndsAreReported` | execute, `~silent`: an execution that is over has not left its task running | `IInv` |
| `StopsWorkUnlessPtyOpensLater` | execute: `[]StoppedCommandEnds`, which section 5 refutes in general | `IInv`, `Stoppable` |
| `PendingTypeCorrect` | rules: `[]TypeOK` | `TInv`: `TypeOK`, `Holding` |
| `WorkflowUsesOwnRules` | rules: `[]OwnRulesOnly` | `TInv`, `Owned` |
| `RulesTakenOnce` | rules: `[]TakenOnce` | `TInv`, `Untaken` |
| `UndisturbedRulesDeployed` | rules: a workflow that is over has deployed the rules of its own deployment | `TInv`, `Handed`, `FileIsOwn`, `Delivering` |
| `CacheTypeCorrect` | caches: `[]TypeOK` | `TypeOK` |
| `NoFlagLeftBehind` | caches: `[]FlagHasFetch` | `TypeOK`, `FlagHasFetch` |
| `PeeksShareOneFetch` | caches: `[]OneRevalidation` | `PeekInv`: `Flagged`, `OneRevalidation` |
| `RefreshAnswersFresh` | caches: `[]RefreshIsFresh` | `RefreshInv` |
| `OnlyLateAnswersAreStale` | caches: `[]FreshAfterMutation`, which section 5 refutes in general | `FloorInv` |
| `TestingTypeCorrect` | testing: `[]TypeOK` | `IInv`: `TypeOK`, `Served`, `Evidence`, `Order`, `Memory` |
| `SuccessesAreReal` | testing: `[]SuccessIsReal` | `IInv`, its part `Evidence` |
| `OlderOpsWereEnded` | testing: `[]OneInProgress` | `IInv`, its part `Order` |
| `StopsOnceByItself` | testing: `[]OneAutomaticStop` | `IInv`, its part `Memory` |
| `OnlyItsRequestReopens` | testing: only its own request's return sets an ended operation back | `IInv` |
| `TableKeepsItsPromise` | testing: `ImplementsRangeOps` | `IInv` |
| `LinkTypeCorrect` | linkage: `[]TypeOK` | `IInv`: `TypeOK`, `Owned`, `Present`, `Listed`, `Handled`, `Struck`, `Filed`, `RowHasFile` |
| `OthersKeepTheirs` | linkage: `[]ThirdPartyUntouched` | `IInv`: `Owned`, `Listed`, `Handled` |
| `OwnStaysFindable` | linkage: `[]OwnNeverPassedOver` | `IInv`, its part `Struck` |
| `RowsHaveFiles` | linkage: `[]RowHasFile` | `IInv`, its parts `Filed` and `RowHasFile` |
| `LinkageKeepsItsPromise` | linkage: `ImplementsOwnership` | `IInv`; every step is checked against the abstract ones (`AsPromised`) |
| `UsersKeepTheirs` | linkage: a user's workspace is his own unless an administrator handed it over | `LinkageKeepsItsPromise` |

The arguments, in words:

- *Readers.* An attached reader has seen exactly the buffer of its running, loaded task. A line
  goes to the buffer and to every attached reader in one step; the end of a task and its
  eviction detach all its readers; a restart detaches everyone. Fetching leaves a loaded entry
  alone, which is where `mem[t].loaded` is needed: without it a later fetch would replace the
  buffer under the reader by the log, which may differ after a failed write. `OnlyCreated` is
  needed so that creating a task does not overwrite the entry of a reader's task.
- *Launches.* Only `CompleteTask` of a task that has not ended starts the workflow, and a task
  whose workflow was started runs neither in the map nor in the table (`StartedByEnded`). A power
  loss may bring a running row back, but the same start of the process ends every task it finds
  and writes that, so the forgotten completion is not acted on again.
- *Retention.* The map, the table and the logs are three records of the same tasks and a restart
  rebuilds the first from the others, so no single property is inductive. `Consistent` says of a
  task that its row tells what its entry tells, its logs lie in the directories that eviction and
  replay look at, and together they hold the lines written. Then the table has at most `MaxTasks`
  rows and hydration selects them all; a log without a row does not exist, so the scan recovers
  nothing; and the rows, an interval of ids read in ascending order, can only be listed one way,
  which is shown by counting: an ascending injection of n positions into an interval of n ids is
  the shifted identity.
- *The eviction order.* `RetainsNewest` fails when writes fail, but what eviction relies on does
  not: the order lists memory exactly. It is kept by four facts about lists: an id is appended only
  while it is not in memory, for a new task because nothing beyond `created` is known anywhere;
  eviction drops a prefix; the rows selected at a restart and the orphans are disjoint; and an
  injective sequence as long as a set is large reaches all of it. The bound follows by counting.
- *Power loss.* With writes that succeed, neither the row of a running task nor its saved copy
  knows of an end (`RowsKnowNoEnd`), so whichever of the two a restart finds is ended as an error,
  if it is there, and a log without a row is recovered as one.
- *Refinement.* Initial states map to initial states. A step of the store changes the status of
  one task (create, complete), forgets one (the victim, which `RetainsNewest` identifies), or
  ends all running ones (restart); each is a step of `TaskLifecycle`, and everything else leaves
  `Life` alone.
- *Interrupted and failed commands.* A PTY that was sent Ctrl+C may close with exit code 0 and
  without a word of it, so the property is not inductive: what saves it is that the stop route ends
  the task in the same stretch that sends Ctrl+C. `EndedFirst` says so: an interrupted command
  belongs to a task that ended otherwise, and a completed task has neither a session nor a failure
  on record.
- *Cleanups.* A cleanup is registered from `Connect` on, in the stages in which the connection is
  in use, and whoever ends the task takes it out (`Registered`).
- *Commands that ran to their end.* Channels that a Stop's `conn.end()` closes report exit code 0
  too, but the Stop has ended the task before. `RanToEnd` therefore says of a task that is still
  running that no connection was ended under it, and counts the sessions that have run at each
  stage; a completed task got its verdict from the close of the last session's PTY.
- *Ownership of rules.* The file carries the operator of the deployment whose rules it holds
  (`Owned`), and a deployment never changes its operator (`WhoFixed`).
- *Undisturbed rules.* From `completeTask` on, the deployment's rules are in the file or, if a
  tab was faster, in the handoff; the workflow takes the one or the other, and undisturbed it
  neither finds another's rules in the configuration nor leaves before the put and the deploy.
- *Taken once.* A deployment writes the file at most once. While it may still write, and while
  its rules lie in the file, nobody has taken them (`Untaken`).
- *Flags.* A background fetch sets the flag as it starts and clears it however it ends; a cold
  read may clear the flag early but never leaves one behind. For the peeked cache no cold read
  exists, so the flag is set exactly while its fetch runs (`Flagged`), which makes it single.
- *Refresh.* A refresh empties both layers in the stretch that starts its fetch, so the fetch
  asks Ludus afterwards; versions only grow, and what is no version is `Nothing`.
- *Stale answers.* `FloorInv` says that whatever is stored or on its way, of the caches that were
  emptied, is no older than the mutation. The layered cache is the case that needs care: the
  inventory may have read admin data from the cache before it was emptied.
- *Successes.* A check completes an operation on PocketBase's word, on the log's or on Ludus's,
  and patches PocketBase before. `Evidence` keeps account of all three at once: whatever a check
  of o may go by has backed o. The case that needs care is a marker set while the log could not
  be read: it stands at the start, where the newest recap tells of the mode the range is in, so
  that an earlier run proves only what is already true. The other exception is in the property:
  text of a job without a clean recap, in the window of another's, proves what never was
  (`misled`); `Evidence` says that a proof which rests on no such text names the newest clean
  job.
- *Older operations.* A POST supersedes the newest operation in progress only. `Order` says that
  every operation a later one follows has been ended; induction over single POSTs gives the rest.
- *Automatic stops.* `Memory` says that an operation that was sent one and has not been ended
  since is in the set; checks that ran side by side read the set when they act, not before.
- *Linkage.* The owner of a directory is the account it was made for or someone it was handed to
  rightly (`Owned`); a listing, however old, gave a name that was right then and still explains
  the workspace (`Listed`), since a directory only goes from the host account, or by an
  administrator, to a user. So a loop that passed the gate works for the rightful user
  (`Handled`), and one that struck a workspace off saw another user's name, or found it in the
  snapshot, before its own GOAD had made one (`Struck`). A listing that leaves a workspace out gives
  no name, and without one nothing is decided.
- *Ownership.* What a loop hands over was judged before, on a listing that may be old
  by now; `Handled` says that the judgement still stands, so the claim is one the abstract
  specification allows at the moment the command runs.
- *Rows and files.* A row is written after the file of the same workspace, and files are never
  removed (`Filed`). The exceptions are the row that the page of a redeployment announces and the
  row after a write that counted as done (`unheard`).

*Only model-checked:* the liveness properties (`TaskEnds`, `RulesReachRange`, `Converges`,
`TimedOutSettles`, `LinkageEnds`), which are beyond the prover. Their safety halves are proved
where they have one that says something: `EndsAreReported` for `TaskEnds`,
`UndisturbedRulesDeployed` for `RulesReachRange`.

## 5. What the code does not keep

Each run below ends in a counterexample to a sentence of the source. For two of them a theorem
says that the counterexample's cause is the only one.

- `execute_silent_loss` / `EveryTaskEnds`. The promise of `streamGoadCommand` has a `then` and no
  `catch`, and phase 1 of a split command may open a channel on a connection that is gone, which
  throws in an event handler. Neither callback runs and the task stays running until a Stop or a
  restart.
- `execute_stop` / `StoppedCommandEnds`. Stop writes Ctrl+C to the last PTY opened, if there is
  one, and closes the connection 600 ms later. A command whose PTY opens in between gets no
  Ctrl+C; the task is aborted, the connection closed, and what is left to end the command is the
  hangup. That a command survives it is documented for `ansible-playbook` only
  (`goad-ssh.ts:1285`); the property asks for what the stop route says, which is the Ctrl+C.
  `StopsWorkUnlessPtyOpensLater`: without silent failures there is no other way.
- `cache_stale` / `FreshAfterMutation`. `invalidate` removes entries but not the fetches under
  way; one that read Ludus before the mutation, cold or in the background, stores its old answer as
  fresh afterwards. `OnlyLateAnswersAreStale`: old entries, refreshes and the layering of the two VM
  lists do no harm by themselves. (The prefetch reads through Next's cache, which may answer
  with old data after the mutation too; the sentence is about VM lists.)

## 6. Observations without a run

Met while modelling. Most are behaviour of the models; no property claims otherwise.

GOAD task store:

- `line_count` reaches the table every 50 lines and at completion, and the execute route appends
  its `[EXIT]` line after completion: after a restart the count is short until the log is read.
  `goad-task-store.ts:50` calls it "always accurate".
- After a power loss a recovered task is appended to the list and may be shown as the newest; the
  table may then hold more than `MAX_TASKS` rows, of which hydration loads the *oldest*, so the
  newest comes back as "recovered" from its log.
- If the deletion of a row fails at an eviction and power is lost, a completed task may come back
  with its older "running" row, be aborted by the restart and complete once more.
- A running task is evicted when `MAX_TASKS` newer ones exist; its readers hear nothing more.
- A task linked to a second instance leaves its earlier lines in the first one's directory, where
  neither replay nor eviction looks.

Execution and rules:

- A Stop before the cleanup is registered kills nothing: the task is aborted and the command starts
  afterwards. After a Stop whose session ends with exit code 0 and without `KeyboardInterrupt` in
  its output, the extension session starts too, until `conn.end()`.
- A shell that dies of a signal reports no exit code, which counts as 0: the task is completed
  unless its log shows a failure.
- The abort route lists a task id among the aborted ones although `abortTask` may have found it
  ended.
- A tab takes the file before the workflow looks; the workflow finds none and falls back to the
  handoff (`goad-pending-network-workflow.ts:132`), and both deploy the same rules. The comment
  above says "Never apply a snapshot that was already applied." (lines 113–114). `TakenOnce` is
  about the file; `RulesReachRange` asks nothing for rules that were applied.
- A discard removes the file only: the workflow still applies the handoff's copy, although the
  route means the request as dropping the rules. `RulesReachRange` asks nothing for them.
- A tab that shows an earlier, ended task takes the file of a new deployment and deploys its rules
  before GOAD has run.
- If the unlink of the file fails, the rules are handed out again (`UnlinkFails = TRUE` violates
  `TakenOnce`).
- A restart during the workflow leaves the task's phase "network-deploy" set.

Caches:

- A refresh, or any fetch, while Ludus fails is answered 200 with empty lists, and these are kept as
  fresh for a whole TTL in place of the data before.
- A cold `get` clears the flag of a background fetch that still runs; a second may start.
- `bustAdminCache` drops the caller's key only, and proxied changes of templates, roles and
  blueprints drop no in-process entry: those stay stale up to their TTL.

Testing-mode operations:

- `newestCleanRecapIndex` skips failed recaps and `recapRunWindow` cuts no end, so the text of a job
  of the operation's kind that failed, was killed or still runs proves the operation complete, when
  a clean recap of a deployment or of another job stands beside it. The comments at
  `testing-mode-pb-reconcile.ts:210` and `:241` mean one run.
- A dismissed, superseded or completed operation is set back to running when its own request
  returns: `markRangeOpRunning` has no condition on the status, although it is described as
  "pending → running". A dismissed operation's request is also still sent if the preflight is not
  over. `OnlyItsRequestReopens` proves that nothing else does it.
- The patch of a superseded operation's late check may complete a newer operation of its kind.
- Status 0 stands for any connection failure, so an unreachable Ludus looks like an operation in
  progress for 20 minutes.
- A poll and the POST may both complete an operation; each writes its row for the activity list.
- A check that outlives the end of its operation may send another automatic stop, since the end
  makes the server forget the first.
- The page says that the GET of pending allows reconciles them with Ludus's list
  (`_testing.tsx:130`); the page itself does it, and a failed request for the list is an empty
  list, which confirms every pending removal.

Deploy linkage:

- If the listing of the snapshot fails, or leaves out a directory whose `instance.json` it cannot
  read, older workspaces count as new, and one of the user's own or of the host account is linked
  to the new range.
- A `chown` or a write whose channel closes without an exit code counts as done
  (`goad-ssh.ts:389`): the row then names a range that the directory does not, and on the page
  perhaps for a directory of another user. An access that is refused gives a code and is told.
- The owner is checked on a listing and the directory handed over afterwards: of two loops that
  saw the host's account both may take the workspace, the later one keeping it.
- A task that starts between the check and the hand-over is not noticed.
- A restart loses the loops; a workspace not linked by then waits for its page.
- An administrator's `set-range` hands over whatever workspace the page names without the check
  of the owner that the loop makes.
- `deploy-handoff` writes the row before there is any file, although the header of
  `goad-instance-range-store.ts` says that the row follows the file.
- The row is recorded though SQLite may fail, which is logged only: the loop is over, the row
  absent.
- Row and file of one workspace may name different ranges when two linkages overlap.
- `writeGoadRangeId` creates the directory if it has been removed meanwhile.

## 7. Limits of the models

- *Store:* ids are in creation order; the order in which `readdir` lists directories is arbitrary;
  log files survive a power loss intact; a directory or log that the scan for forgotten logs
  cannot read (`goad-task-store.ts:174`, `:190`, `:200-205`), the writes to rows that are there at
  a restart, and the legacy flat log path are left out; the phase and rules flags are in
  `PendingNetwork` or left out as display.
- *Execute:* one command; the second of two reports (`onClose` after `onError`) is left out
  since `completeTask` ignores it; the text of commands and the access checks are left out.
- *Rules:* one instance; only its first deployment may be a fresh install; the wizard stores the
  file of a fresh install before anyone deploys there again; API key and range id are present;
  an abort counts as an error; the user of a tab is allowed to take the file.
- *Testing:* one range; an answer of Ludus, PocketBase or the log is current when it arrives; of
  the log a job's tasks are in the text whole or not at all, and a slice of the log begins at the
  marker; a job may end at any moment, whether LUX asked for it or not; the rows of the activity
  list and the text of recaps are left out.
- *Linkage:* workspaces are not removed; the page sends the range of its own deployment (the route
  takes any from the body); a command that goes on after its channel has closed counts as not done,
  or as done at once; a deployment has a range and a user with an SSH password
  of his own (the execute route refuses others), so its GOAD runs as that user; the
  administrator's `reassign` and `init-range`, which repeat the steps of `set-range`, and the
  record of a range's owner are left out.
- *Caches:* one admin key, and one cache stands for those of the prefetch; a range configuration
  that cannot be read (`range-vms/route.ts:24`) costs the inventory its template fields only and
  is left out.

## 8. What is not modelled, and why

| Component | Reason |
|---|---|
| Range state (`goad-ludus-reconcile.ts`, `api/range/abort`, `api/range/reconcile-pb`) | the patch to SUCCESS against Abort's to ABORTED: which of them lasts depends on how Ludus and PocketBase share the state, and the source describes that in two ways (`goad-ludus-reconcile.ts:509`, `abort/route.ts:186`); a model would have to choose |
| Pending allows (`pending-allow-store.ts`) | single statements on one table; the browser settles the entries and no other state depends on them |
| Source catalogues, auto-sync (`source-auto-sync.ts`) | queries without state; the shared sync is the one-fetch rule of `SWRCache` without entries |
| Single-use tokens and sessions (`login-continuation-store.ts`, `session-credential-store.ts`, `vnc-token-store.ts`, `session-node.ts`) | each operation is one synchronous step; unit tests cover it |
| Rate limit, probe backoff | a sequential sliding window and one formula |
| Database and migrations (`db.ts`) | schema creation in a fixed order; the tables that matter are modelled with their stores |
| Ludus and PocketBase clients | requests and parsing: the environment of the models, which may answer or fail |
| Network rules, range configuration | merging of YAML text; `PendingNetwork` keeps only which rules a configuration holds |
| Blueprints, templates, Ansible, users, SSH helpers, LudusHound | sequences of remote commands without state in LUX |
| Log streams and log clock | polling and formatting of text |
| Upgrade and host install, deployment scripts | shell scripts and containers |
| Settings, WebSocket relay, user interface | a form, a byte relay, and rendering; the requests the UI makes that matter are actions of the models |

Most of the repository's lines are in the last two rows of this table and in the remote commands:
they hold no state that two steps could disagree about. Of the hazards `PROJECT.json` lists
without a property, each has its reason there.
