--------------------------- MODULE PendingNetwork ---------------------------
(***************************************************************************)
(* The firewall rules of a wizard deployment on one GOAD instance.         *)
(*                                                                         *)
(* GOAD overwrites the range configuration while it installs, so the       *)
(* wizard leaves its rules in two places: the row of the deploy handoff    *)
(* (goad-deploy-handoff-store.ts, deploy-handoff/route.ts) and a file per  *)
(* instance (goad-pending-network-fs.ts, pending-network/route.ts).  Two   *)
(* parties take them: the workflow that completeTask starts                *)
(* (goad-pending-network-workflow.ts) and the instance page, which asks    *)
(* for the file when the task it shows has ended (goad-instance-page.tsx). *)
(*                                                                         *)
(* Deployment d carries the rules numbered d.  Between two awaits the      *)
(* server code runs alone; an action is one such stretch, or one request   *)
(* of the browser.                                                         *)
(***************************************************************************)
EXTENDS Naturals, FiniteSets

CONSTANTS
  MaxDeploys,  \* bound: deployments on the instance
  Operators,   \* users who deploy
  Pages,       \* open tabs of the instance page
  MaxBoots,    \* bound: restarts of the server
  Discards,    \* TRUE if an operator may DELETE the file
  UnlinkFails  \* TRUE if the unlink of the file may fail

ASSUME ConstantsAssumption ==
  /\ MaxDeploys \in Nat /\ MaxBoots \in Nat
  /\ Discards \in BOOLEAN /\ UnlinkFails \in BOOLEAN

Deploys == 1..MaxDeploys

VARIABLES
  dep,       \* the handoff and the task of each deployment
  file,      \* the pending-network file of the instance
  wf,        \* the workflow of each task: where it is and the rules it holds
  page,      \* each tab: where it is, the task it shows and the rules it holds
  config,    \* the rules in the range configuration; 0 is GOAD's own
  taken,     \* taken[r]: how often rules r were taken from a file
  applied,   \* applied[r]: how often rules r were deployed
  flaky,     \* TRUE if requests to Ludus may fail
  discarded, \* history: the rules that an operator discarded
  boots      \* number of restarts

vars == <<dep, file, wf, page, config, taken, applied, flaky, discarded, boots>>

NoRules == 0
NoFile  == [rules |-> NoRules]
Ended   == {"completed", "error"}       \* an abort counts as an error

Deployment == [stage : {"none", "handed", "running"} \cup Ended, who : Operators,
               fresh : BOOLEAN, rules : BOOLEAN, linked : BOOLEAN, inst : BOOLEAN, stored : BOOLEAN]
Worker == [at : {"idle", "started", "holds", "put", "over"}, rules : Deploys \cup {NoRules}]
\* A closed tab, or one that asks no more, is "closed"; its user may take the file.
Tab    == [at : {"closed", "open", "holds", "put"},
           task : Deploys \cup {0}, rules : Deploys \cup {NoRules}]

Closed == [at |-> "closed", task |-> 0, rules |-> NoRules]

Stage(d) == dep[d].stage

Init ==
  /\ dep \in [Deploys -> {[stage |-> "none", who |-> u, fresh |-> f, rules |-> r, linked |-> FALSE,
                           inst |-> FALSE, stored |-> FALSE] : u \in Operators, f, r \in BOOLEAN}]
  /\ \A d \in Deploys : dep[d].fresh => d = 1     \* later ones find the instance
  /\ file = NoFile
  /\ wf = [d \in Deploys |-> [at |-> "idle", rules |-> NoRules]]
  /\ page = [p \in Pages |-> Closed]
  /\ config = NoRules
  /\ taken = [d \in Deploys |-> 0]
  /\ applied = [d \in Deploys |-> 0]
  /\ flaky \in BOOLEAN
  /\ discarded = {}
  /\ boots = 0

-----------------------------------------------------------------------------
(* The wizard and the execute route.                                       *)

\* Mutant of SnapshotOf: a snapshot without its owner, as in older files.
SnapshotUnowned(d) == [rules |-> d, by |-> "none"]

\* writePendingNetworkSnapshot
SnapshotOf(d) == [rules |-> d, by |-> dep[d].who]

\* POST deploy-handoff: with the instance known, the rules also go to its file.
Handoff(d) ==
  /\ Stage(d) = "none"
  /\ \A e \in Deploys : e < d => Stage(e) # "none"
  /\ dep' = [dep EXCEPT ![d].stage = "handed"]
  /\ file' = IF dep[d].rules /\ ~dep[d].fresh THEN SnapshotOf(d) ELSE file
  /\ UNCHANGED <<wf, page, config, taken, applied, flaky, discarded, boots>>

\* POST execute: the task is created, with the instance when it is known.
Execute(d) ==
  /\ Stage(d) = "handed"
  /\ dep' = [dep EXCEPT ![d].stage = "running", ![d].inst = ~dep[d].fresh]
  /\ UNCHANGED <<file, wf, page, config, taken, applied, flaky, discarded, boots>>

HasTask(d) == Stage(d) \in {"running"} \cup Ended

\* PATCH deploy-handoff: from now on the handoff is found by its task.
LinkHandoff(d) ==
  /\ HasTask(d) /\ ~dep[d].linked
  /\ dep' = [dep EXCEPT ![d].linked = TRUE]
  /\ UNCHANGED <<file, wf, page, config, taken, applied, flaky, discarded, boots>>

\* updateTaskInstance, by the wizard or by the deploy linkage of the server.
LinkInstance(d) ==
  /\ HasTask(d) /\ ~dep[d].inst
  /\ dep' = [dep EXCEPT ![d].inst = TRUE]
  /\ UNCHANGED <<file, wf, page, config, taken, applied, flaky, discarded, boots>>

\* POST pending-network: the wizard of a fresh install stores the rules once it
\* knows the new instance, before anyone deploys on that instance again.
StoreFile(d) ==
  /\ HasTask(d) /\ dep[d].fresh /\ dep[d].rules /\ ~dep[d].stored
  /\ \A e \in Deploys : e > d => Stage(e) = "none"
  /\ dep' = [dep EXCEPT ![d].stored = TRUE]
  /\ file' = SnapshotOf(d)
  /\ UNCHANGED <<wf, page, config, taken, applied, flaky, discarded, boots>>

\* DELETE pending-network.
Discard ==
  /\ Discards
  /\ file # NoFile
  /\ file' = NoFile
  /\ discarded' = discarded \cup {file.rules}
  /\ UNCHANGED <<dep, wf, page, config, taken, applied, flaky, boots>>

\* GOAD writes the range configuration.
GoadConfigures(d) ==
  /\ Stage(d) = "running"
  /\ config' = NoRules
  /\ UNCHANGED <<dep, file, wf, page, taken, applied, flaky, discarded, boots>>

\* completeTask: a task that completes starts the workflow.
Finish(d, st) ==
  /\ Stage(d) = "running"
  /\ dep' = [dep EXCEPT ![d].stage = st]
  /\ wf' = IF st = "completed" THEN [wf EXCEPT ![d].at = "started"] ELSE wf
  /\ UNCHANGED <<file, page, config, taken, applied, flaky, discarded, boots>>

-----------------------------------------------------------------------------
(* runAfterGoadTaskCompleteIfNeeded.                                       *)

\* Mutant of Taken: the file is read and left.
TakenLeft == file' = file /\ taken' = [taken EXCEPT ![file.rules] = @ + 1]

\* readUnlinkPendingNetworkSnapshot on a file that is there.
Taken ==
  /\ file' = NoFile \/ (UnlinkFails /\ file' = file)
  /\ taken' = [taken EXCEPT ![file.rules] = @ + 1]

\* Mutant of MayUse: rules of whoever saved them last.
MayUseAny(d) == TRUE

\* sameOperator(envelope.username, taskOwner)
MayUse(d) == file.by = dep[d].who

\* Mutant of FallBack: only the file counts.
FallBackNever(d) == NoRules

\* The rules of the handoff found by the task.
FallBack(d) == IF dep[d].linked /\ dep[d].rules THEN d ELSE NoRules

\* Up to the first await: the task must be linked to the instance; the file is
\* taken when there is one, else the handoff counts.
WfStart(d) ==
  LET r == IF ~dep[d].inst THEN NoRules
           ELSE IF file = NoFile THEN FallBack(d)
           ELSE IF MayUse(d) THEN file.rules ELSE NoRules
  IN /\ wf[d].at = "started"
     /\ IF dep[d].inst /\ file # NoFile THEN Taken ELSE UNCHANGED <<file, taken>>
     /\ wf' = [wf EXCEPT ![d] = [at |-> IF r = NoRules THEN "over" ELSE "holds", rules |-> r]]
     /\ UNCHANGED <<dep, page, config, applied, flaky, discarded, boots>>

\* The configuration is read, merged and written; a failure is logged only.
WfPut(d) ==
  /\ wf[d].at = "holds"
  /\ wf' = [wf EXCEPT ![d].at = "put"]
  /\ config' = wf[d].rules \/ (flaky /\ config' = config)
  /\ UNCHANGED <<dep, file, page, taken, applied, flaky, discarded, boots>>

\* The network tag is deployed with whatever rules the configuration holds, or
\* the gate, every attempt or a wait fails.
Deployed ==
  \/ applied' = IF config = NoRules THEN applied ELSE [applied EXCEPT ![config] = @ + 1]
  \/ flaky /\ applied' = applied

\* The range is idle and the tag is deployed.
WfDeploy(d) ==
  /\ wf[d].at = "put"
  /\ wf' = [wf EXCEPT ![d].at = "over"]
  /\ Deployed
  /\ UNCHANGED <<dep, file, page, config, taken, flaky, discarded, boots>>

-----------------------------------------------------------------------------
(* The instance page.                                                      *)

\* A tab opens and shows one of the instance's tasks.
PageOpens(p, d) ==
  /\ page[p].at = "closed"
  /\ HasTask(d) /\ dep[d].inst
  /\ page' = [page EXCEPT ![p] = [at |-> "open", task |-> d, rules |-> NoRules]]
  /\ UNCHANGED <<dep, file, wf, config, taken, applied, flaky, discarded, boots>>

\* The task shown has an exit code: POST pending-network takes what there is.
PageTakes(p) ==
  /\ page[p].at = "open"
  /\ Stage(page[p].task) \in Ended
  /\ file # NoFile
  /\ Taken
  /\ page' = [page EXCEPT ![p].at = "holds", ![p].rules = file.rules]
  /\ UNCHANGED <<dep, wf, config, applied, flaky, discarded, boots>>

\* There is no file: the page asks no more.
PageMisses(p) ==
  /\ page[p].at = "open"
  /\ Stage(page[p].task) \in Ended
  /\ file = NoFile
  /\ page' = [page EXCEPT ![p] = Closed]
  /\ UNCHANGED <<dep, file, wf, config, taken, applied, flaky, discarded, boots>>

PagePuts(p) ==
  /\ page[p].at = "holds"
  /\ page' = [page EXCEPT ![p].at = "put"]
  /\ config' = page[p].rules \/ (flaky /\ config' = config)
  /\ UNCHANGED <<dep, file, wf, taken, applied, flaky, discarded, boots>>

PageDeploys(p) ==
  /\ page[p].at = "put"
  /\ page' = [page EXCEPT ![p] = Closed]
  /\ Deployed
  /\ UNCHANGED <<dep, file, wf, config, taken, flaky, discarded, boots>>

\* The tab is closed, whatever it was doing.
PageLeaves(p) ==
  /\ page[p].at # "closed"
  /\ page' = [page EXCEPT ![p] = Closed]
  /\ UNCHANGED <<dep, file, wf, config, taken, applied, flaky, discarded, boots>>

-----------------------------------------------------------------------------
\* The server restarts: running tasks become errors, and the workflows are gone
\* with the rules they held.
Restart ==
  /\ boots < MaxBoots
  /\ boots' = boots + 1
  /\ dep' = [d \in Deploys |-> IF Stage(d) = "running" THEN [dep[d] EXCEPT !.stage = "error"] ELSE dep[d]]
  /\ wf' = [d \in Deploys |-> IF wf[d].at = "idle" THEN wf[d] ELSE [wf[d] EXCEPT !.at = "over"]]
  /\ UNCHANGED <<file, page, config, taken, applied, flaky, discarded>>

Workflow(d) == WfStart(d) \/ WfPut(d) \/ WfDeploy(d)

PageSteps(p) ==
  \/ \E d \in Deploys : PageOpens(p, d)
  \/ PageTakes(p)
  \/ PageMisses(p)
  \/ PagePuts(p)
  \/ PageDeploys(p)
  \/ PageLeaves(p)

Next ==
  \/ \E d \in Deploys :
       \/ Handoff(d)
       \/ Execute(d)
       \/ LinkHandoff(d)
       \/ LinkInstance(d)
       \/ StoreFile(d)
       \/ GoadConfigures(d)
       \/ \E st \in Ended : Finish(d, st)
       \/ Workflow(d)
  \/ \E p \in Pages : PageSteps(p)
  \/ Discard
  \/ Restart

Spec == Init /\ [][Next]_vars

\* The workflow's requests are answered and its waits end (each has a timeout).
FairSpec == Spec /\ \A d \in Deploys : WF_vars(Workflow(d))

-----------------------------------------------------------------------------
(* Properties.                                                             *)

\* Every variable has the type its comment gives.
TypeOK ==
  /\ dep \in [Deploys -> Deployment]
  /\ file \in [rules : Deploys, by : Operators] \cup {NoFile}
  /\ wf \in [Deploys -> Worker]
  /\ page \in [Pages -> Tab]
  /\ config \in Deploys \cup {NoRules}
  /\ taken \in [Deploys -> Nat]
  /\ applied \in [Deploys -> Nat]
  /\ flaky \in BOOLEAN
  /\ discarded \subseteq Deploys
  /\ boots \in 0..MaxBoots

\* readUnlinkPendingNetworkSnapshot: however many tabs and workflows reach for
\* the file, the rules of a deployment are taken from it once.
TakenOnce == \A r \in Deploys : taken[r] <= 1

\* runAfterGoadTaskCompleteIfNeeded, sameOperator: the workflow of a task never
\* applies the rules of another operator, also when a second wizard replaced
\* the file while the task ran.
OwnRulesOnly == \A d \in Deploys : wf[d].rules # NoRules => dep[wf[d].rules].who = dep[d].who

\* Something other than the workflow of d may change the configuration: another
\* deployment, a tab with other rules, or a restart.
Disturbed(d) ==
  \/ \E e \in Deploys : e > d /\ Stage(e) # "none"
  \/ \E e \in Deploys \ {d} : Stage(e) = "running" \/ wf[e].at \in {"started", "holds"}
  \/ \E p \in Pages : page[p].rules \notin {NoRules, d}
  \/ boots > 0

\* The rules of d are still to be deployed when its workflow starts: nobody has
\* discarded them, nobody has deployed them, and the task has been linked.
Due(d) ==
  /\ dep[d].rules /\ dep[d].linked /\ dep[d].inst
  /\ d \notin discarded /\ applied[d] = 0

\* The workflow with its fallback to the handoff: as long as Ludus answers, rules
\* that are due when their task completes get deployed, also if the wizard was
\* closed before it stored their file, or a tab took it and was closed.
RulesReachRange ==
  \A d \in Deploys :
    (wf[d].at = "started" /\ Due(d) /\ ~flaky)
      ~> applied[d] > 0 \/ d \in discarded \/ Disturbed(d)

=============================================================================
