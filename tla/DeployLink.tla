----------------------------- MODULE DeployLink -----------------------------
(***************************************************************************)
(* Linking the workspace of a GOAD deployment to its range and handing it  *)
(* over to the user: the loops of src/src/lib/goad/goad-deploy-link.ts,    *)
(* started by the route execute, beside the page's request to              *)
(* src/src/app/api/goad/instances/set-range/route.ts.                      *)
(*                                                                         *)
(* The server learns of workspaces by listing directories over SSH; each   *)
(* decision is taken on a listing that may be out of date, and chown, the  *)
(* range file and the local row are three steps, two of them remote.       *)
(*                                                                         *)
(* A listing may leave out any directory, all of them when it fails, and   *)
(* may not know the name of an owner.  A command whose channel closes      *)
(* without an exit code counts as done.  A workspace exists once its       *)
(* instance.json does; it is not removed.  The five minutes of a loop may  *)
(* be over whenever the code looks.  Deployments have a range, which the   *)
(* page sends for them, and are asked for by users other than root and the *)
(* host's SSH account; their GOAD runs as the user.  Older workspaces, and *)
(* those made by hand, may belong to any account.  The record of a range's *)
(* owner that follows a link is left out.                                  *)
(***************************************************************************)
EXTENDS Integers, FiniteSets

CONSTANTS
  Users,       \* accounts that deploy
  Host,        \* the account of the configured SSH login
  Root,        \* the root account, perhaps the same
  Others,      \* bound: accounts of those who run GOAD by hand
  Ranges,      \* Ludus ranges
  MaxDeploys,  \* bound: deployments
  UserOf,      \* UserOf[d]: the user deployment d is for
  RangeOf,     \* RangeOf[d]: the range it deploys to
  Wizards,     \* deployments asked for on the page; the assistant asks for the others
  MaxWs,       \* bound: workspaces, named in the order of a listing
  MaxBoots     \* bound: restarts of the server

NoWs       == 0
NoOne      == "noone"
Unresolved == "unresolved"
NoRange    == "norange"

Deploys    == 1..MaxDeploys
Workspaces == 1..MaxWs

ASSUME ConstantsAssumption ==
  /\ {MaxDeploys, MaxWs, MaxBoots} \subseteq Nat
  /\ UserOf \in [Deploys -> Users]
  /\ RangeOf \in [Deploys -> Ranges]
  /\ Wizards \subseteq Deploys
  /\ Users \cap {Host, Root} = {}
  /\ (Users \cup {Host, Root}) \cap {NoOne, Unresolved} = {}
  /\ Others \subseteq Users \cup {Host, Root}
  /\ NoRange \notin Ranges

VARIABLES
  owner,    \* owner[w]: account of the directory, NoOne before it exists
  file,     \* file[w]: its .goad_range_id
  row,      \* row[w]: its row in goad_instance_ranges
  redeploys,\* deployments of a workspace named in the request
  job,      \* job[d]: status of its task
  inst,     \* inst[d]: instance of its task
  made,     \* made[d]: the workspace its GOAD made
  before,   \* before[d]: workspaces the loop of d leaves alone
  at,       \* at[k][d]: what the server's loop, or the page's request, waits for
  ws,       \* ws[k][d]: workspace it is working on
  listed,   \* listed[d]: owner of that workspace in the loop's last listing
  boots,    \* number of restarts so far
  origin,   \* history: origin[w], the account w was made for
  reassigned, \* history: workspaces the page of an administrator handed over
  unheard   \* history: workspaces whose file was not written though its command counted as done

dirs  == <<owner, file, row>>
tasks == <<redeploys, job, inst, made>>
loops == <<before, at, ws, listed, boots>>
hist  == <<origin, reassigned, unheard>>
vars  == <<dirs, tasks, loops, hist>>

Accounts   == Users \cup {Host, Root}
Who        == {"server", "page"}
Places     == {"idle", "poll", "judge", "again", "hold", "chown", "write", "record", "linked", "over"}
AtRest     == {"idle", "linked", "over"}

Init ==
  /\ owner = [w \in Workspaces |-> NoOne]
  /\ file = [w \in Workspaces |-> NoRange]
  /\ row = file
  /\ redeploys = {}
  /\ job = [d \in Deploys |-> "none"]
  /\ inst = [d \in Deploys |-> NoWs]
  /\ made = [d \in Deploys |-> NoWs]
  /\ before = [d \in Deploys |-> {}]
  /\ at = [k \in Who |-> [d \in Deploys |-> "idle"]]
  /\ ws = [k \in Who |-> [d \in Deploys |-> NoWs]]
  /\ listed = [d \in Deploys |-> NoOne]
  /\ boots = 0
  /\ origin = owner
  /\ reassigned = {}
  /\ unheard = {}

-----------------------------------------------------------------------------
(* The host and who may use a workspace.                                   *)

Existing == {w \in Workspaces : owner[w] # NoOne}

\* What a listing may say of the owner of w; it may leave w out.
Names(w) == ({owner[w]} \ {NoOne}) \cup {Unresolved}

\* The task is the newest that ran against w.
IsNewestTask(d, w) == inst[d] = w /\ \A e \in Deploys : inst[e] = w => e <= d

\* decideGoadInstanceAccess with allowUnclaimed, for a user u and the owner o
\* that a listing gave.
Allowed(u, w, o) ==
  \/ o = u
  \/ /\ o \in {Host, Root, Unresolved}
     /\ \/ \E d \in Deploys : IsNewestTask(d, w) /\ UserOf[d] = u
        \/ \A d \in Deploys : inst[d] # w

\* setRangeHostProcessActive.
RangeProcessActive(w) ==
  \E d \in Deploys : job[d] = "running" /\ inst[d] \in {w, NoWs}

\* hostGoadProcessActive.
HostProcessActive(d, w) == job[d] = "running" \/ RangeProcessActive(w)

-----------------------------------------------------------------------------
(* A deployment.                                                           *)

\* POST execute: the task, the snapshot of the workspaces, which may leave out
\* any, and the loop.  Before it, the page of a redeployment may have announced
\* its range.  An administrator may name any workspace, also one that does not
\* exist, so the access check is left out.
Execute(d, w, snapshot, announced) ==
  /\ job[d] = "none"
  /\ \A e \in Deploys : e < d => job[e] # "none"
  /\ announced => w # NoWs /\ d \in Wizards
  /\ redeploys' = IF w = NoWs THEN redeploys ELSE redeploys \cup {d}
  /\ job' = [job EXCEPT ![d] = "running"]
  /\ inst' = [inst EXCEPT ![d] = w]
  /\ before' = [before EXCEPT ![d] = snapshot]
  /\ at' = [at EXCEPT !["server"][d] = "poll"]
  /\ ws' = [ws EXCEPT !["server"][d] = w]
  /\ row' = [x \in Workspaces |-> IF announced /\ x = w THEN RangeOf[d] ELSE row[x]]
  /\ UNCHANGED <<owner, file, made, listed, boots, hist>>

\* GOAD makes the workspace, perhaps when its task has been stopped already.
GoadMakes(d, w) ==
  /\ job[d] # "none"
  /\ d \notin redeploys
  /\ made[d] = NoWs
  /\ owner[w] = NoOne
  /\ made' = [made EXCEPT ![d] = w]
  /\ owner' = [owner EXCEPT ![w] = UserOf[d]]
  /\ origin' = [origin EXCEPT ![w] = UserOf[d]]
  /\ UNCHANGED <<file, row, redeploys, job, inst, loops, reassigned, unheard>>

\* Somebody runs GOAD by hand on the host, without LUX.
OthersMake(w, a) ==
  /\ owner[w] = NoOne
  /\ owner' = [owner EXCEPT ![w] = a]
  /\ origin' = [origin EXCEPT ![w] = a]
  /\ UNCHANGED <<file, row, tasks, loops, reassigned, unheard>>

\* The task is completed, fails or is stopped.
TaskEnds(d) ==
  /\ job[d] = "running"
  /\ job' = [job EXCEPT ![d] = "ended"]
  /\ UNCHANGED <<dirs, redeploys, inst, made, loops, hist>>

-----------------------------------------------------------------------------
(* The server's loop.                                                      *)

\* pickNewGoadInstanceId: one that is not known from before.  Which of them it
\* takes depends on what the listing shows: a workspace of its range, by the range
\* file or by instance.json, goes before the others.
Pick(d) == Existing \ before[d]

\* A listing with a workspace to link: the one held or named, which it may leave
\* out, or one picked.
List(d, w, o) ==
  /\ at["server"][d] = "poll"
  /\ IF ws["server"][d] # NoWs THEN w = ws["server"][d] ELSE w \in Pick(d)
  /\ o \in Names(w)
  /\ at' = [at EXCEPT !["server"][d] = "judge"]
  /\ ws' = [ws EXCEPT !["server"][d] = w]
  /\ listed' = [listed EXCEPT ![d] = o]
  /\ UNCHANGED <<dirs, tasks, before, boots, hist>>

\* A listing without any: nothing is new, or what is was left out.
ListNothing(d) ==
  /\ at["server"][d] = "poll"
  /\ ws["server"][d] = NoWs
  /\ at' = [at EXCEPT !["server"][d] = "again"]
  /\ UNCHANGED <<dirs, tasks, before, ws, listed, boots, hist>>

\* Mutant of Gate: an owner without a name is taken for the user.
GateTrusting(d) ==
  IF listed[d] \in {UserOf[d], Host, Unresolved} THEN "allow" ELSE "foreign"

\* Mutant of Gate: an owner without a name is taken for another user.
GateStrict(d) == IF listed[d] \in {UserOf[d], Host} THEN "allow" ELSE "foreign"

\* workspaceOwnerGate.
Gate(d) ==
  CASE listed[d] = Unresolved       -> "unresolved"
    [] listed[d] \in {UserOf[d], Host}  -> "allow"
    [] OTHER                        -> "foreign"

\* shouldDeferHostWorkspaceChown.
Defers(d) == listed[d] = Host /\ HostProcessActive(d, ws["server"][d])

\* Mutant of Released: the loop goes on holding the workspace.
ReleasedLater(d) == ws["server"][d]

\* Mutant of Released: a workspace that does not exist.
ReleasedNext(d) == ws["server"][d] + 1

\* What the loop works on after it let go: a named workspace stays.
Released(d) == IF d \in redeploys THEN ws["server"][d] ELSE NoWs

\* The owner has no name yet: look again.
Postpone(d) ==
  /\ at["server"][d] = "judge"
  /\ Gate(d) = "unresolved"
  /\ at' = [at EXCEPT !["server"][d] = "again"]
  /\ ws' = [ws EXCEPT !["server"][d] = Released(d)]
  /\ listed' = [listed EXCEPT ![d] = NoOne]
  /\ UNCHANGED <<dirs, tasks, before, boots, hist>>

\* The workspace is another user's.
Skip(d) ==
  /\ at["server"][d] = "judge"
  /\ Gate(d) = "foreign"
  /\ at' = [at EXCEPT !["server"][d] = IF d \in redeploys THEN "over" ELSE "again"]
  /\ ws' = [ws EXCEPT !["server"][d] = Released(d)]
  /\ before' = [before EXCEPT ![d] = @ \cup ({ws["server"][d]} \ {Released(d)})]
  /\ listed' = [listed EXCEPT ![d] = NoOne]
  /\ UNCHANGED <<dirs, tasks, boots, hist>>

\* The workspace is the host account's and GOAD may be writing it.
Hold(d) ==
  /\ at["server"][d] = "judge"
  /\ Gate(d) = "allow"
  /\ Defers(d)
  /\ at' = [at EXCEPT !["server"][d] = "hold"]
  /\ listed' = [listed EXCEPT ![d] = NoOne]
  /\ UNCHANGED <<dirs, tasks, before, ws, boots, hist>>

\* The workspace may be handed over.
Accept(d) ==
  /\ at["server"][d] = "judge"
  /\ Gate(d) = "allow"
  /\ ~Defers(d)
  /\ at' = [at EXCEPT !["server"][d] = "chown"]
  /\ UNCHANGED <<dirs, tasks, before, ws, listed, boots, hist>>

\* waitWhileHostGoadWrites is over; the deadline starts anew.
Resume(d) ==
  /\ at["server"][d] = "hold"
  /\ ~HostProcessActive(d, ws["server"][d])
  /\ at' = [at EXCEPT !["server"][d] = "poll"]
  /\ UNCHANGED <<dirs, tasks, before, ws, listed, boots, hist>>

\* Three seconds later.
Again(d) ==
  /\ at["server"][d] = "again"
  /\ at' = [at EXCEPT !["server"][d] = "poll"]
  /\ UNCHANGED <<dirs, tasks, before, ws, listed, boots, hist>>

\* The deadline has passed; it is not looked at while a workspace is held.
GiveUp(d) ==
  /\ at["server"][d] = "again"
  /\ d \in redeploys \/ ws["server"][d] = NoWs
  /\ at' = [at EXCEPT !["server"][d] = "over"]
  /\ UNCHANGED <<dirs, tasks, before, ws, listed, boots, hist>>

-----------------------------------------------------------------------------
(* The page.                                                               *)

\* POST set-range, up to the first change: o is the owner in the listing that
\* decides whether GOAD may be writing, access goes by another one.  An
\* administrator's page hands the workspace over first.
SetRange(d, w, o, admin) ==
  /\ d \in Wizards
  /\ job[d] # "none"
  /\ at["page"][d] = "idle"
  /\ o \in Names(w)
  /\ IF d \in redeploys THEN w = ws["server"][d] ELSE TRUE
  /\ admin \/ \E p \in Names(w) : Allowed(UserOf[d], w, p)
  /\ ~(RangeProcessActive(w) /\ o \in {Host, Unresolved})
  /\ at' = [at EXCEPT !["page"][d] = IF admin THEN "chown" ELSE "write"]
  /\ ws' = [ws EXCEPT !["page"][d] = w]
  /\ UNCHANGED <<dirs, tasks, before, listed, boots, hist>>

\* POST link-instance, a request of its own beside set-range; an administrator's
\* is not refused.
PageLinks(d, w) ==
  /\ d \in Wizards
  /\ job[d] # "none"
  /\ inst[d] # w
  /\ inst' = [inst EXCEPT ![d] = w]
  /\ UNCHANGED <<dirs, redeploys, job, made, loops, hist>>

-----------------------------------------------------------------------------
(* Hand-over and link, by the loop and by the page.  A command is done or  *)
(* not, and is told as a success or not, which is another matter: sshExec  *)
(* reads a channel closed without an exit code as exit code 0.             *)

\* Mutant of AfterFailure: a failed write is only logged.
AfterFailureOn(k, d) == IF at[k][d] = "write" THEN "record" ELSE "over"

\* chown or the write is told as a failure: the link is given up.
AfterFailure(k, d) == "over"

\* chownGoadInstance.
Chown(k, d, done, success) ==
  /\ at[k][d] = "chown"
  /\ IF done
       THEN /\ owner' = [owner EXCEPT ![ws[k][d]] = UserOf[d]]
            /\ reassigned' = IF k = "page" THEN reassigned \cup {ws[k][d]} ELSE reassigned
       ELSE UNCHANGED <<owner, reassigned>>
  /\ listed' = [listed EXCEPT ![d] = IF k = "server" THEN NoOne ELSE @]
  /\ at' = [at EXCEPT ![k][d] = IF success THEN "write" ELSE AfterFailure(k, d)]
  /\ UNCHANGED <<file, row, tasks, before, ws, boots, origin, unheard>>

\* writeGoadRangeId, as the user, who must own the directory.
Write(k, d, done, success) ==
  /\ at[k][d] = "write"
  /\ done => owner[ws[k][d]] = UserOf[d]
  /\ file' = IF done THEN [file EXCEPT ![ws[k][d]] = RangeOf[d]] ELSE file
  /\ unheard' = IF success /\ ~done THEN unheard \cup {ws[k][d]} ELSE unheard
  /\ at' = [at EXCEPT ![k][d] = IF success THEN "record" ELSE AfterFailure(k, d)]
  /\ UNCHANGED <<owner, row, tasks, before, ws, listed, boots, origin, reassigned>>

\* setInstanceRangeLocal, whose failure is logged, and updateTaskInstance in the loop.
Record(k, d, stored) ==
  /\ at[k][d] = "record"
  /\ row' = IF stored THEN [row EXCEPT ![ws[k][d]] = RangeOf[d]] ELSE row
  /\ inst' = IF k = "server" THEN [inst EXCEPT ![d] = ws[k][d]] ELSE inst
  /\ at' = [at EXCEPT ![k][d] = "linked"]
  /\ UNCHANGED <<owner, file, redeploys, job, made, before, ws, listed, boots, hist>>

\* The server restarts: loops and requests are gone, running tasks are aborted.
Restart ==
  /\ boots < MaxBoots
  /\ boots' = boots + 1
  /\ at' = [k \in Who |-> [d \in Deploys |-> IF at[k][d] \in AtRest THEN at[k][d] ELSE "over"]]
  /\ job' = [d \in Deploys |-> IF job[d] = "running" THEN "ended" ELSE job[d]]
  /\ UNCHANGED <<dirs, redeploys, inst, made, before, ws, listed, hist>>

-----------------------------------------------------------------------------
LoopStep(d) ==
  \/ \E w \in Workspaces, o \in Accounts \cup {Unresolved} : List(d, w, o)
  \/ ListNothing(d) \/ Postpone(d) \/ Skip(d) \/ Hold(d) \/ Accept(d)
  \/ Resume(d) \/ Again(d)

LinkStep(k, d) ==
  \/ \E done, success \in BOOLEAN : Chown(k, d, done, success) \/ Write(k, d, done, success)
  \/ \E stored \in BOOLEAN : Record(k, d, stored)

Asks(d) ==
  \E w \in Workspaces \cup {NoWs}, snapshot \in SUBSET Existing, announced \in BOOLEAN :
    Execute(d, w, snapshot, announced)

Next ==
  \/ \E d \in Deploys :
       \/ Asks(d)
       \/ \E w \in Workspaces : GoadMakes(d, w)
       \/ TaskEnds(d)
       \/ LoopStep(d)
       \/ GiveUp(d)
       \/ \E w \in Existing, o \in Accounts \cup {Unresolved}, admin \in BOOLEAN :
            SetRange(d, w, o, admin)
       \/ \E w \in Existing : PageLinks(d, w)
       \/ \E k \in Who : LinkStep(k, d)
  \/ \E w \in Workspaces, a \in Others : OthersMake(w, a)
  \/ Restart

Spec == Init /\ [][Next]_vars

\* Loops go on and commands answer or fail; the deadline passes some time; the
\* command of a task ends (GoadExecute).
Fairness ==
  \A d \in Deploys :
    /\ WF_vars(LoopStep(d))
    /\ SF_vars(GiveUp(d))
    /\ \A k \in Who : WF_vars(LinkStep(k, d))
    /\ WF_vars(TaskEnds(d))

FairSpec == Spec /\ Fairness

-----------------------------------------------------------------------------
(* Properties.                                                             *)

\* Every variable has the type its comment gives.
TypeOK ==
  /\ owner \in [Workspaces -> Accounts \cup {NoOne}]
  /\ file \in [Workspaces -> Ranges \cup {NoRange}]
  /\ row \in [Workspaces -> Ranges \cup {NoRange}]
  /\ redeploys \subseteq Deploys
  /\ job \in [Deploys -> {"none", "running", "ended"}]
  /\ inst \in [Deploys -> Workspaces \cup {NoWs}]
  /\ made \in [Deploys -> Workspaces \cup {NoWs}]
  /\ before \in [Deploys -> SUBSET Workspaces]
  /\ at \in [Who -> [Deploys -> Places]]
  /\ ws \in [Who -> [Deploys -> Workspaces \cup {NoWs}]]
  /\ listed \in [Deploys -> Accounts \cup {NoOne, Unresolved}]
  /\ boots \in 0..MaxBoots
  /\ origin \in [Workspaces -> Accounts \cup {NoOne}]
  /\ reassigned \subseteq Workspaces
  /\ unheard \subseteq Workspaces

\* The stages at which the loop, or the page, has the workspace in its hands.
Handling == [server |-> {"chown", "write", "record", "linked"}, page |-> {"record", "linked"}]

\* A workspace made for one user is never handed to, nor linked to a range of,
\* another one, whichever listings were out of date or without names, unless
\* an administrator handed it over.  The page's row alone may say so, when the
\* write that the user's account was refused counted as done.
ThirdPartyUntouched ==
  \A k \in Who, d \in Deploys : at[k][d] \in Handling[k] =>
    LET w == ws[k][d]
    IN  origin[w] \in {UserOf[d], Host} \/ w \in reassigned \/ (k = "page" /\ w \in unheard)

\* The loop never strikes off the workspace that its own deployment made, so
\* the deployment does not lose it while the owner has no name yet.  Again
\* an administrator may have taken it.
OwnNeverPassedOver ==
  \A d \in Deploys : made[d] # NoWs /\ made[d] \notin reassigned => made[d] \notin before[d]

\* A workspace with a row has its range file: a failed write leaves no row,
\* but for the range that the page of a redeployment announced and for a write
\* that counted as done without having been.
RowHasFile ==
  \A w \in Workspaces : row[w] # NoRange =>
    \/ file[w] # NoRange
    \/ w \in unheard
    \/ \E d \in redeploys \cap Wizards : ws["server"][d] = w /\ row[w] = RangeOf[d]

Ownership == INSTANCE WorkspaceOwnership
  WITH RangesOf <- [u \in Users |-> {RangeOf[d] : d \in {e \in Deploys : UserOf[e] = u}}]

\* The linkage as a whole: however old the listings, whatever fails or is raced by
\* the page, workspaces change hands and get their range files as WorkspaceOwnership
\* says.
ImplementsOwnership == Ownership!Spec

\* Every loop ends: each time some are under way, a time comes when none is, for
\* a loop that holds a workspace or lost sight of it goes back to its deadline.
LinkageEnds ==
  []<>(\A d \in Deploys : at["server"][d] \in AtRest)
=============================================================================
