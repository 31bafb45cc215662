----------------------------- MODULE TestingOps -----------------------------
(***************************************************************************)
(* Starting and stopping testing mode on one range: the table range_ops    *)
(* (src/src/lib/range/range-op-store.ts), its route                        *)
(* (src/src/app/api/range/ops/route.ts) and the evidence it goes by        *)
(* (src/src/lib/testing/testing-mode-pb-reconcile.ts).                     *)
(*                                                                         *)
(* A POST creates an operation and keeps working on it: it marks the log,  *)
(* waits minutes for Ludus, then checks for completion a few times.        *)
(* Meanwhile the page polls, dismisses the operation or posts another one, *)
(* every poll running the same check, and the server may restart.  A check *)
(* works on the row it read when it began.                                 *)
(*                                                                         *)
(* Ludus, PocketBase and the Ansible log are external: a job of LUX or of  *)
(* another client may end at any moment, and of the log only the kind of   *)
(* the newest clean recap after a position matters and which jobs without  *)
(* one have written their tasks around it, whole or not at all.  An answer *)
(* is current when it arrives.  The row for the activity list that goes    *)
(* with every end of an operation is never read back and is left out.      *)
(***************************************************************************)
EXTENDS Integers, FiniteSets

CONSTANTS
  MaxOps,      \* bound: operations posted
  MaxServed,   \* bound: requests the server works on at a time
  MaxBoots,    \* bound: restarts of the server
  Unclean      \* bound: whether a job may be in the log without a clean recap

ASSUME ConstantsAssumption == {MaxOps, MaxServed, MaxBoots} \subseteq Nat /\ Unclean \in BOOLEAN

VARIABLES
  kind,      \* kind[o]: what operation o does
  status,    \* status[o]: its row's status, "none" before, "pruned" afterwards
  age,       \* age[o]: how long ago it started
  since,     \* since[o]: the log after o's marker, which is the log's start at first
  stage,     \* stage[o]: what the POST that created o waits for
  at,        \* at[w][o]: what the check of o by w, a POST or a poll, waits for
  sawOn,     \* sawOn[w][o]: PocketBase told that check that testing is on
  retried,   \* testingStopRetriedOpIds
  boots,     \* number of restarts so far
  testing,   \* "on" while the range is in testing mode
  pb,        \* PocketBase's testingEnabled
  settled,   \* history: operations that have been completed or failed
  backed,    \* history: operations for which the range was as they want it, or others said so
  misled,    \* history: operations proved complete by a job without a clean recap
  stops      \* history: stops[o], automatic stops sent for o since the boot

rows  == <<kind, status, age, since>>
procs == <<stage, at, sawOn, retried, boots>>
world == <<testing, pb>>
hist  == <<settled, backed, misled, stops>>
vars  == <<rows, procs, world, hist>>

Ids  == 1..MaxOps
Who  == {"post", "poll"}

Kinds    == {"start", "stop"}
Statuses == {"none", "pending", "running", "completed", "error", "pruned"}
Terminal == {"completed", "error"}
Stages   == {"none", "marking", "put"}
Places   == {"idle", "pb", "log", "late", "patch"}

\* Ages: under 4 min, from 4 min, over 20 min.  After 30 min the row goes.
Fresh   == 0
RetryMs == 1
MaxAge  == 2

\* expectedTestingEnabled.
Expected(o) == IF kind[o] = "start" THEN "on" ELSE "off"
Flags       == {"on", "off"}

\* The newest clean recap, if any ("other" is a deployment's), the other jobs that
\* wrote their tasks between the recap before it and the end of the log, and the
\* jobs that wrote theirs since the last recap of all.
Log   == [clean : Kinds \cup {"none", "other"}, more : SUBSET Kinds, open : SUBSET Kinds]
NoLog == [clean |-> "none", more |-> {}, open |-> {}]

\* The log l after a clean recap of r.
Recap(l, r) == [clean |-> r, more |-> l.open \ {r}, open |-> {}]

\* The server takes another request.
Serves ==
  Cardinality({o \in Ids : stage[o] # "none"})
    + Cardinality({wo \in Who \X Ids : at[wo[1]][wo[2]] # "idle"}) < MaxServed

NoCheck == [w \in Who |-> [o \in Ids |-> "idle"]]
NotSeen == [w \in Who |-> [o \in Ids |-> FALSE]]

Init ==
  /\ kind = [o \in Ids |-> "start"]
  /\ status = [o \in Ids |-> "none"]
  /\ age = [o \in Ids |-> Fresh]
  /\ stage = [o \in Ids |-> "none"]
  /\ at = NoCheck
  /\ sawOn = NotSeen
  /\ retried = {}
  /\ boots = 0
  /\ testing \in Flags
  /\ pb = testing
  /\ since = [o \in Ids |-> IF testing = "on" THEN Recap(NoLog, "start") ELSE NoLog]
  /\ settled = {}
  /\ backed = {}
  /\ misled = {}
  /\ stops = [o \in Ids |-> 0]

-----------------------------------------------------------------------------
(* The table.                                                              *)

\* The rows there are.
Rows == {o \in Ids : status[o] \notin {"none", "pruned"}}

\* Rows getActiveRangeOp looks at.
Active == {o \in Ids : status[o] \in {"pending", "running"}}

\* The row it returns.
IsNewest(o) == o \in Active /\ \A p \in Active : p <= o

\* completeRangeOp and forgetTestingStopRetry, whatever the row says by now.
Settle(o, s) ==
  /\ status' = [status EXCEPT ![o] = s]
  /\ retried' = retried \ {o}
  /\ settled' = settled \cup {o}

-----------------------------------------------------------------------------
(* POST.                                                                   *)

\* Mutant of Posted: the operation in progress is left alone.
PostedBeside(o) == [status EXCEPT ![o] = "pending"]

\* Mutant of Posted: a status the table does not know.
PostedUnknown(o) ==
  [p \in Ids |-> IF p = o THEN "pending" ELSE IF IsNewest(p) THEN "superseded" ELSE status[p]]

\* The rows after a POST: the operation in progress, if any, is superseded.
Posted(o) ==
  [p \in Ids |-> IF p = o THEN "pending" ELSE IF IsNewest(p) THEN "error" ELSE status[p]]

\* The part of a POST before its first await.
Post(o, k) ==
  /\ Serves
  /\ status[o] = "none"
  /\ \A p \in Ids : p < o => status[p] # "none"
  /\ status' = Posted(o)
  /\ retried' = {p \in retried : ~IsNewest(p)}
  /\ settled' = settled \cup {p \in Ids : status'[p] \in Terminal}
  /\ kind' = [kind EXCEPT ![o] = k]
  /\ stage' = [stage EXCEPT ![o] = "marking"]
  /\ backed' = backed \cup {p \in {o} : Expected(p)' \in {testing, pb}}
  /\ UNCHANGED <<age, since, at, sawOn, boots, world, misled, stops>>

\* noteTestingOpLogMarker: after an unreadable log the marker is at the start.
Mark(o) ==
  /\ stage[o] = "marking"
  /\ stage' = [stage EXCEPT ![o] = "put"]
  /\ since' \in {since, [since EXCEPT ![o] = NoLog]}
  /\ UNCHANGED <<kind, status, age, at, sawOn, retried, boots, world, hist>>

\* The certificate preflight of a start fails, or Ludus refuses.
Refused(o) ==
  /\ stage[o] = "put"
  /\ stage' = [stage EXCEPT ![o] = "none"]
  /\ Settle(o, "error")
  /\ UNCHANGED <<kind, age, since, at, sawOn, boots, world, backed, misled, stops>>

\* Mutant of First: an operation never gets too old.
FirstForever(o) == "pb"

\* Where checkCompletion begins for a row that says running.
First(o) == IF age[o] = MaxAge THEN "late" ELSE "pb"

\* The request returns, times out or cannot connect (status 0): the row is set
\* to running whatever it says by now, and the POST begins to check.
Returns(o) ==
  /\ stage[o] = "put"
  /\ stage' = [stage EXCEPT ![o] = "none"]
  /\ status' = [status EXCEPT ![o] = "running"]
  /\ at' = [at EXCEPT !["post"][o] = First(o)]
  /\ UNCHANGED <<kind, age, since, sawOn, retried, boots, world, hist>>

\* POST with dismissStuckOp.
Dismiss(o) ==
  /\ IsNewest(o)
  /\ Settle(o, "error")
  /\ UNCHANGED <<kind, age, since, stage, at, sawOn, boots, world, backed, misled, stops>>

-----------------------------------------------------------------------------
(* GET and checkCompletion.                                                *)

\* A poll takes the operation in progress; a pending one is set to running at
\* once, a running one is checked.
PollOp(o) ==
  /\ Serves
  /\ at["poll"] = NoCheck["poll"]
  /\ IsNewest(o)
  /\ IF status[o] = "pending"
     THEN status' = [status EXCEPT ![o] = "running"] /\ UNCHANGED at
     ELSE at' = [at EXCEPT !["poll"][o] = First(o)] /\ UNCHANGED status
  /\ UNCHANGED <<kind, age, since, stage, sawOn, retried, boots, world, hist>>

\* The check of o by w goes on to s.
Goto(w, o, s) == at' = [at EXCEPT ![w][o] = s]

\* It ends without success: a POST checks up to six times.
Inconclusive(w, o) == Goto(w, o, "idle") \/ (w = "post" /\ Goto(w, o, First(o)))

\* It ends with success.
Success(w, o) == Settle(o, "completed") /\ Goto(w, o, "idle")

\* PocketBase answers.
PbAgrees(w, o) ==
  /\ at[w][o] = "pb"
  /\ pb = Expected(o)
  /\ Success(w, o)
  /\ UNCHANGED <<kind, age, since, stage, sawOn, boots, world, backed, misled, stops>>

\* PocketBase answers otherwise, or not at all.
PbDisagrees(w, o) ==
  /\ at[w][o] = "pb"
  /\ Goto(w, o, "log")
  /\ \E seen \in BOOLEAN :
       /\ seen => pb = "on" /\ Expected(o) = "off"
       /\ sawOn' = [sawOn EXCEPT ![w][o] = seen]
  /\ UNCHANGED <<rows, stage, retried, boots, world, hist>>

\* isTestingStartRunWindow and isTestingStopRunWindow: the tasks of the kind are in
\* the window, and for a stop those of a start are not.
Shows(k, texts) == k \in texts /\ (k = "stop" => "start" \notin texts)

\* Mutant of Proves: any job's clean recap will do.
ProvesAny(o) == since[o].clean # "none"

\* testingOpLogSliceProvesComplete: there is a clean recap, and the window from the
\* recap before it to the end of the log shows the kind.
Proves(o) ==
  since[o].clean # "none" /\ Shows(kind[o], {since[o].clean} \cup since[o].more)

\* The log proves the operation complete.  (A poll does not ask in the first
\* ten seconds.)
LogProves(w, o) ==
  /\ at[w][o] \in {"log", "late"}
  /\ Proves(o)
  /\ Goto(w, o, "patch")
  /\ sawOn' = [sawOn EXCEPT ![w][o] = FALSE]
  /\ misled' = misled \cup {p \in {o} : kind[o] \in since[o].more}
  /\ UNCHANGED <<rows, stage, retried, boots, world, settled, backed, stops>>

\* Nor does it for an operation older than 20 minutes.
GiveUp(w, o) ==
  /\ at[w][o] = "late"
  /\ Settle(o, "error")
  /\ Inconclusive(w, o)
  /\ UNCHANGED <<kind, age, since, stage, sawOn, boots, world, backed, misled, stops>>

\* Ludus's API agrees.
LudusAgrees(w, o) ==
  /\ at[w][o] = "log"
  /\ testing = Expected(o)
  /\ Goto(w, o, "patch")
  /\ sawOn' = [sawOn EXCEPT ![w][o] = FALSE]
  /\ UNCHANGED <<rows, stage, retried, boots, world, hist>>

\* Mutant of MayRetry: nobody remembers that it was done.
MayRetryOften(w, o) == kind[o] = "stop" /\ sawOn[w][o] /\ age[o] = RetryMs

\* The automatic second stop.
MayRetry(w, o) == kind[o] = "stop" /\ sawOn[w][o] /\ age[o] = RetryMs /\ o \notin retried

\* Mutant of LudusDisagrees: the row the check has read is written back.
LudusDisagreesSaving(w, o) ==
  /\ at[w][o] = "log"
  /\ Inconclusive(w, o)
  /\ status' = [status EXCEPT ![o] = "running"]
  /\ sawOn' = [sawOn EXCEPT ![w][o] = FALSE]
  /\ UNCHANGED <<kind, age, since, stage, retried, boots, world, hist>>

\* It does not, or does not answer: an old stop is asked for once more, and
\* nobody waits for the outcome.
LudusDisagrees(w, o) ==
  /\ at[w][o] = "log"
  /\ Inconclusive(w, o)
  /\ IF MayRetry(w, o)
     THEN /\ retried' = retried \cup {o}
          /\ stops' = [stops EXCEPT ![o] = IF @ < 2 THEN @ + 1 ELSE @]
     ELSE UNCHANGED <<retried, stops>>
  /\ sawOn' = [sawOn EXCEPT ![w][o] = FALSE]
  /\ UNCHANGED <<rows, stage, boots, world, settled, backed, misled>>

\* An attempt of syncPbTestingEnabledWithRetries reaches PocketBase.
Patch(w, o) ==
  /\ at[w][o] = "patch"
  /\ pb' = Expected(o)
  /\ backed' = backed \cup {p \in Rows \ {o} : Expected(p) = Expected(o)}
  /\ UNCHANGED <<rows, procs, testing, settled, misled, stops>>

\* completeTestingOpSuccess after the attempts.
Complete(w, o) ==
  /\ at[w][o] = "patch"
  /\ Success(w, o)
  /\ UNCHANGED <<kind, age, since, stage, sawOn, boots, world, backed, misled, stops>>

-----------------------------------------------------------------------------
(* Time, the server, and what is not LUX.                                  *)

\* Time passes for o, never faster than for the operations before it.
Tick(o) ==
  /\ o \in Rows
  /\ age[o] < MaxAge
  /\ \A p \in Ids : p < o => age[p] > age[o] \/ status[p] = "pruned"
  /\ age' = [age EXCEPT ![o] = @ + 1]
  /\ UNCHANGED <<kind, status, since, procs, world, hist>>

\* o is half an hour old: no request sees the row and the next one deletes it.
\* Requests of its own are over by then (the longest waits five minutes).
Expire(o) ==
  /\ age[o] = MaxAge
  /\ stage[o] = "none"
  /\ \A w \in Who : at[w][o] = "idle"
  /\ \A p \in Ids : p < o => status[p] = "pruned"
  /\ status' = [status EXCEPT ![o] = "pruned"]
  /\ age' = [age EXCEPT ![o] = Fresh]
  /\ kind' = [kind EXCEPT ![o] = "start"]
  /\ since' = [since EXCEPT ![o] = NoLog]
  /\ settled' = settled \ {o}
  /\ backed' = backed \ {o}
  /\ misled' = misled \ {o}
  /\ stops' = [stops EXCEPT ![o] = 0]
  /\ UNCHANGED <<procs, world>>

\* The server restarts: the rows and their markers stay.
Restart ==
  /\ boots < MaxBoots
  /\ boots' = boots + 1
  /\ stage' = [o \in Ids |-> "none"]
  /\ at' = NoCheck
  /\ sawOn' = NotSeen
  /\ retried' = {}
  /\ stops' = [o \in Ids |-> 0]
  /\ UNCHANGED <<rows, world, settled, backed, misled>>

\* The log after each operation's marker is now as in `after`.
Logged(after) ==
  since' = [o \in Ids |-> IF status[o] = "pruned" THEN NoLog ELSE after[o]]

\* A job ends well: one that LUX or another client asked for.
JobEnds(k) ==
  /\ testing' = IF k = "start" THEN "on" ELSE "off"
  /\ Logged([o \in Ids |-> Recap(since[o], k)])
  /\ backed' = backed \cup {o \in Rows : kind[o] = k}
  /\ UNCHANGED <<kind, status, age, procs, pb, settled, misled, stops>>

\* A job has written its tasks, and then goes on or is killed.
JobWrites(k) ==
  /\ Unclean
  /\ Logged([o \in Ids |->
       [since[o] EXCEPT !.open = @ \cup {k},
                        !.more = IF since[o].clean \in {"none", k} THEN @ ELSE @ \cup {k}]])
  /\ UNCHANGED <<kind, status, age, procs, world, hist>>

\* A job ends with a recap that is not clean.
JobFails ==
  /\ Unclean
  /\ Logged([o \in Ids |-> [since[o] EXCEPT !.open = {}]])
  /\ UNCHANGED <<kind, status, age, procs, world, hist>>

\* A deployment leaves its recap.
DeployEnds ==
  /\ Logged([o \in Ids |-> Recap(since[o], "other")])
  /\ UNCHANGED <<kind, status, age, procs, testing, pb, hist>>

\* Ludus writes the flag to PocketBase.
PbSyncs ==
  /\ pb' = testing
  /\ UNCHANGED <<rows, procs, testing, hist>>

CheckStep(w, o) ==
  \/ PbAgrees(w, o)
  \/ PbDisagrees(w, o)
  \/ LogProves(w, o)
  \/ GiveUp(w, o)
  \/ LudusAgrees(w, o)
  \/ LudusDisagrees(w, o)
  \/ Complete(w, o)

OpStep(o) ==
  \/ \E k \in Kinds : Post(o, k)
  \/ Mark(o)
  \/ Refused(o)
  \/ Returns(o)
  \/ Dismiss(o)
  \/ PollOp(o)
  \/ \E w \in Who : CheckStep(w, o) \/ Patch(w, o)
  \/ Tick(o)
  \/ Expire(o)

Next ==
  \/ \E o \in Ids : OpStep(o)
  \/ Restart
  \/ \E k \in Kinds : JobEnds(k) \/ JobWrites(k)
  \/ JobFails
  \/ DeployEnds
  \/ PbSyncs

Spec == Init /\ [][Next]_vars

\* The page polls while it shows an operation in progress, and every request of a
\* check is answered or times out.  Nothing is asked of time.
FairSpec ==
  /\ Spec
  /\ \A o \in Ids : WF_vars(PollOp(o)) /\ WF_vars(CheckStep("poll", o))

-----------------------------------------------------------------------------
(* Properties.                                                             *)

\* Every variable has the type its comment gives.
TypeOK ==
  /\ kind \in [Ids -> Kinds]
  /\ status \in [Ids -> Statuses]
  /\ age \in [Ids -> Fresh..MaxAge]
  /\ since \in [Ids -> Log]
  /\ stage \in [Ids -> Stages]
  /\ at \in [Who -> [Ids -> Places]]
  /\ sawOn \in [Who -> [Ids -> BOOLEAN]]
  /\ retried \subseteq Ids
  /\ boots \in 0..MaxBoots
  /\ testing \in Flags
  /\ pb \in Flags
  /\ settled \subseteq Ids
  /\ backed \subseteq Ids
  /\ misled \subseteq Ids
  /\ stops \in [Ids -> 0..2]

\* checkCompletion: an operation is completed only if, since it was posted, the
\* range was as the operation wants it, or PocketBase said so and not on the word
\* of the operation's own patch.  The one exception: a job of its kind that failed,
\* was killed or still runs passes for a proof beside another job's clean recap.
\* Neither an old recap in a log that was unreadable at the start, nor a superseded
\* request, nor a restart makes up a success.
SuccessIsReal == \A o \in Ids : status[o] = "completed" => o \in backed \cup misled

\* POST: of two operations in progress the older has been ended before, and its
\* own late request has set it back to running.
OneInProgress ==
  \A o, p \in Ids : o < p /\ {o, p} \subseteq Active => o \in settled

\* testingStopRetriedOpIds: an operation that was never ended is not sent a second
\* automatic stop, however many checks run side by side.
OneAutomaticStop == \A o \in Ids : stops[o] > 1 => o \in settled

RangeOps == INSTANCE RangeOpLifecycle WITH waits <- [o \in Ids |-> stage[o] # "none"]

\* range-op-store.ts with its route: rows are posted, ended, set back and pruned as
\* RangeOpLifecycle says.  In particular an operation that has ended is set back at
\* most once, and posting one leaves no other the newest in progress.
ImplementsRangeOps == RangeOps!Spec

\* TESTING_OP_MAX_AGE_MS: the operation a page shows as in progress is ended soon
\* after 20 minutes, whatever Ludus, PocketBase and restarts do, without waiting
\* for its row to expire.
TimedOutSettles ==
  \A o \in Ids :
    IsNewest(o) /\ age[o] = MaxAge ~> ~(IsNewest(o) /\ age[o] = MaxAge)
=============================================================================
