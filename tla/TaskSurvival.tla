---------------------------- MODULE TaskSurvival ----------------------------
(***************************************************************************)
(* What is left of TaskLifecycle when power may be lost and a task may be  *)
(* linked again and again, as long as writes succeed                       *)
(* (src/src/lib/goad/goad-task-store.ts, hydrateFromDb).  While the        *)
(* process runs, TaskLifecycle holds.  A restart may lose what SQLite had  *)
(* not saved: the verdict on an ended task changes or the task is gone, an *)
(* evicted one comes back.  But no restart leaves a task running or makes  *)
(* one run again, and a task that was running is never made a success.     *)
(***************************************************************************)
EXTENDS TaskLifecycle, Naturals

VARIABLE boots          \* number of restarts so far

\* The statuses a restart may leave a task in that had status s.
AfterRestart(s) ==
  CASE s = "none"    -> {"none"}
    [] s = "running" -> {"error", "gone"}
    [] OTHER         -> Terminal \cup {"gone"}

Served == Next /\ UNCHANGED boots

Restart ==
  /\ boots' = boots + 1
  /\ status' \in [Ids -> Lives]
  /\ \A t \in Ids : status'[t] \in AfterRestart(status[t])

Survives == Init /\ boots = 0 /\ [][Served \/ Restart]_<<status, boots>>
=============================================================================
