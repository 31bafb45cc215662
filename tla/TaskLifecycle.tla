--------------------------- MODULE TaskLifecycle ---------------------------
(***************************************************************************)
(* What the GOAD task store promises about the status of a task: a task is *)
(* created running, ends once, an ended task is never reopened, and the    *)
(* one revision allowed is an abort that turns out to have been a failure  *)
(* (src/src/lib/goad/goad-task-store.ts, completeTask).  Several tasks may *)
(* change in one step: creating one evicts the oldest, and a restart ends  *)
(* every task that was running.                                            *)
(***************************************************************************)
CONSTANT Ids            \* task identifiers

VARIABLE status         \* status[t]: the life of task t, as a client sees it

Terminal == {"completed", "error", "aborted"}
Lives    == {"none", "running", "gone"} \cup Terminal

\* The statuses a task may be in one step after being in status s.
Successors(s) ==
  CASE s = "none"      -> {"none", "running"}
    [] s = "running"   -> {"running", "gone"} \cup Terminal
    [] s = "completed" -> {"completed", "gone"}
    [] s = "aborted"   -> {"aborted", "error", "gone"}
    [] s = "error"     -> {"error", "gone"}
    [] s = "gone"      -> {"gone"}

Init == status = [t \in Ids |-> "none"]

Next == /\ status' \in [Ids -> Lives]
        /\ \A t \in Ids : status'[t] \in Successors(status[t])

Spec == Init /\ [][Next]_status
=============================================================================
