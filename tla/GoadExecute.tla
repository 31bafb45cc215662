---------------------------- MODULE GoadExecute ----------------------------
(***************************************************************************)
(* One execution of a GOAD command: the execute route                      *)
(* (src/src/app/api/goad/execute/route.ts), streamGoadCommand              *)
(* (src/src/lib/goad/goad-ssh.ts), the cleanup registry                    *)
(* (src/src/lib/core/task-cleanup-registry.ts) and the stop route          *)
(* (src/src/app/api/goad/tasks/[taskId]/stop/route.ts).                    *)
(*                                                                         *)
(* streamGoadCommand awaits its preparations, connects, writes an          *)
(* environment file over one channel and runs goad.sh in a PTY on another. *)
(* A command that provisions extensions is split in two sessions on the    *)
(* same connection.  Stop requests arrive at any moment in between.  The   *)
(* status is the one kept by completeTask (module GoadTaskStore).          *)
(***************************************************************************)
EXTENDS Naturals

CONSTANTS
  MaxStops,     \* bound: stop requests
  Signals       \* TRUE if the remote shell may die of a signal

ASSUME ConstantsAssumption == MaxStops \in Nat /\ Signals \in BOOLEAN

VARIABLES
  status,     \* the task's status in the store
  stage,      \* how far streamGoadCommand has come
  split,      \* TRUE if the command runs in two sessions
  silent,     \* TRUE if the connection may fail without an error event
  registry,   \* what the cleanup registry holds for the task
  ending,     \* TRUE once a cleanup has scheduled conn.end()
  sessions,   \* number of PTY sessions opened so far
  host,       \* the remote command of the last session
  fate,       \* how the last remote command ended
  failure,    \* the task's log shows that GOAD failed
  interrupt,  \* the session's output shows KeyboardInterrupt
  ctrlC,      \* history: a running command was sent Ctrl+C
  stops       \* number of stop requests so far

vars == <<status, stage, split, silent, registry, ending, sessions, host, fate, failure,
          interrupt, ctrlC, stops>>

\* What only the remote side and the stop requests change.
remote == <<sessions, host, fate, failure, interrupt, ctrlC, stops>>

Statuses == {"running", "completed", "error", "aborted"}
Stages   == {"preflight", "connecting", "env1", "pty1", "env2", "pty2", "over"}
InPty    == stage \in {"pty1", "pty2"}
InEnv    == stage \in {"env1", "env2"}
Fates    == {"zero", "nonzero"} \cup (IF Signals THEN {"signal"} ELSE {})

Init ==
  /\ status = "running"
  /\ stage = "preflight"
  /\ split \in BOOLEAN
  /\ silent \in BOOLEAN
  /\ registry = "none"
  /\ ending = FALSE
  /\ sessions = 0
  /\ host = "none"
  /\ fate = "none"
  /\ failure = FALSE
  /\ interrupt = FALSE
  /\ ctrlC = FALSE
  /\ stops = 0

-----------------------------------------------------------------------------
(* The three callers of completeTask.                                      *)

\* completeTask: the status after a report st reaches a task in status now.
Ended(now, st) == IF now = "running" \/ (now = "aborted" /\ st = "error") THEN st ELSE now

\* Mutant of Verdict: trusts the exit code, as GOAD's REPL exits 0 after an error.
VerdictByCode(now, failed, code) ==
  IF now = "running" THEN Ended(now, IF code = "zero" THEN "completed" ELSE "error") ELSE now

\* The status onClose leaves.
Verdict(now, failed, code) ==
  IF failed THEN Ended(now, "error")
  ELSE IF now = "running" THEN Ended(now, IF code = "zero" THEN "completed" ELSE "error")
  ELSE now

\* Mutant of OnClose: the cleanup stays registered.
OnCloseRegistered(code) ==
  /\ stage' = "over"
  /\ status' = Verdict(status, failure, code)
  /\ UNCHANGED registry

\* onClose of the execute route.
OnClose(code) ==
  /\ stage' = "over"
  /\ registry' = "none"
  /\ status' = Verdict(status, failure, code)

\* Mutant of OnError: does not complete the task.
OnErrorUnreported ==
  /\ stage' = "over"
  /\ registry' = "none"
  /\ UNCHANGED status

\* onError of the execute route.
OnError ==
  /\ stage' = "over"
  /\ registry' = "none"
  /\ status' = Ended(status, "error")

-----------------------------------------------------------------------------
(* streamGoadCommand.                                                      *)

\* A preparation fails: onError, then the empty function it returns is
\* registered by the route's then().
PreflightFails ==
  /\ stage = "preflight"
  /\ stage' = "over"
  /\ status' = Ended(status, "error")
  /\ registry' = "noop"
  /\ UNCHANGED <<split, silent, ending, remote>>

\* The preparations are done: conn.connect, and the cleanup is registered.
Connect ==
  /\ stage = "preflight"
  /\ stage' = "connecting"
  /\ registry' = "cleanup"
  /\ UNCHANGED <<status, split, silent, ending, remote>>

\* conn.connect throws (a private key it cannot parse): the promise is rejected,
\* the route's then() has no catch, and nobody reports an end.
ConnectThrows ==
  /\ silent
  /\ stage = "preflight"
  /\ stage' = "over"
  /\ UNCHANGED <<status, split, silent, registry, ending, remote>>

Ready ==
  /\ stage = "connecting"
  /\ stage' = "env1"
  /\ UNCHANGED <<status, split, silent, registry, ending, remote>>

\* The connection is refused, a channel does not open, or the environment file
\* cannot be written.
SetupFails ==
  /\ stage = "connecting" \/ InEnv
  /\ OnError
  /\ UNCHANGED <<split, silent, ending, remote>>

\* writeEnvFile is done and the PTY command starts on the host.
PtyOpens ==
  /\ InEnv
  /\ stage' = IF stage = "env1" THEN "pty1" ELSE "pty2"
  /\ sessions' = sessions + 1
  /\ host' = "running"
  /\ fate' = "none"
  /\ interrupt' = FALSE
  /\ UNCHANGED <<status, split, silent, registry, ending, failure, ctrlC, stops>>

\* The remote command ends by itself or of the Ctrl+C, having printed what it
\* printed.  A program that handles the signal need not print KeyboardInterrupt.
HostExits(f) ==
  /\ InPty
  /\ host \in {"running", "interrupted"}
  /\ host' = "exited"
  /\ fate' = f
  /\ failure' \in (IF failure THEN {TRUE} ELSE BOOLEAN)
  /\ interrupt' \in (IF host = "interrupted" THEN BOOLEAN ELSE {FALSE})
  /\ UNCHANGED <<status, stage, split, silent, registry, ending, sessions, ctrlC, stops>>

\* A command whose connection is gone ends: of the hangup, or by itself.
\* ansible-playbook ignores the hangup, and nothing makes it end.
LeftBehindEnds ==
  /\ stage = "over"
  /\ host \in {"running", "interrupted"}
  /\ host' = "exited"
  /\ UNCHANGED <<status, stage, split, silent, registry, ending, sessions, fate, failure,
                 interrupt, ctrlC, stops>>

\* The exit code a channel close reports: none after a signal, and "code ?? 0".
Reported(f) == IF f = "nonzero" THEN "nonzero" ELSE "zero"

\* Phase 1 may be followed by the extension phase.
MayExtend(code) == code = "zero" /\ ~interrupt /\ ~failure

\* Mutant of PtyCloses: phase 1 reports its own exit code when it cannot go on.
PtyClosesEarly ==
  LET code == Reported(fate)
  IN /\ InPty
     /\ host = "exited"
     /\ IF stage = "pty1" /\ split
        THEN \/ MayExtend(code) /\ stage' = "env2" /\ UNCHANGED <<status, registry>>
             \/ OnClose(code)
        ELSE OnClose(IF stage = "pty2" /\ failure THEN "nonzero" ELSE code)
     /\ UNCHANGED <<split, silent, ending, remote>>

\* The PTY closes: onSessionEnd.
PtyCloses ==
  LET code == Reported(fate)
  IN /\ InPty
     /\ host = "exited"
     /\ IF stage = "pty1" /\ split
        THEN \/ MayExtend(code) /\ stage' = "env2" /\ UNCHANGED <<status, registry>>
             \/ OnClose("nonzero")     \* stopped, failed, or no instance id found
        ELSE OnClose(IF stage = "pty2" /\ failure THEN "nonzero" ELSE code)
     /\ UNCHANGED <<split, silent, ending, remote>>

\* The connection breaks with an error event; the host keeps what it runs.
LinkLost ==
  /\ InPty \/ InEnv
  /\ OnError
  /\ UNCHANGED <<split, silent, ending, remote>>

\* The open channels close without an exit code because the connection ended.
ChannelsEnd ==
  IF InPty
  THEN IF stage = "pty1" /\ split
       THEN IF MayExtend("zero") THEN stage' = "over" /\ UNCHANGED <<status, registry>>
            ELSE OnClose("nonzero")
       ELSE OnClose("zero")
  ELSE OnError

\* The peer closes the connection without an error event.  Phase 1 of a split
\* command then opens a channel on it, which throws, and nothing is reported.
LinkEnds ==
  /\ silent
  /\ InPty \/ InEnv
  /\ ChannelsEnd
  /\ UNCHANGED <<split, silent, ending, remote>>

-----------------------------------------------------------------------------
(* Stop.                                                                   *)

\* Mutant of StopAs: leaves the report to the close of a PTY that was interrupted.
StopAsUnlessKilled(asError) ==
  IF registry = "cleanup" /\ InPty THEN status
  ELSE Ended(status, IF asError THEN "error" ELSE "aborted")

\* Mutant of StopAs: a status the store does not know.
StopAsUnknown(asError) == Ended(status, IF asError THEN "error" ELSE "stopped")

\* The status a stop request leaves.
StopAs(asError) == Ended(status, IF asError THEN "error" ELSE "aborted")

\* POST stop: invokeCleanup, which writes Ctrl+C to the last PTY opened and
\* schedules conn.end(), then completeTask.
Stop(asError) ==
  /\ stops < MaxStops
  /\ stops' = stops + 1
  /\ registry' = "none"
  /\ ending' = (ending \/ registry = "cleanup")
  /\ IF registry = "cleanup" /\ InPty /\ host = "running"
     THEN host' = "interrupted" /\ ctrlC' = TRUE
     ELSE UNCHANGED <<host, ctrlC>>
  /\ status' = StopAs(asError)
  /\ UNCHANGED <<stage, split, silent, sessions, fate, failure, interrupt>>

\* The timer of the cleanup: conn.end().
EndConnection ==
  /\ ending
  /\ stage \notin {"preflight", "over"}
  /\ IF stage = "connecting"
     THEN OnError \/ (stage' = "over" /\ UNCHANGED <<status, registry>>)
     ELSE ChannelsEnd
  /\ UNCHANGED <<split, silent, ending, remote>>

\* The execution is over and no stop request is left to make.
Finished ==
  /\ stage = "over"
  /\ stops = MaxStops
  /\ UNCHANGED vars

Progress ==
  \/ PreflightFails
  \/ Connect
  \/ ConnectThrows
  \/ Ready
  \/ SetupFails
  \/ PtyOpens
  \/ \E f \in Fates : HostExits(f)
  \/ PtyCloses
  \/ LinkLost
  \/ LinkEnds
  \/ EndConnection

Next ==
  \/ Progress
  \/ LeftBehindEnds
  \/ \E asError \in BOOLEAN : Stop(asError)
  \/ Finished

Spec == Init /\ [][Next]_vars

\* The preparations settle, the SSH library answers every request or reports an
\* error (readyTimeout, keepaliveInterval), and the remote command ends.
FairSpec == Spec /\ WF_vars(Progress)

-----------------------------------------------------------------------------
(* Properties.                                                             *)

\* Every variable has the type its comment gives.
TypeOK ==
  /\ status \in Statuses
  /\ stage \in Stages
  /\ split \in BOOLEAN
  /\ silent \in BOOLEAN
  /\ registry \in {"none", "cleanup", "noop"}
  /\ ending \in BOOLEAN
  /\ sessions \in 0..2
  /\ host \in {"none", "running", "interrupted", "exited"}
  /\ fate \in {"none"} \cup Fates
  /\ failure \in BOOLEAN
  /\ interrupt \in BOOLEAN
  /\ ctrlC \in BOOLEAN
  /\ stops \in 0..MaxStops

\* task-cleanup-registry.ts with the execute route: a cleanup that is registered
\* acts on a connection that is still in use, as long as failures are reported.
CleanupIsLive == ~silent /\ registry = "cleanup" => stage \notin {"preflight", "over"}

\* stop route, onClose: a command that was sent Ctrl+C is never reported as
\* completed, even though its PTY closes with exit code 0 and its output need not
\* show the interruption.
InterruptedNotCompleted == ctrlC => status # "completed"

\* onClose: a task whose log shows a GOAD failure is never reported as
\* completed, whatever the exit code and however many sessions it had.
FailureNotCompleted == status = "completed" => ~failure

\* onSessionEnd, onClose: channels that close without an exit code count as
\* successes, and a split command has a session that is only half of it; all the
\* same, with failures reported, the command of a completed task has ended on the
\* host, not with an error code, in the last of its sessions.
CompletedRanToEnd ==
  ~silent /\ status = "completed" =>
    host = "exited" /\ fate # "nonzero" /\ sessions = IF split THEN 2 ELSE 1

\* execute route: when every failure of the connection is reported, a task that
\* is running ends, with or without a Stop.
TaskEnds == ~silent /\ status = "running" ~> status # "running"

-----------------------------------------------------------------------------
(* Statements of the source that the code does not keep.                   *)

\* stop route: "Kills the in-flight SSH/ansible process for a task by invoking
\* its registered cleanup function (sends Ctrl+C to the PTY then closes the SSH
\* connection)".  When an execution is over and its task was aborted, with
\* failures reported, no command is left on the host that was not sent Ctrl+C.
StoppedCommandEnds == ~silent /\ stage = "over" /\ status = "aborted" => host # "running"

\* execute route, on a client that goes away: "Lines continue to flow into
\* appendLine/goad-task-store so the task completes normally".
EveryTaskEnds == status = "running" ~> status # "running"
=============================================================================
