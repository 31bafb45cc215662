------------------------ MODULE GoadExecute_proofs ------------------------
(***************************************************************************)
(* Proofs about GoadExecute, for every bound on the stop requests, with    *)
(* and without unreported connection failures and signals.                 *)
(*                                                                         *)
(* The exit code of a PTY that was sent Ctrl+C is 0, so what keeps such a  *)
(* command from being reported as completed is the order of two calls: the *)
(* stop route ends the task before the PTY can close.  The invariant       *)
(* EndedFirst says so: a task that was sent Ctrl+C has already ended       *)
(* otherwise, and a completed task has no session left.                    *)
(*                                                                         *)
(* A cleanup in the registry is live because it is taken out before the    *)
(* timer of conn.end() is set and by both callbacks (Registered); only a   *)
(* failure that nobody reports leaves it behind.                           *)
(*                                                                         *)
(* A channel that closes without an exit code passes for a success.  Only  *)
(* conn.end() and unreported losses close one under a command that runs,   *)
(* and the timer of conn.end() belongs to a task that has ended: so what   *)
(* completes a task is the end of its last session (RanToEnd).             *)
(***************************************************************************)
EXTENDS GoadExecute, TLAPS

\* A task that was sent Ctrl+C was ended by the stop request that sent it;
\* a completed task runs no session and shows no failure.
EndedFirst ==
  /\ ctrlC => status \in {"aborted", "error"}
  /\ status = "completed" => stage = "over" /\ ~failure

\* A cleanup is registered from Connect to the end or to the first stop request.
Registered ==
  /\ stage = "preflight" => registry = "none" /\ ~ending
  /\ ending => registry # "cleanup"
  /\ ~silent /\ stage = "over" => registry # "cleanup"

\* The stage tells the sessions opened, a timer belongs to a task that has ended,
\* and a completed task ran to its end.
RanToEnd ==
  /\ stage \in {"preflight", "connecting", "env1"} => sessions = 0
  /\ stage \in {"pty1", "env2"} => sessions = 1
  /\ stage = "pty2" => sessions = 2
  /\ stage \in {"env2", "pty2"} => split
  /\ ending => status # "running"
  /\ ~silent /\ status = "completed" =>
       host = "exited" /\ fate # "nonzero" /\ sessions = IF split THEN 2 ELSE 1

IInv == TypeOK /\ EndedFirst /\ Registered /\ RanToEnd

\* Every definition that a step is made of, for the steps that need no case.
USE DEF TypeOK, EndedFirst, Registered, RanToEnd, Statuses, Stages, InPty, InEnv, remote

-----------------------------------------------------------------------------
(* Lemmas on the status.                                                   *)

\* completeTask: a report ends a running task, and completes no other.
LEMMA EndedStatus ==
  ASSUME NEW now \in Statuses, NEW st \in Statuses \ {"running"}
  PROVE  /\ Ended(now, st) \in Statuses \ {"running"}
         /\ Ended(now, st) = "completed" => now = "completed" \/ (now = "running" /\ st = "completed")
         /\ now \in {"aborted", "error"} => Ended(now, st) \in {"aborted", "error"}
  BY DEF Ended

\* onClose: it completes only a running task whose log shows no failure, and
\* only with exit code 0.
LEMMA VerdictStatus ==
  ASSUME NEW now \in Statuses, NEW failed \in BOOLEAN, NEW code
  PROVE  /\ Verdict(now, failed, code) \in Statuses \ {"running"}
         /\ Verdict(now, failed, code) = "completed" =>
              now = "completed" \/ (now = "running" /\ ~failed /\ code = "zero")
         /\ now \in {"aborted", "error"} => Verdict(now, failed, code) \in {"aborted", "error"}
  BY DEF Verdict, Ended

\* The callbacks of the execute route keep what concerns them.
LEMMA OnCloseKeeps ==
  ASSUME IInv, NEW code, OnClose(code),
         UNCHANGED <<split, silent, ending, remote>>,
         status = "running" /\ code = "zero" /\ ~silent =>
           host = "exited" /\ fate # "nonzero" /\ sessions = IF split THEN 2 ELSE 1
  PROVE  IInv'
  <1>1. /\ status' \in Statuses \ {"running"}
        /\ status' = "completed" =>
             status = "completed" \/ (status = "running" /\ ~failure /\ code = "zero")
        /\ status \in {"aborted", "error"} => status' \in {"aborted", "error"}
    BY VerdictStatus DEF OnClose, IInv
  <1>2. TypeOK'
    BY <1>1 DEF OnClose, IInv
  <1>3. EndedFirst'
    BY <1>1 DEF OnClose, IInv
  <1>4. Registered'
    BY DEF OnClose, IInv
  <1>5. RanToEnd'
    BY <1>1 DEF OnClose, IInv
  <1> QED
    BY <1>2, <1>3, <1>4, <1>5 DEF IInv

LEMMA OnErrorKeeps ==
  ASSUME IInv, OnError,
         UNCHANGED <<split, silent, ending, remote>>
  PROVE  IInv'
  <1>1. /\ status' \in Statuses \ {"running"}
        /\ status' = "completed" => status = "completed"
        /\ status \in {"aborted", "error"} => status' \in {"aborted", "error"}
    BY EndedStatus DEF OnError, IInv
  <1> QED
    BY <1>1 DEF OnError, IInv

\* Channels that close because the connection ended.
LEMMA ChannelsEndKeeps ==
  ASSUME IInv, ChannelsEnd, stage \notin {"preflight", "over"}, silent \/ ending,
         UNCHANGED <<split, silent, ending, remote>>
  PROVE  IInv'
  <1>1. CASE OnError
    BY <1>1, OnErrorKeeps
  <1>2. CASE \E code \in {"zero", "nonzero"} : OnClose(code)
    BY <1>2, OnCloseKeeps DEF IInv
  <1>3. CASE stage' = "over" /\ UNCHANGED <<status, registry>>
    BY <1>3 DEF IInv
  <1> QED
    BY <1>1, <1>2, <1>3 DEF ChannelsEnd

-----------------------------------------------------------------------------
LEMMA InitInv == Init => IInv
  <1> SUFFICES ASSUME Init
               PROVE  IInv
    OBVIOUS
  <1>1. MaxStops \in Nat
    BY ConstantsAssumption DEF ConstantsAssumption
  <1>2. stops \in 0..MaxStops
    BY <1>1 DEF Init
  <1>3. TypeOK
    <2>1. sessions \in 0..2 /\ registry \in {"none", "cleanup", "noop"}
      BY DEF Init
    <2>2. /\ host \in {"none", "running", "interrupted", "exited"}
          /\ fate \in {"none"} \cup Fates
      BY DEF Init
    <2>3. status \in Statuses /\ stage \in Stages /\ split \in BOOLEAN /\ silent \in BOOLEAN
      BY DEF Init
    <2>4. ending \in BOOLEAN /\ failure \in BOOLEAN /\ interrupt \in BOOLEAN /\ ctrlC \in BOOLEAN
      BY DEF Init
    <2> QED
      BY <1>2, <2>1, <2>2, <2>3, <2>4
  <1>4. EndedFirst /\ Registered /\ RanToEnd
    BY DEF Init
  <1> QED
    BY <1>3, <1>4 DEF IInv

LEMMA ProgressKeeps ==
  ASSUME IInv, Progress
  PROVE  IInv'
  <1>1. CASE PreflightFails
    <2>1. /\ status' \in Statuses
          /\ status' = "completed" => status = "completed"
          /\ status \in {"aborted", "error"} => status' \in {"aborted", "error"}
      BY <1>1, EndedStatus DEF PreflightFails, IInv
    <2> QED
      BY <1>1, <2>1 DEF PreflightFails, IInv
  <1>2. CASE Connect \/ ConnectThrows \/ Ready
    BY <1>2 DEF Connect, ConnectThrows, Ready, IInv
  <1>3. CASE SetupFails
    BY <1>3, OnErrorKeeps DEF SetupFails
  <1>4. CASE PtyOpens
    <2>1. sessions \in {0, 1} /\ sessions' = sessions + 1
      BY <1>4 DEF PtyOpens, IInv
    <2>2. TypeOK'
      <3>1. stage' \in Stages /\ sessions' \in 0..2
        BY <1>4, <2>1 DEF PtyOpens
      <3>2. host' = "running" /\ fate' = "none" /\ interrupt' = FALSE
        BY <1>4 DEF PtyOpens
      <3>3. UNCHANGED <<status, split, silent, registry, ending, failure, ctrlC, stops>>
        BY <1>4 DEF PtyOpens
      <3> QED
        BY <3>1, <3>2, <3>3 DEF IInv
    <2>3. EndedFirst' /\ Registered'
      BY <1>4 DEF PtyOpens, IInv
    <2>4. RanToEnd'
      BY <1>4, <2>1 DEF PtyOpens, IInv
    <2> QED
      BY <2>2, <2>3, <2>4 DEF IInv
  <1>5. ASSUME NEW f \in Fates, HostExits(f)
        PROVE  IInv'
    <2>1. TypeOK'
      BY <1>5 DEF HostExits, IInv
    <2>2. EndedFirst' /\ Registered'
      BY <1>5 DEF HostExits, IInv
    <2>3. RanToEnd'
      BY <1>5 DEF HostExits, IInv
    <2> QED
      BY <2>1, <2>2, <2>3 DEF IInv
  <1>6. CASE PtyCloses
    <2>1. ASSUME NEW code \in {"zero", "nonzero"}, OnClose(code),
                 code = "zero" => ~(stage = "pty1" /\ split) /\ code = Reported(fate)
          PROVE  IInv'
      <3>1. code = "zero" =>
              host = "exited" /\ fate # "nonzero" /\ sessions = IF split THEN 2 ELSE 1
        BY <1>6, <2>1 DEF PtyCloses, Reported, IInv
      <3> QED
        BY <1>6, <2>1, <3>1, OnCloseKeeps DEF PtyCloses
    <2>2. CASE stage' = "env2" /\ UNCHANGED <<status, registry>>
      <3>1. stage = "pty1" /\ split
        BY <1>6, <2>2 DEF PtyCloses, OnClose
      <3> QED
        BY <1>6, <2>2, <3>1 DEF PtyCloses, IInv
    <2> QED
      BY <1>6, <2>1, <2>2 DEF PtyCloses, Reported
  <1>7. CASE LinkLost
    BY <1>7, OnErrorKeeps DEF LinkLost
  <1>8. CASE LinkEnds
    BY <1>8, ChannelsEndKeeps DEF LinkEnds
  <1>9. CASE EndConnection
    <2>1. CASE OnError
      BY <1>9, <2>1, OnErrorKeeps DEF EndConnection
    <2>2. CASE stage' = "over" /\ UNCHANGED <<status, registry>>
      BY <1>9, <2>2 DEF EndConnection, IInv
    <2>3. CASE ChannelsEnd
      BY <1>9, <2>3, ChannelsEndKeeps DEF EndConnection
    <2> QED
      BY <1>9, <2>1, <2>2, <2>3 DEF EndConnection
  <1> QED
    BY <1>1, <1>2, <1>3, <1>4, <1>5, <1>6, <1>7, <1>8, <1>9 DEF Progress

LEMMA StopKeeps ==
  ASSUME IInv, NEW asError \in BOOLEAN, Stop(asError)
  PROVE  IInv'
  <1>1. /\ status' \in Statuses \ {"running"}
        /\ status' = "completed" => status = "completed"
        /\ status \in {"aborted", "error"} => status' \in {"aborted", "error"}
    BY EndedStatus DEF Stop, StopAs, IInv
  <1>2. MaxStops \in Nat
    BY ConstantsAssumption DEF ConstantsAssumption
  <1>3. stops' \in 0..MaxStops
    BY <1>2 DEF Stop, IInv
  <1>4. TypeOK'
    BY <1>1, <1>3, ZenonT(30) DEF Stop, IInv
  <1>5. EndedFirst'
    BY <1>1 DEF Stop, IInv
  <1>6. Registered'
    BY DEF Stop, IInv
  <1>7. RanToEnd'
    BY <1>1 DEF Stop, IInv
  <1> QED
    BY <1>4, <1>5, <1>6, <1>7 DEF IInv

LEMMA StepInv == IInv /\ [Next]_vars => IInv'
  <1> SUFFICES ASSUME IInv, [Next]_vars
               PROVE  IInv'
    OBVIOUS
  <1>1. CASE Progress
    BY <1>1, ProgressKeeps
  <1>2. ASSUME NEW asError \in BOOLEAN, Stop(asError)
        PROVE  IInv'
    BY <1>2, StopKeeps
  <1>3. CASE LeftBehindEnds
    BY <1>3 DEF LeftBehindEnds, IInv
  <1>4. CASE UNCHANGED vars
    BY <1>4 DEF vars, IInv
  <1> QED
    BY <1>1, <1>2, <1>3, <1>4 DEF Next, Finished

LEMMA Invariance == Spec => []IInv
  BY InitInv, StepInv, PTL DEF Spec

\* Type correctness of the execution of a command.
THEOREM ExecuteTypeCorrect == Spec => []TypeOK
  BY Invariance, PTL DEF IInv

\* task-cleanup-registry.ts with the execute route: as long as failures are
\* reported, a registered cleanup acts on a connection that is still in use.
THEOREM CleanupsAreLive == Spec => []CleanupIsLive
  <1>1. IInv => CleanupIsLive
    BY DEF IInv, CleanupIsLive
  <1> QED
    BY <1>1, Invariance, PTL

\* onSessionEnd with onClose: although a channel that closes without an exit code
\* passes for a success, the command of a completed task ended on the host in the
\* last of its sessions, as long as failures are reported.
THEOREM CompletedTasksRanToEnd == Spec => []CompletedRanToEnd
  <1>1. IInv => CompletedRanToEnd
    BY DEF IInv, CompletedRanToEnd
  <1> QED
    BY <1>1, Invariance, PTL

-----------------------------------------------------------------------------
(* How the reports change the status.                                      *)

\* The changes of status that completeTask makes.
Allowed(now, then) ==
  \/ then = now
  \/ now = "running" /\ then \in {"completed", "error", "aborted"}
  \/ now = "aborted" /\ then = "error"

\* A report makes an allowed change.
LEMMA EndedAllowed ==
  ASSUME NEW now \in Statuses, NEW st \in Statuses \ {"running"}
  PROVE  Allowed(now, Ended(now, st))
  BY DEF Ended, Allowed

LEMMA VerdictAllowed ==
  ASSUME NEW now \in Statuses, NEW failed \in BOOLEAN, NEW code
  PROVE  Allowed(now, Verdict(now, failed, code))
  BY DEF Verdict, Ended, Allowed

\* Every caller of completeTask makes an allowed change, and nothing else
\* changes the status.
LEMMA StepAllowed ==
  ASSUME TypeOK, [Next]_vars
  PROVE  Allowed(status, status')
  <1>1. CASE status' = status
    BY <1>1 DEF Allowed
  <1>2. ASSUME NEW code, OnClose(code)
        PROVE  Allowed(status, status')
    BY <1>2, VerdictAllowed DEF OnClose
  <1>3. CASE OnError \/ PreflightFails
    BY <1>3, EndedAllowed DEF OnError, PreflightFails
  <1>4. ASSUME NEW asError \in BOOLEAN, Stop(asError)
        PROVE  Allowed(status, status')
    BY <1>4, EndedAllowed DEF Stop, StopAs
  <1>5. CASE \/ Connect \/ ConnectThrows \/ Ready \/ PtyOpens
             \/ LeftBehindEnds \/ Finished \/ UNCHANGED vars
    BY <1>1, <1>5 DEF Connect, ConnectThrows, Ready, PtyOpens, LeftBehindEnds, Finished, vars
  <1>6. ASSUME NEW f \in Fates, HostExits(f)
        PROVE  Allowed(status, status')
    BY <1>1, <1>6 DEF HostExits
  <1>7. CASE SetupFails \/ LinkLost
    BY <1>3, <1>7 DEF SetupFails, LinkLost
  <1>8. CASE PtyCloses
    BY <1>1, <1>2, <1>8 DEF PtyCloses
  <1>9. CASE ChannelsEnd
    BY <1>1, <1>2, <1>3, <1>9 DEF ChannelsEnd
  <1>10. CASE LinkEnds \/ EndConnection
    BY <1>1, <1>3, <1>9, <1>10 DEF LinkEnds, EndConnection
  <1> QED
    BY <1>3, <1>4, <1>5, <1>6, <1>7, <1>8, <1>10 DEF Next, Progress

\* stop route with onClose: a command that was sent Ctrl+C is never reported as
\* completed, however many sessions, stop requests and failures there are.
THEOREM InterruptedNeverCompletes == Spec => []InterruptedNotCompleted
  <1>1. IInv => InterruptedNotCompleted
    BY DEF IInv, InterruptedNotCompleted
  <1> QED
    BY <1>1, Invariance, PTL

\* onClose: a task whose log shows a GOAD failure is never reported as completed.
THEOREM FailedNeverCompletes == Spec => []FailureNotCompleted
  <1>1. IInv => FailureNotCompleted
    BY DEF IInv, FailureNotCompleted
  <1> QED
    BY <1>1, Invariance, PTL

-----------------------------------------------------------------------------
(* Where a stopped command is ended, and where a task is.                  *)

\* A timer was set by a stop request, and whoever is done has reported.
EndsReported ==
  /\ ending => status # "running"
  /\ ~silent /\ stage = "over" => status # "running"

\* Every handler that ends the execution reports, unless its report is lost.
LEMMA EndsReportedStep ==
  ASSUME TypeOK, EndsReported, [Next]_vars
  PROVE  EndsReported'
  <1>1. Allowed(status, status') /\ (status # "running" => status' # "running")
    BY StepAllowed DEF Allowed
  <1>2. ASSUME NEW code, OnClose(code), UNCHANGED <<silent, ending>>
        PROVE  EndsReported'
    BY <1>2 DEF OnClose, Verdict, Ended, EndsReported
  <1>3. ASSUME OnError, UNCHANGED <<silent, ending>>
        PROVE  EndsReported'
    BY <1>3 DEF OnError, Ended, EndsReported
  <1>4. CASE PreflightFails
    BY <1>4 DEF PreflightFails, Ended, EndsReported
  <1>5. CASE Connect \/ ConnectThrows \/ Ready \/ PtyOpens
    BY <1>5 DEF Connect, ConnectThrows, Ready, PtyOpens, EndsReported
  <1>6. CASE SetupFails \/ LinkLost
    BY <1>3, <1>6 DEF SetupFails, LinkLost
  <1>7. ASSUME NEW f \in Fates, HostExits(f)
        PROVE  EndsReported'
    BY <1>7 DEF HostExits, EndsReported
  <1>8. CASE PtyCloses
    BY <1>2, <1>8 DEF PtyCloses, EndsReported
  <1>9. ASSUME ChannelsEnd, silent \/ ending, UNCHANGED <<silent, ending>>
        PROVE  EndsReported'
    BY <1>1, <1>2, <1>3, <1>9 DEF ChannelsEnd, EndsReported
  <1>10. CASE LinkEnds
    BY <1>9, <1>10 DEF LinkEnds
  <1>11. CASE EndConnection
    BY <1>1, <1>3, <1>9, <1>11 DEF EndConnection, EndsReported
  <1>12. ASSUME NEW asError \in BOOLEAN, Stop(asError)
         PROVE  EndsReported'
    <2>1. status' # "running"
      BY <1>12, EndedStatus DEF Stop, StopAs
    <2> QED
      BY <2>1 DEF EndsReported
  <1>13. CASE LeftBehindEnds \/ Finished \/ UNCHANGED vars
    BY <1>13 DEF LeftBehindEnds, Finished, vars, EndsReported
  <1> QED
    BY <1>4, <1>5, <1>6, <1>7, <1>8, <1>10, <1>11, <1>12, <1>13 DEF Next, Progress

\* execute route, the safety half of TaskEnds: as long as failures are reported, an
\* execution never comes to its end and leaves the task running, whichever of its
\* exits it takes and however many stop requests meet it.
THEOREM EndsAreReported == Spec => [](~silent /\ stage = "over" => status # "running")
  <1>1. Init => TypeOK /\ EndsReported
    BY InitInv DEF IInv, Init, EndsReported
  <1>2. TypeOK /\ TypeOK' /\ EndsReported /\ [Next]_vars => EndsReported'
    BY EndsReportedStep
  <1>3. EndsReported => (~silent /\ stage = "over" => status # "running")
    BY DEF EndsReported
  <1> QED
    BY <1>1, <1>2, <1>3, ExecuteTypeCorrect, PTL DEF Spec

\* What a stop request can rely on: the cleanup is there for as long as the
\* connection is used and no timer is set, a command runs in its PTY until it is
\* interrupted, and one whose connection broke is reported as an error.
Stoppable ==
  /\ stage \notin {"preflight", "over"} => ending \/ registry = "cleanup"
  /\ host = "running" => stage = "over" \/ (InPty /\ ~ending)
  /\ host = "running" /\ stage = "over" => status \notin {"running", "aborted"}

\* It stays so while failures are reported and no PTY opens after a stop request.
LEMMA StoppableStep ==
  ASSUME IInv, EndsReported, Stoppable, ~silent, [Next]_vars, PtyOpens => ~ending
  PROVE  Stoppable'
  <1>1. CASE PreflightFails \/ Connect \/ ConnectThrows \/ Ready
    BY <1>1 DEF PreflightFails, Connect, ConnectThrows, Ready, IInv, Stoppable
  <1>2. CASE SetupFails \/ LinkLost
    BY <1>2 DEF SetupFails, LinkLost, OnError, Ended, IInv, Stoppable
  <1>3. CASE PtyOpens
    BY <1>3 DEF PtyOpens, IInv, Stoppable
  <1>4. ASSUME NEW f \in Fates, HostExits(f)
        PROVE  Stoppable'
    BY <1>4 DEF HostExits, IInv, Stoppable
  <1>5. CASE PtyCloses
    BY <1>5 DEF PtyCloses, OnClose, IInv, Stoppable
  <1>6. CASE LinkEnds
    BY <1>6 DEF LinkEnds
  <1>7. CASE EndConnection
    BY <1>7 DEF EndConnection, ChannelsEnd, OnClose, OnError, IInv, Stoppable
  <1>8. ASSUME NEW asError \in BOOLEAN, Stop(asError)
        PROVE  Stoppable'
    <2>1. CASE stage = "over"
      BY <1>8, <2>1 DEF Stop, StopAs, Ended, IInv, EndsReported, Registered, Stoppable
    <2>2. CASE stage # "over"
      BY <1>8, <2>2 DEF Stop, IInv, Stoppable
    <2> QED
      BY <2>1, <2>2
  <1>9. CASE LeftBehindEnds \/ Finished \/ UNCHANGED vars
    BY <1>9 DEF LeftBehindEnds, Finished, vars, Stoppable
  <1> QED
    BY <1>1, <1>2, <1>3, <1>4, <1>5, <1>6, <1>7, <1>8, <1>9 DEF Next, Progress

\* stop route, POST: the one way in which an aborted task may leave its command
\* running, besides failures nobody reports, is a stop request between two channels:
\* the environment file is being written, there is no PTY to write Ctrl+C to, and
\* the PTY still opens before the timer ends the connection.
THEOREM StopsWorkUnlessPtyOpensLater ==
  Spec /\ []~silent /\ [][PtyOpens => ~ending]_vars => []StoppedCommandEnds
  <1>1. Init => IInv /\ EndsReported /\ Stoppable
    BY InitInv DEF Init, EndsReported, Stoppable
  <1>2. /\ IInv /\ EndsReported /\ Stoppable /\ ~silent
        /\ [Next]_vars /\ [PtyOpens => ~ending]_vars
        => IInv' /\ EndsReported' /\ Stoppable'
    <2>1. ASSUME IInv, EndsReported, Stoppable, ~silent, [Next]_vars, [PtyOpens => ~ending]_vars
          PROVE  IInv' /\ EndsReported' /\ Stoppable'
      <3>1. IInv' /\ EndsReported'
        BY <2>1, StepInv, EndsReportedStep DEF IInv
      <3>2. CASE UNCHANGED vars
        BY <2>1, <3>1, <3>2 DEF vars, Stoppable
      <3>3. CASE PtyOpens => ~ending
        BY <2>1, <3>1, <3>3, StoppableStep
      <3> QED
        BY <2>1, <3>1, <3>2, <3>3
    <2> QED
      BY <2>1
  <1>3. Stoppable => StoppedCommandEnds
    BY DEF Stoppable, StoppedCommandEnds
  <1> QED
    BY <1>1, <1>2, <1>3, PTL DEF Spec
=============================================================================
