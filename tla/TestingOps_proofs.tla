------------------------- MODULE TestingOps_proofs -------------------------
(***************************************************************************)
(* Proofs about TestingOps, for every number of operations, requests and   *)
(* restarts.                                                               *)
(*                                                                         *)
(* What makes a success real is where its evidence comes from.  Evidence   *)
(* says that whatever a check could go by, the flag, the log since the     *)
(* marker or PocketBase, has backed the operation already; the one thing   *)
(* that could turn PocketBase without the range, the patch of another      *)
(* operation of the same kind, is counted as backing.  Of the log that     *)
(* holds for the clean recap only: what a failed or unfinished job wrote   *)
(* around it backs nothing, and an operation that goes by it is misled.    *)
(* Order says that the operations before the newest one have all been      *)
(* ended.                                                                  *)
(***************************************************************************)
EXTENDS TestingOps, TLAPS

\* A request works on a row that exists.
Served ==
  \A o \in Ids : (stage[o] # "none" \/ \E w \in Who : at[w][o] # "idle") => o \in Rows

\* What a check of o may go by has backed o, unless o was misled; an unused marker
\* tells the truth.
Evidence ==
  \A o \in Ids :
    /\ o \in Rows =>
         /\ testing = Expected(o) => o \in backed
         /\ pb = Expected(o) => o \in backed \cup misled
         /\ since[o].clean = kind[o] => o \in backed
    /\ \A w \in Who : at[w][o] = "patch" => o \in backed \cup misled
    /\ status[o] = "completed" => o \in backed \cup misled
    /\ status[o] = "none" =>
         /\ since[o].clean = "start" => testing = "on"
         /\ since[o].clean = "stop" => testing = "off"

\* An operation that a later one follows has been ended; one to come has no age.
Order ==
  \A o \in Ids :
    /\ status[o] \in Terminal => o \in settled
    /\ status[o] = "none" => o \notin settled /\ age[o] = Fresh
    /\ \A p \in Ids : o < p /\ status[p] # "none" => o \in settled \/ status[o] = "pruned"

\* An automatic stop is remembered until the operation is ended.
Memory ==
  \A o \in Ids :
    /\ stops[o] > 0 => o \in retried \/ o \in settled
    /\ stops[o] > 1 => o \in settled

IInv == TypeOK /\ Served /\ Evidence /\ Order /\ Memory

USE DEF Ids, Who, Kinds, Statuses, Terminal, Stages, Places, Fresh, RetryMs, MaxAge,
        Flags, rows, procs, world, hist

-----------------------------------------------------------------------------
(* The first state, and the requests.                                      *)

\* What the log behind a marker can be.
LEMMA LogTypes ==
  /\ NoLog \in Log /\ NoLog.clean = "none"
  /\ \A l \in Log, r \in Kinds \cup {"other"} : Recap(l, r) \in Log /\ Recap(l, r).clean = r
  /\ \A l \in Log : l.clean \in Kinds \cup {"none", "other"} /\ l.more \subseteq Kinds
  BY DEF Log, NoLog, Recap

LEMMA InitHolds == Init => IInv
  BY ConstantsAssumption, LogTypes
  DEF Init, IInv, TypeOK, Served, Evidence, Order, Memory, Rows, Expected, NoCheck, NotSeen

\* Where a check starts.
LEMMA FirstPlace == \A o \in Ids : First(o) \in {"late", "pb"}
  BY DEF First

\* Where a check is after it ends without success.
LEMMA InconclusivePlace ==
  ASSUME NEW w \in Who, NEW o \in Ids, Inconclusive(w, o)
  PROVE  \E s \in {"idle", "late", "pb"} : at' = [at EXCEPT ![w][o] = s]
  BY FirstPlace DEF Inconclusive, Goto

\* A POST ends the operation in progress and vouches for nothing.
LEMMA PostKeeps ==
  ASSUME IInv, NEW o \in Ids, NEW k \in Kinds, Post(o, k)
  PROVE  IInv'
  <1>1. TypeOK'
    BY DEF Post, IInv, TypeOK, Posted, IsNewest, Active
  <1>2. Served'
    BY DEF Post, IInv, TypeOK, Served, Rows, Posted, IsNewest, Active
  <1>3. Evidence'
    BY DEF Post, IInv, TypeOK, Evidence, Served, Rows, Posted, IsNewest, Active, Expected
  <1>4. Order'
    BY DEF Post, IInv, TypeOK, Order, Posted, IsNewest, Active
  <1>5. Memory'
    BY DEF Post, IInv, TypeOK, Memory, Posted, IsNewest, Active
  <1> QED
    BY <1>1, <1>2, <1>3, <1>4, <1>5 DEF IInv

\* The marker only forgets evidence.
LEMMA MarkKeeps ==
  ASSUME IInv, NEW o \in Ids, Mark(o)
  PROVE  IInv'
  <1>1. TypeOK'
    BY LogTypes DEF Mark, IInv, TypeOK
  <1>2. Served'
    BY DEF Mark, IInv, TypeOK, Served, Rows
  <1>3. Evidence'
    <2>1. \A p \in Ids : since'[p].clean \in {since[p].clean, "none"}
      BY LogTypes, ZenonT(30) DEF Mark, IInv, TypeOK
    <2>2. UNCHANGED <<kind, status, at, testing, pb, backed, misled>>
      BY DEF Mark
    <2> QED
      BY <2>1, <2>2 DEF IInv, TypeOK, Evidence, Rows, Expected
  <1>4. Order'
    BY DEF Mark, IInv, TypeOK, Order, Served, Rows
  <1>5. Memory'
    BY DEF Mark, IInv, TypeOK, Memory
  <1> QED
    BY <1>1, <1>2, <1>3, <1>4, <1>5 DEF IInv

\* A refusal ends the operation.
LEMMA RefusedKeeps ==
  ASSUME IInv, NEW o \in Ids, Refused(o)
  PROVE  IInv'
  <1>1. TypeOK'
    BY DEF Refused, Settle, IInv, TypeOK
  <1>2. Served'
    BY DEF Refused, Settle, IInv, TypeOK, Served, Rows
  <1>3. Evidence'
    BY DEF Refused, Settle, IInv, TypeOK, Evidence, Served, Rows, Expected
  <1>4. Order'
    BY DEF Refused, Settle, IInv, TypeOK, Order, Served, Rows
  <1>5. Memory'
    BY DEF Refused, Settle, IInv, TypeOK, Memory
  <1> QED
    BY <1>1, <1>2, <1>3, <1>4, <1>5 DEF IInv

\* A request that returns sets back only its own operation.
LEMMA ReturnsKeeps ==
  ASSUME IInv, NEW o \in Ids, Returns(o)
  PROVE  IInv'
  <1>1. TypeOK'
    BY DEF Returns, First, IInv, TypeOK
  <1>2. Served'
    BY DEF Returns, First, IInv, TypeOK, Served, Rows
  <1>3. Evidence'
    BY DEF Returns, First, IInv, TypeOK, Evidence, Served, Rows, Expected
  <1>4. Order'
    BY DEF Returns, First, IInv, TypeOK, Order, Served, Rows
  <1>5. Memory'
    BY DEF Returns, First, IInv, TypeOK, Memory
  <1> QED
    BY <1>1, <1>2, <1>3, <1>4, <1>5 DEF IInv

\* A dismissal ends the operation in progress.
LEMMA DismissKeeps ==
  ASSUME IInv, NEW o \in Ids, Dismiss(o)
  PROVE  IInv'
  <1>1. TypeOK'
    BY DEF Dismiss, Settle, IsNewest, Active, IInv, TypeOK
  <1>2. Served'
    BY DEF Dismiss, Settle, IsNewest, Active, IInv, TypeOK, Served, Rows
  <1>3. Evidence'
    BY DEF Dismiss, Settle, IsNewest, Active, IInv, TypeOK, Evidence, Served, Rows, Expected
  <1>4. Order'
    BY DEF Dismiss, Settle, IsNewest, Active, IInv, TypeOK, Order, Served, Rows
  <1>5. Memory'
    BY DEF Dismiss, Settle, IsNewest, Active, IInv, TypeOK, Memory
  <1> QED
    BY <1>1, <1>2, <1>3, <1>4, <1>5 DEF IInv

\* A poll starts to work on an operation in progress.
LEMMA PollOpKeeps ==
  ASSUME IInv, NEW o \in Ids, PollOp(o)
  PROVE  IInv'
  <1>1. CASE status[o] = "pending"
    <2>1. /\ status' = [status EXCEPT ![o] = "running"]
          /\ UNCHANGED <<kind, age, since, procs, world, hist>>
      BY <1>1 DEF PollOp
    <2>2. TypeOK' /\ Served' /\ Memory'
      BY <1>1, <2>1 DEF IInv, TypeOK, Served, Memory, Rows
    <2>3. Evidence'
      BY <1>1, <2>1 DEF IInv, TypeOK, Evidence, Rows, Expected
    <2>4. Order'
      BY <1>1, <2>1 DEF IInv, TypeOK, Order
    <2> QED
      BY <2>2, <2>3, <2>4 DEF IInv
  <1>2. CASE status[o] # "pending"
    <2>1. /\ o \in Rows
          /\ UNCHANGED <<rows, stage, sawOn, retried, boots, world, hist>>
      BY <1>2 DEF PollOp, IsNewest, Active, Rows
    <2>2. PICK s \in {"late", "pb"} : at' = [at EXCEPT !["poll"][o] = s]
      BY <1>2, FirstPlace DEF PollOp
    <2>3. TypeOK' /\ Served' /\ Memory'
      BY <2>1, <2>2 DEF IInv, TypeOK, Served, Memory, Rows
    <2>4. Evidence'
      BY <2>1, <2>2 DEF IInv, TypeOK, Evidence, Rows, Expected
    <2>5. Order'
      BY <2>1, <2>2 DEF IInv, TypeOK, Order
    <2> QED
      BY <2>3, <2>4, <2>5 DEF IInv
  <1> QED
    BY <1>1, <1>2

-----------------------------------------------------------------------------
(* The checks.                                                             *)

\* What PocketBase says has backed the operation before.
LEMMA PbAgreesKeeps ==
  ASSUME IInv, NEW w \in Who, NEW o \in Ids, PbAgrees(w, o)
  PROVE  IInv'
  <1>1. TypeOK'
    BY DEF PbAgrees, Success, Settle, Goto, IInv, TypeOK
  <1>2. Served'
    BY DEF PbAgrees, Success, Settle, Goto, IInv, TypeOK, Served, Rows
  <1>3. Evidence'
    BY DEF PbAgrees, Success, Settle, Goto, IInv, TypeOK, Evidence, Served, Rows, Expected
  <1>4. Order'
    BY DEF PbAgrees, Success, Settle, Goto, IInv, TypeOK, Order, Served, Rows
  <1>5. Memory'
    BY DEF PbAgrees, Success, Settle, Goto, IInv, TypeOK, Memory
  <1> QED
    BY <1>1, <1>2, <1>3, <1>4, <1>5 DEF IInv

\* The check goes on to the log.
LEMMA PbDisagreesKeeps ==
  ASSUME IInv, NEW w \in Who, NEW o \in Ids, PbDisagrees(w, o)
  PROVE  IInv'
  <1>1. TypeOK'
    BY DEF PbDisagrees, Goto, IInv, TypeOK
  <1>2. Served'
    BY DEF PbDisagrees, Goto, IInv, TypeOK, Served, Rows
  <1>3. Evidence'
    BY DEF PbDisagrees, Goto, IInv, TypeOK, Evidence, Served, Rows, Expected
  <1>4. Order'
    BY DEF PbDisagrees, Goto, IInv, TypeOK, Order, Served, Rows
  <1>5. Memory'
    BY DEF PbDisagrees, Goto, IInv, TypeOK, Memory
  <1> QED
    BY <1>1, <1>2, <1>3, <1>4, <1>5 DEF IInv

\* A recap after the marker has backed the operation.
LEMMA LogProvesKeeps ==
  ASSUME IInv, NEW w \in Who, NEW o \in Ids, LogProves(w, o)
  PROVE  IInv'
  <1>1. TypeOK'
    BY DEF LogProves, Proves, Goto, IInv, TypeOK
  <1>2. Served'
    BY DEF LogProves, Proves, Goto, IInv, TypeOK, Served, Rows
  <1>3. Evidence'
    <2>1. /\ at' = [at EXCEPT ![w][o] = "patch"]
          /\ misled' = misled \cup {p \in {o} : kind[o] \in since[o].more}
          /\ UNCHANGED <<kind, status, since, testing, pb, backed>>
      BY DEF LogProves, Goto
    <2>2. o \in backed \cup misled'
      <3>1. kind[o] \in {since[o].clean} \cup since[o].more
        BY DEF LogProves, Proves, Shows
      <3>2. o \in Rows
        BY DEF LogProves, IInv, Served
      <3>3. since[o].clean = kind[o] => o \in backed
        BY <3>2 DEF IInv, Evidence
      <3> QED
        BY <2>1, <3>1, <3>3
    <2>3. \A v \in Who, p \in Ids : at'[v][p] = "patch" => at[v][p] = "patch" \/ p = o
      BY <2>1 DEF IInv, TypeOK
    <2> QED
      BY <2>1, <2>2, <2>3 DEF IInv, Evidence, Rows, Expected
  <1>4. Order'
    BY DEF LogProves, Proves, Goto, IInv, TypeOK, Order, Served, Rows
  <1>5. Memory'
    BY DEF LogProves, Proves, Goto, IInv, TypeOK, Memory
  <1> QED
    BY <1>1, <1>2, <1>3, <1>4, <1>5 DEF IInv

\* Giving up ends the operation.
LEMMA GiveUpKeeps ==
  ASSUME IInv, NEW w \in Who, NEW o \in Ids, GiveUp(w, o)
  PROVE  IInv'
  <1>0. PICK s \in {"idle", "late", "pb"} : at' = [at EXCEPT ![w][o] = s]
    BY InconclusivePlace DEF GiveUp
  <1>1. TypeOK'
    BY <1>0 DEF GiveUp, Settle, IInv, TypeOK
  <1>2. Served'
    BY <1>0 DEF GiveUp, Settle, IInv, TypeOK, Served, Rows
  <1>3. Evidence'
    BY <1>0 DEF GiveUp, Settle, IInv, TypeOK, Evidence, Served, Rows, Expected
  <1>4. Order'
    BY <1>0 DEF GiveUp, Settle, IInv, TypeOK, Order, Served, Rows
  <1>5. Memory'
    BY <1>0 DEF GiveUp, Settle, IInv, TypeOK, Memory
  <1> QED
    BY <1>1, <1>2, <1>3, <1>4, <1>5 DEF IInv

\* What Ludus says has backed the operation before.
LEMMA LudusAgreesKeeps ==
  ASSUME IInv, NEW w \in Who, NEW o \in Ids, LudusAgrees(w, o)
  PROVE  IInv'
  <1>1. TypeOK'
    BY DEF LudusAgrees, Goto, IInv, TypeOK
  <1>2. Served'
    BY DEF LudusAgrees, Goto, IInv, TypeOK, Served, Rows
  <1>3. Evidence'
    BY DEF LudusAgrees, Goto, IInv, TypeOK, Evidence, Served, Rows, Expected
  <1>4. Order'
    BY DEF LudusAgrees, Goto, IInv, TypeOK, Order, Served, Rows
  <1>5. Memory'
    BY DEF LudusAgrees, Goto, IInv, TypeOK, Memory
  <1> QED
    BY <1>1, <1>2, <1>3, <1>4, <1>5 DEF IInv

\* An automatic stop is remembered.
LEMMA LudusDisagreesKeeps ==
  ASSUME IInv, NEW w \in Who, NEW o \in Ids, LudusDisagrees(w, o)
  PROVE  IInv'
  <1>0. PICK s \in {"idle", "late", "pb"} : at' = [at EXCEPT ![w][o] = s]
    BY InconclusivePlace DEF LudusDisagrees
  <1>1. TypeOK'
    <2>1. CASE MayRetry(w, o)
      <3>1. stops[o] \in 0..2
        BY DEF IInv, TypeOK
      <3>2. (IF stops[o] < 2 THEN stops[o] + 1 ELSE stops[o]) \in 0..2
        BY <3>1
      <3>3. stops' = [stops EXCEPT ![o] = IF stops[o] < 2 THEN stops[o] + 1 ELSE stops[o]]
        BY <2>1 DEF LudusDisagrees
      <3>4. stops' \in [Ids -> 0..2]
        BY <3>2, <3>3 DEF IInv, TypeOK
      <3>5. /\ retried' = retried \cup {o}
            /\ sawOn' = [sawOn EXCEPT ![w][o] = FALSE]
            /\ UNCHANGED <<rows, stage, boots, world, settled, backed, misled>>
        BY <2>1 DEF LudusDisagrees
      <3> QED
        BY <1>0, <3>4, <3>5 DEF IInv, TypeOK
    <2>2. CASE ~MayRetry(w, o)
      BY <1>0, <2>2 DEF LudusDisagrees, IInv, TypeOK
    <2> QED
      BY <2>1, <2>2
  <1>2. Served'
    BY <1>0 DEF LudusDisagrees, IInv, TypeOK, Served, Rows
  <1>3. Evidence'
    BY <1>0 DEF LudusDisagrees, IInv, TypeOK, Evidence, Served, Rows, Expected
  <1>4. Order'
    BY <1>0 DEF LudusDisagrees, IInv, TypeOK, Order, Served, Rows
  <1>5. Memory'
    <2>1. CASE MayRetry(w, o)
      <3>1. /\ retried' = retried \cup {o}
            /\ stops' = [stops EXCEPT ![o] = IF stops[o] < 2 THEN stops[o] + 1 ELSE stops[o]]
            /\ settled' = settled
        BY <2>1 DEF LudusDisagrees
      <3>2. stops[o] = 0 \/ o \in settled
        BY <2>1 DEF MayRetry, IInv, TypeOK, Memory
      <3> QED
        BY <3>1, <3>2 DEF IInv, TypeOK, Memory
    <2>2. CASE ~MayRetry(w, o)
      BY <1>0, <2>2 DEF LudusDisagrees, IInv, TypeOK, Memory
    <2> QED
      BY <2>1, <2>2
  <1> QED
    BY <1>1, <1>2, <1>3, <1>4, <1>5 DEF IInv

\* A patch comes from an operation that is backed, and backs the others of its kind.
LEMMA PatchKeeps ==
  ASSUME IInv, NEW w \in Who, NEW o \in Ids, Patch(w, o)
  PROVE  IInv'
  <1>1. TypeOK'
    BY DEF Patch, IInv, TypeOK, Expected, Rows
  <1>2. Served'
    BY DEF Patch, IInv, TypeOK, Served, Rows
  <1>3. Evidence'
    BY DEF Patch, IInv, TypeOK, Evidence, Served, Rows, Expected
  <1>4. Order'
    BY DEF Patch, IInv, TypeOK, Order, Served, Rows
  <1>5. Memory'
    BY DEF Patch, IInv, TypeOK, Memory
  <1> QED
    BY <1>1, <1>2, <1>3, <1>4, <1>5 DEF IInv

\* After the patch the operation is completed.
LEMMA CompleteKeeps ==
  ASSUME IInv, NEW w \in Who, NEW o \in Ids, Complete(w, o)
  PROVE  IInv'
  <1>1. TypeOK'
    BY DEF Complete, Success, Settle, Goto, IInv, TypeOK
  <1>2. Served'
    BY DEF Complete, Success, Settle, Goto, IInv, TypeOK, Served, Rows
  <1>3. Evidence'
    BY DEF Complete, Success, Settle, Goto, IInv, TypeOK, Evidence, Served, Rows, Expected
  <1>4. Order'
    BY DEF Complete, Success, Settle, Goto, IInv, TypeOK, Order, Served, Rows
  <1>5. Memory'
    BY DEF Complete, Success, Settle, Goto, IInv, TypeOK, Memory
  <1> QED
    BY <1>1, <1>2, <1>3, <1>4, <1>5 DEF IInv

-----------------------------------------------------------------------------
(* Time, restarts and Ludus.                                               *)

\* Time changes only ages.
LEMMA TickKeeps ==
  ASSUME IInv, NEW o \in Ids, Tick(o)
  PROVE  IInv'
  <1>1. TypeOK'
    BY DEF Tick, IInv, TypeOK
  <1>2. Served'
    BY DEF Tick, IInv, TypeOK, Served, Rows
  <1>3. Evidence'
    BY DEF Tick, IInv, TypeOK, Evidence, Served, Rows, Expected
  <1>4. Order'
    BY DEF Tick, IInv, TypeOK, Order, Served, Rows
  <1>5. Memory'
    BY DEF Tick, IInv, TypeOK, Memory
  <1> QED
    BY <1>1, <1>2, <1>3, <1>4, <1>5 DEF IInv

\* A row goes when no request works on it.
LEMMA ExpireKeeps ==
  ASSUME IInv, NEW o \in Ids, Expire(o)
  PROVE  IInv'
  <1>1. TypeOK'
    BY LogTypes DEF Expire, IInv, TypeOK
  <1>2. Served'
    BY DEF Expire, IInv, TypeOK, Served, Rows
  <1>3. Evidence'
    BY DEF Expire, IInv, TypeOK, Evidence, Served, Rows, Expected
  <1>4. Order'
    BY DEF Expire, IInv, TypeOK, Order, Served, Rows
  <1>5. Memory'
    BY DEF Expire, IInv, TypeOK, Memory
  <1> QED
    BY <1>1, <1>2, <1>3, <1>4, <1>5 DEF IInv

\* A restart forgets requests and their memory alike.
LEMMA RestartKeeps ==
  ASSUME IInv, Restart
  PROVE  IInv'
  <1>1. TypeOK'
    BY ConstantsAssumption DEF Restart, NoCheck, NotSeen, IInv, TypeOK
  <1>2. Served'
    BY DEF Restart, NoCheck, NotSeen, IInv, TypeOK, Served, Rows
  <1>3. Evidence'
    BY DEF Restart, NoCheck, NotSeen, IInv, TypeOK, Evidence, Served, Rows, Expected
  <1>4. Order'
    BY DEF Restart, NoCheck, NotSeen, IInv, TypeOK, Order, Served, Rows
  <1>5. Memory'
    BY DEF Restart, NoCheck, NotSeen, IInv, TypeOK, Memory
  <1> QED
    BY <1>1, <1>2, <1>3, <1>4, <1>5 DEF IInv

\* A job backs the operations of its kind.
LEMMA JobEndsKeeps ==
  ASSUME IInv, NEW k \in Kinds, JobEnds(k)
  PROVE  IInv'
  <1>1. TypeOK'
    BY LogTypes DEF JobEnds, Logged, IInv, TypeOK, Rows
  <1>2. Served'
    BY LogTypes DEF JobEnds, Logged, IInv, TypeOK, Served, Rows
  <1>3. Evidence'
    BY LogTypes DEF JobEnds, Logged, IInv, TypeOK, Evidence, Served, Rows, Expected
  <1>4. Order'
    BY LogTypes DEF JobEnds, Logged, IInv, TypeOK, Order, Served, Rows
  <1>5. Memory'
    BY LogTypes DEF JobEnds, Logged, IInv, TypeOK, Memory
  <1> QED
    BY <1>1, <1>2, <1>3, <1>4, <1>5 DEF IInv

\* What a job writes without a clean recap leaves the newest clean recap alone, and
\* so does a recap that is not clean.
LEMMA UncleanKeeps ==
  ASSUME IInv, JobFails \/ \E k \in Kinds : JobWrites(k)
  PROVE  IInv'
  <1>1. /\ since' \in [Ids -> Log]
        /\ \A o \in Ids : since'[o].clean = since[o].clean \/ since'[o].clean = "none"
    <2>1. \A o \in Ids : since[o] \in Log
      BY DEF IInv, TypeOK
    <2>2. ASSUME NEW k \in Kinds, JobWrites(k)
          PROVE  <1>1!:
      <3> DEFINE f(l) == [l EXCEPT !.open = @ \cup {k},
                                   !.more = IF l.clean \in {"none", k} THEN @ ELSE @ \cup {k}]
      <3>1. \A l \in Log : f(l) \in Log /\ f(l).clean = l.clean
        BY DEF Log
      <3>2. since' = [o \in Ids |-> IF status[o] = "pruned" THEN NoLog ELSE f(since[o])]
        BY <2>2 DEF JobWrites, Logged
      <3> HIDE DEF f
      <3> QED
        BY <2>1, <3>1, <3>2, LogTypes
    <2>3. ASSUME JobFails
          PROVE  <1>1!:
      <3> DEFINE f(l) == [l EXCEPT !.open = {}]
      <3>1. \A l \in Log : f(l) \in Log /\ f(l).clean = l.clean
        BY DEF Log
      <3>2. since' = [o \in Ids |-> IF status[o] = "pruned" THEN NoLog ELSE f(since[o])]
        BY <2>3 DEF JobFails, Logged
      <3> HIDE DEF f
      <3> QED
        BY <2>1, <3>1, <3>2, LogTypes
    <2> QED
      BY <2>2, <2>3
  <1>2. UNCHANGED <<kind, status, age, procs, world, hist>>
    BY DEF JobWrites, JobFails
  <1>3. TypeOK'
    BY <1>1, <1>2 DEF IInv, TypeOK
  <1>4. Served'
    BY <1>2 DEF IInv, TypeOK, Served, Rows
  <1>5. Evidence'
    BY <1>1, <1>2 DEF IInv, TypeOK, Evidence, Rows, Expected
  <1>6. Order'
    BY <1>2 DEF IInv, Order
  <1>7. Memory'
    BY <1>2 DEF IInv, Memory
  <1> QED
    BY <1>3, <1>4, <1>5, <1>6, <1>7 DEF IInv

\* A deployment hides the evidence of the log.
LEMMA DeployEndsKeeps ==
  ASSUME IInv, DeployEnds
  PROVE  IInv'
  <1>1. TypeOK'
    BY LogTypes DEF DeployEnds, Logged, IInv, TypeOK
  <1>2. Served'
    BY LogTypes DEF DeployEnds, Logged, IInv, TypeOK, Served, Rows
  <1>3. Evidence'
    BY LogTypes DEF DeployEnds, Logged, IInv, TypeOK, Evidence, Served, Rows, Expected
  <1>4. Order'
    BY LogTypes DEF DeployEnds, Logged, IInv, TypeOK, Order, Served, Rows
  <1>5. Memory'
    BY LogTypes DEF DeployEnds, Logged, IInv, TypeOK, Memory
  <1> QED
    BY <1>1, <1>2, <1>3, <1>4, <1>5 DEF IInv

\* PocketBase repeats what the range has shown.
LEMMA PbSyncsKeeps ==
  ASSUME IInv, PbSyncs
  PROVE  IInv'
  <1>1. TypeOK'
    BY DEF PbSyncs, IInv, TypeOK
  <1>2. Served'
    BY DEF PbSyncs, IInv, TypeOK, Served, Rows
  <1>3. Evidence'
    BY DEF PbSyncs, IInv, TypeOK, Evidence, Served, Rows, Expected
  <1>4. Order'
    BY DEF PbSyncs, IInv, TypeOK, Order, Served, Rows
  <1>5. Memory'
    BY DEF PbSyncs, IInv, TypeOK, Memory
  <1> QED
    BY <1>1, <1>2, <1>3, <1>4, <1>5 DEF IInv

-----------------------------------------------------------------------------
(* The theorems.                                                           *)

\* Every step keeps the invariant.
LEMMA StepKeeps ==
  ASSUME IInv, [Next]_vars
  PROVE  IInv'
  <1>1. ASSUME NEW o \in Ids, OpStep(o)
        PROVE  IInv'
    BY <1>1, PostKeeps, MarkKeeps, RefusedKeeps, ReturnsKeeps, DismissKeeps, PollOpKeeps,
       PbAgreesKeeps, PbDisagreesKeeps, LogProvesKeeps, GiveUpKeeps, LudusAgreesKeeps,
       LudusDisagreesKeeps, PatchKeeps, CompleteKeeps, TickKeeps, ExpireKeeps
    DEF OpStep, CheckStep
  <1>2. CASE Restart
    BY <1>2, RestartKeeps
  <1>3. ASSUME NEW k \in Kinds, JobEnds(k)
        PROVE  IInv'
    BY <1>3, JobEndsKeeps
  <1>4. CASE DeployEnds
    BY <1>4, DeployEndsKeeps
  <1>5. CASE PbSyncs
    BY <1>5, PbSyncsKeeps
  <1>7. CASE JobFails \/ \E k \in Kinds : JobWrites(k)
    BY <1>7, UncleanKeeps
  <1>6. CASE UNCHANGED vars
    BY <1>6 DEF vars, IInv, TypeOK, Served, Evidence, Order, Memory, Rows, Expected
  <1> QED
    BY <1>1, <1>2, <1>3, <1>4, <1>5, <1>6, <1>7 DEF Next

\* The invariant holds in every reachable state.
LEMMA Invariant == Spec => []IInv
  <1>1. IInv /\ [Next]_vars => IInv'
    BY StepKeeps
  <1> QED
    BY InitHolds, <1>1, PTL DEF Spec

\* checkCompletion and the rest of the route keep every variable's type.
THEOREM TestingTypeCorrect == Spec => []TypeOK
  <1>1. IInv => TypeOK
    BY DEF IInv
  <1> QED
    BY Invariant, <1>1, PTL

\* checkCompletion, with any number of operations, polls and restarts: an operation
\* is completed on evidence that is its own, or misled by what a failed, killed or
\* unfinished job of its kind wrote in the window of another job's clean recap.
\* There is no third way.
THEOREM SuccessesAreReal == Spec => []SuccessIsReal
  <1>1. IInv => SuccessIsReal
    BY DEF IInv, Evidence, SuccessIsReal
  <1> QED
    BY Invariant, <1>1, PTL

\* POST: of two operations in progress the older has been ended before.
THEOREM OlderOpsWereEnded == Spec => []OneInProgress
  <1>1. IInv => OneInProgress
    BY DEF IInv, Order, OneInProgress, Active
  <1> QED
    BY Invariant, <1>1, PTL

\* testingStopRetriedOpIds: one automatic stop for an operation in progress.
THEOREM StopsOnceByItself == Spec => []OneAutomaticStop
  <1>1. IInv => OneAutomaticStop
    BY DEF IInv, Memory, OneAutomaticStop
  <1> QED
    BY Invariant, <1>1, PTL

\* markRangeOpRunning: an operation that has ended is in progress again only when
\* its own request returns, never because of a poll or a check that outlived it.
ReopenedByItsRequest ==
  [][\A o \in Ids : status[o] \in Terminal /\ status'[o] = "running"
        => stage[o] = "put" /\ stage'[o] = "none"]_vars

\* markRangeOpRunning: only its own request sets an ended operation back.
THEOREM OnlyItsRequestReopens == Spec => ReopenedByItsRequest
  <1>1. ASSUME IInv, NEW p \in Ids, NEW o \in Ids, OpStep(o),
               status[p] \in Terminal, status'[p] = "running"
        PROVE  stage[p] = "put" /\ stage'[p] = "none"
    <2>1. CASE Returns(o)
      BY <1>1, <2>1 DEF Returns, IInv, TypeOK
    <2>2. ASSUME NEW k \in Kinds, Post(o, k)
          PROVE  FALSE
      BY <1>1, <2>2 DEF Post, Posted, IInv, TypeOK
    <2>3. CASE PollOp(o)
      BY <1>1, <2>3 DEF PollOp, IsNewest, Active, IInv, TypeOK
    <2>4. CASE Refused(o) \/ Dismiss(o) \/ Expire(o)
      BY <1>1, <2>4, ZenonT(30) DEF Refused, Dismiss, Expire, Settle, IInv, TypeOK
    <2>5. CASE Mark(o) \/ Tick(o)
      BY <1>1, <2>5 DEF Mark, Tick
    <2>6. ASSUME NEW w \in Who, CheckStep(w, o) \/ Patch(w, o)
          PROVE  FALSE
      <3>1. CASE PbAgrees(w, o) \/ GiveUp(w, o) \/ Complete(w, o)
        BY <1>1, <3>1 DEF PbAgrees, GiveUp, Complete, Success, Settle, IInv, TypeOK
      <3>2. CASE PbDisagrees(w, o) \/ LogProves(w, o) \/ LudusAgrees(w, o)
                   \/ LudusDisagrees(w, o) \/ Patch(w, o)
        BY <1>1, <3>2 DEF PbDisagrees, LogProves, LudusAgrees, LudusDisagrees, Patch
      <3> QED
        BY <2>6, <3>1, <3>2 DEF CheckStep
    <2> QED
      BY <1>1, <2>1, <2>2, <2>3, <2>4, <2>5, <2>6 DEF OpStep
  <1>2. ASSUME IInv, NEW p \in Ids, Next, status[p] \in Terminal, status'[p] = "running"
        PROVE  stage[p] = "put" /\ stage'[p] = "none"
    BY <1>1, <1>2 DEF Next, Restart, JobEnds, JobWrites, JobFails, DeployEnds, PbSyncs
  <1>3. IInv /\ [Next]_vars =>
          [\A o \in Ids : status[o] \in Terminal /\ status'[o] = "running"
             => stage[o] = "put" /\ stage'[o] = "none"]_vars
    BY <1>2
  <1> QED
    BY Invariant, <1>3, PTL DEF Spec, ReopenedByItsRequest

-----------------------------------------------------------------------------
(* The table keeps the promise of RangeOpLifecycle.                        *)

\* The requests that have yet to return.
Waits == [o \in Ids |-> stage[o] # "none"]

\* A step RangeOpLifecycle allows, or does not see.
AsPromised == [RangeOps!Next]_<<status, Waits>>

\* What settles an operation with a row, and answers no request, ends it.
LEMMA SettleEnds ==
  ASSUME NEW o \in Ids, o \in Rows, NEW s \in Terminal, Settle(o, s), stage' = stage
  PROVE  AsPromised
  <1>1. RangeOps!End(o)
    BY DEF RangeOps!End, RangeOps!Terminal, Settle, Rows
  <1> QED
    BY <1>1 DEF AsPromised, RangeOps!Next

\* A POST, a poll or a dismissal keeps the promise.
LEMMA RequestAsPromised ==
  ASSUME IInv, NEW o \in Ids,
         (\E k \in Kinds : Post(o, k)) \/ Mark(o) \/ Refused(o) \/ Returns(o) \/ Dismiss(o) \/ PollOp(o)
  PROVE  AsPromised
  <1>1. ASSUME NEW k \in Kinds, Post(o, k)
        PROVE  AsPromised
    <2>1. Waits' = [Waits EXCEPT ![o] = TRUE]
      BY <1>1 DEF Post, Waits, IInv, TypeOK
    <2>2. RangeOps!Post(o)
      BY <1>1, <2>1 DEF Post, Posted, IsNewest, Active, Waits, RangeOps!Post, RangeOps!IsNewest,
                        RangeOps!InProgress
    <2> QED
      BY <2>2 DEF AsPromised, RangeOps!Next
  <1>2. CASE Mark(o)
    <2>1. Waits' = Waits /\ status' = status
      BY <1>2 DEF Mark, Waits, IInv, TypeOK
    <2> QED
      BY <2>1 DEF AsPromised
  <1>3. CASE Refused(o) \/ Returns(o)
    <2>0. stage[o] = "put" /\ stage' = [stage EXCEPT ![o] = "none"]
      BY <1>3 DEF Refused, Returns
    <2>1. Waits' = [Waits EXCEPT ![o] = FALSE] /\ Waits[o]
      BY <2>0 DEF Waits, IInv, TypeOK
    <2>2. status' = [status EXCEPT ![o] = "error"] \/ status' = [status EXCEPT ![o] = "running"]
      BY <1>3 DEF Refused, Returns, Settle
    <2>3. RangeOps!Return(o)
      BY <2>1, <2>2 DEF RangeOps!Return, Waits
    <2> QED
      BY <2>3 DEF AsPromised, RangeOps!Next
  <1>4. CASE Dismiss(o)
    BY <1>4, SettleEnds DEF Dismiss, IsNewest, Active, Rows
  <1>5. CASE PollOp(o)
    <2>1. CASE status[o] = "pending"
      <3>1. RangeOps!Begin(o)
        BY <1>5, <2>1 DEF PollOp, RangeOps!Begin
      <3> QED
        BY <3>1 DEF AsPromised, RangeOps!Next
    <2>2. CASE status[o] # "pending"
      BY <1>5, <2>2 DEF PollOp, AsPromised, Waits
    <2> QED
      BY <2>1, <2>2
  <1> QED
    BY <1>1, <1>2, <1>3, <1>4, <1>5

\* So does a check.
LEMMA CheckAsPromised ==
  ASSUME IInv, NEW w \in Who, NEW o \in Ids, CheckStep(w, o) \/ Patch(w, o)
  PROVE  AsPromised
  <1>1. CASE PbAgrees(w, o) \/ GiveUp(w, o) \/ Complete(w, o)
    <2>1. o \in Rows /\ stage' = stage
      BY <1>1 DEF PbAgrees, GiveUp, Complete, IInv, Served
    <2>2. Settle(o, "completed") \/ Settle(o, "error")
      BY <1>1 DEF PbAgrees, GiveUp, Complete, Success
    <2> QED
      BY <2>1, <2>2, SettleEnds
  <1>2. CASE PbDisagrees(w, o) \/ LogProves(w, o) \/ LudusAgrees(w, o) \/ LudusDisagrees(w, o)
               \/ Patch(w, o)
    <2>1. status' = status /\ stage' = stage
      BY <1>2 DEF PbDisagrees, LogProves, LudusAgrees, LudusDisagrees, Patch
    <2> QED
      BY <2>1 DEF AsPromised, Waits
  <1> QED
    BY <1>1, <1>2 DEF CheckStep

\* range-op-store.ts with its route: whatever the order of requests, polls, restarts
\* and answers, the table behaves as RangeOpLifecycle says.  That a row goes only
\* after its request, which the code does not enforce, rests on the 30 minutes a row
\* lives and the 5 a request may take.
THEOREM TableKeepsItsPromise == Spec => ImplementsRangeOps
  <1>1. Init => RangeOps!Init
    BY DEF Init, RangeOps!Init
  <1>2. ASSUME IInv, NEW o \in Ids, OpStep(o)
        PROVE  AsPromised
    <2>1. CASE Tick(o)
      BY <2>1 DEF Tick, AsPromised, Waits
    <2>2. CASE Expire(o)
      <3>1. status[o] # "none" /\ stage[o] = "none" /\ stage' = stage
        BY <1>2, <2>2 DEF Expire, IInv, Order
      <3>2. RangeOps!Expire(o)
        BY <2>2, <3>1 DEF Expire, RangeOps!Expire, Waits
      <3> QED
        BY <3>2 DEF AsPromised, RangeOps!Next
    <2> QED
      BY <1>2, <2>1, <2>2, RequestAsPromised, CheckAsPromised DEF OpStep
  <1>3. ASSUME Restart
        PROVE  AsPromised
    <2>1. Waits' = [o \in Ids |-> FALSE] /\ status' = status
      BY <1>3 DEF Restart, Waits
    <2>2. RangeOps!Restart
      BY <2>1 DEF RangeOps!Restart, Waits
    <2> QED
      BY <2>2 DEF AsPromised, RangeOps!Next
  <1>4. ASSUME (\E k \in Kinds : JobEnds(k) \/ JobWrites(k)) \/ JobFails \/ DeployEnds \/ PbSyncs \/ UNCHANGED vars
        PROVE  AsPromised
    <2>1. status' = status /\ stage' = stage
      BY <1>4 DEF JobEnds, JobWrites, JobFails, DeployEnds, PbSyncs, vars
    <2> QED
      BY <2>1 DEF AsPromised, Waits
  <1>5. IInv /\ [Next]_vars => AsPromised
    BY <1>2, <1>3, <1>4 DEF Next
  <1>6. AsPromised => [RangeOps!Next]_<<status, [o \in Ids |-> stage[o] # "none"]>>
    BY DEF AsPromised, Waits
  <1> QED
    BY Invariant, <1>1, <1>5, <1>6, PTL DEF Spec, ImplementsRangeOps, RangeOps!Spec
=============================================================================
