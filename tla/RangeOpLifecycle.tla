-------------------------- MODULE RangeOpLifecycle --------------------------
(***************************************************************************)
(* What the store of range operations promises about an operation          *)
(* (src/src/lib/range/range-op-store.ts).  Operations are posted one after *)
(* another, and posting one ends the newest that is in progress.  An       *)
(* operation that has ended stays so, although its verdict may be revised, *)
(* with one exception: the request that posted it may still be waiting for *)
(* Ludus, and sets it back to running when it returns.  It returns once.   *)
(* A row goes only when its request is over.                               *)
(***************************************************************************)
EXTENDS Naturals

CONSTANT Ids            \* operations, in the order they are posted

VARIABLES
  status,   \* status[o]: the row's status, "none" before, "pruned" afterwards
  waits     \* waits[o]: the request that posted o has yet to return

Terminal   == {"completed", "error"}
InProgress == {o \in Ids : status[o] \in {"pending", "running"}}
IsNewest(o) == o \in InProgress /\ \A p \in InProgress : p <= o

Init ==
  /\ status = [o \in Ids |-> "none"]
  /\ waits = [o \in Ids |-> FALSE]

Post(o) ==
  /\ status[o] = "none"
  /\ \A p \in Ids : p < o => status[p] # "none"
  /\ status' = [p \in Ids |-> IF p = o THEN "pending"
                              ELSE IF IsNewest(p) THEN "error" ELSE status[p]]
  /\ waits' = [waits EXCEPT ![o] = TRUE]

\* A poll learns that Ludus is at work on it.
Begin(o) ==
  /\ status[o] = "pending"
  /\ status' = [status EXCEPT ![o] = "running"]
  /\ UNCHANGED waits

\* The request returns, or is refused.
Return(o) ==
  /\ waits[o]
  /\ waits' = [waits EXCEPT ![o] = FALSE]
  /\ \E s \in {"running", "error"} : status' = [status EXCEPT ![o] = s]

\* It is completed, given up or dismissed.
End(o) ==
  /\ status[o] \notin {"none", "pruned"}
  /\ \E s \in Terminal : status' = [status EXCEPT ![o] = s]
  /\ UNCHANGED waits

Expire(o) ==
  /\ status[o] # "none"
  /\ ~waits[o]
  /\ status' = [status EXCEPT ![o] = "pruned"]
  /\ UNCHANGED waits

\* The server restarts; its requests do not return.
Restart ==
  /\ waits' = [o \in Ids |-> FALSE]
  /\ UNCHANGED status

Next ==
  \/ \E o \in Ids : Post(o) \/ Begin(o) \/ Return(o) \/ End(o) \/ Expire(o)
  \/ Restart

Spec == Init /\ [][Next]_<<status, waits>>
=============================================================================
