--------------------------- MODULE SWRCache_proofs ---------------------------
(***************************************************************************)
(* Proofs about SWRCache, for every number of fetches and of changes.      *)
(* FlagHasFetch is inductive with the types.  OneRevalidation needs the    *)
(* converse for the cache that is only peeked at: its fetches are          *)
(* background fetches and the flag is set while one is under way.          *)
(* RefreshIsFresh needs that no refresh was asked for in the future, and   *)
(* that Next's data cache never answers one.                               *)
(* FreshAfterMutation does not hold; that it does unless an answer from    *)
(* before the mutation is waiting to be stored says where the fault is.    *)
(***************************************************************************)
EXTENDS SWRCache, TLAPS

\* The record of a fetch has its type whichever way it starts.
LEMMA AskingTyped ==
  ASSUME TypeOK, NEW c \in Caches, NEW bg \in BOOLEAN, NEW by \in BOOLEAN
  PROVE  /\ Asking(c, bg) \in Fetch
         /\ InventoryFrom(bg, by) \in Fetch
         /\ [InventoryFrom(bg, by) EXCEPT !.refresh = TRUE, !.since = truth] \in Fetch
<1>1. Idle \in Fetch
  BY DEF Idle, Fetch, Caches
<1>2. \A d \in Caches : Asking(d, bg) \in Fetch
  BY <1>1 DEF Asking, Fetch, Idle
<1>3. entries["admin"].data \in Nat /\ truth \in Nat
  BY DEF TypeOK, Entry, Caches
<1>4. InventoryFrom(bg, by) \in Fetch
  <2>1. Asking("vms", bg) \in Fetch
    BY <1>2 DEF Caches
  <2>2. CASE by \/ Cold("admin")
    BY <2>1, <2>2 DEF InventoryFrom
  <2>3. CASE ~(by \/ Cold("admin"))
    <3>1. InventoryFrom(bg, by)
            = [Asking("vms", bg) EXCEPT !.at = "read", !.data = entries["admin"].data]
      BY <2>3 DEF InventoryFrom
    <3>2. QED
      BY <3>1, <2>1, <1>3 DEF Fetch
  <2>4. QED
    BY <2>2, <2>3
<1>5. QED
  BY <1>2, <1>3, <1>4 DEF Fetch

LEMMA EntriesTyped ==
  ASSUME TypeOK, NEW S
  PROVE  /\ Dropped(S) \in [Caches -> Entry]
         /\ \A v \in Nat, c \in Caches : [entries EXCEPT ![c] = Full(v)] \in [Caches -> Entry]
<1>1. Empty \in Entry
  BY DEF Empty, Entry
<1>2. \A v \in Nat : Full(v) \in Entry
  BY DEF Full, Entry
<1>3. QED
  BY <1>1, <1>2 DEF TypeOK, Dropped

LEMMA InitTyped == Init => TypeOK
<1>1. Idle \in Fetch /\ Empty \in Entry
  BY DEF Idle, Fetch, Empty, Entry, Caches
<1>2. QED
  BY <1>1, ConstantsAssumption DEF Init, TypeOK, Layer2, Nothing

\* What a request to Ludus yields, and what becomes of Next's entry.
LEMMA OutcomesTyped ==
  ASSUME TypeOK, NEW v \in Outcomes
  PROVE  v \in Nat /\ [state |-> "fresh", data |-> v] \in Layer2
BY DEF TypeOK, Outcomes, Nothing, Layer2

LEMMA AnsweredTyped ==
  ASSUME TypeOK, NEW f \in Fetches, NEW v \in Nat
  PROVE  Answered(f, v) \in [Fetches -> Fetch]
  <1>1. fetch[f] \in Fetch
    BY DEF TypeOK
  <1>2. [fetch[f] EXCEPT !.data = v, !.at = IF fetch[f].of = "vms" THEN "admin" ELSE "read"] \in Fetch
    BY <1>1 DEF Fetch
  <1> QED
    BY <1>2 DEF TypeOK, Answered

\* An answer changes the data of its own fetch, and how far that is.
LEMMA AnsweredKeeps ==
  ASSUME TypeOK, NEW f \in Fetches, NEW v, fetch' = Answered(f, v)
  PROVE  /\ \A h \in Fetches : /\ fetch'[h].of = fetch[h].of
                               /\ fetch'[h].background = fetch[h].background
                               /\ fetch'[h].refresh = fetch[h].refresh
                               /\ fetch'[h].since = fetch[h].since
                               /\ h # f => fetch'[h] = fetch[h]
         /\ fetch'[f].data = v
         /\ fetch'[f].at = IF fetch[f].of = "vms" THEN "admin" ELSE "read"
BY DEF TypeOK, Answered, Fetch

LEMMA AnyAnswer ==
  ASSUME NEW f \in Fetches, Answer(f) \/ AnswerFromNext(f)
  PROVE  \E v : fetch' = Answered(f, v)
BY DEF Answer, AnswerFromNext

LEMMA NextTyped ==
  ASSUME TypeOK, [Next]_vars
  PROVE  TypeOK'
<1>1. ASSUME NEW f \in Fetches, Peek(f) PROVE TypeOK'
  <2>1. "prefetch" \in Caches
    BY DEF Caches
  <2>2. Asking("prefetch", TRUE) \in Fetch
    BY <2>1, AskingTyped
  <2>3. QED
    BY <1>1, <2>1, <2>2 DEF Peek, TypeOK
<1>2. ASSUME NEW f \in Fetches, GetAdmin(f) PROVE TypeOK'
  <2>1. "admin" \in Caches
    BY DEF Caches
  <2>2. Cold("admin") \in BOOLEAN
    BY <2>1 DEF Cold, TypeOK, Entry
  <2>3. Asking("admin", ~Cold("admin")) \in Fetch
    BY <2>1, <2>2, AskingTyped
  <2>4. QED
    BY <1>2, <2>1, <2>3 DEF GetAdmin, TypeOK
<1>3. ASSUME NEW f \in Fetches, NEW g \in Fetches, GetInventory(f, g) PROVE TypeOK'
  <2>1. "admin" \in Caches /\ "vms" \in Caches
    BY DEF Caches
  <2>2. Cold("vms") \in BOOLEAN
    BY <2>1 DEF Cold, TypeOK, Entry
  <2>3. InventoryFrom(~Cold("vms"), FALSE) \in Fetch /\ Asking("admin", TRUE) \in Fetch
    BY <2>1, <2>2, AskingTyped
  <2>4. fetch' \in [Fetches -> Fetch]
    BY <1>3, <2>3 DEF GetInventory, TypeOK
  <2>5. inflight' \in SUBSET Caches
    BY <1>3, <2>1 DEF GetInventory, TypeOK
  <2>6. QED
    BY <1>3, <2>4, <2>5 DEF GetInventory, TypeOK
<1>4. ASSUME NEW f \in Fetches, Refresh(f) PROVE TypeOK'
  <2>1. ("admin" \in Bypassed) \in BOOLEAN
    BY DEF Bypassed
  <2>2. [InventoryFrom(FALSE, "admin" \in Bypassed) EXCEPT !.refresh = TRUE, !.since = truth]
          \in Fetch
    BY <2>1, AskingTyped DEF Caches
  <2>3. Dropped(Bypassed) \in [Caches -> Entry]
    BY EntriesTyped
  <2>4. QED
    BY <1>4, <2>2, <2>3 DEF Refresh, TypeOK
<1>5. ASSUME NEW f \in Fetches, Answer(f) PROVE TypeOK'
  <2>1. PICK v \in Outcomes :
          /\ fetch' = Answered(f, v)
          /\ layer2' = IF fetch[f].of = "prefetch" THEN [state |-> "fresh", data |-> v] ELSE layer2
    BY <1>5 DEF Answer
  <2>2. fetch' \in [Fetches -> Fetch] /\ layer2' \in Layer2
    BY <2>1, OutcomesTyped, AnsweredTyped DEF TypeOK
  <2>3. QED
    BY <1>5, <2>2 DEF Answer, TypeOK
<1>15. ASSUME NEW f \in Fetches, AnswerFromNext(f) PROVE TypeOK'
  <2>1. layer2.data \in Nat
    BY DEF TypeOK, Layer2
  <2>2. fetch' \in [Fetches -> Fetch] /\ layer2' \in Layer2
    BY <1>15, <2>1, AnsweredTyped DEF AnswerFromNext, TypeOK, Layer2
  <2>3. QED
    BY <1>15, <2>2 DEF AnswerFromNext, TypeOK
<1>16. CASE NextExpires
  BY <1>16 DEF NextExpires, TypeOK, Layer2
<1>17. CASE NextRefreshes
  BY <1>17, OutcomesTyped DEF NextRefreshes, TypeOK
<1>6. ASSUME NEW f \in Fetches, AdminReady(f) PROVE TypeOK'
  <2>1. fetch[f].data \in Nat /\ "admin" \in Caches
    BY DEF TypeOK, Fetch, Caches
  <2>2. entries' \in [Caches -> Entry]
    BY <1>6, <2>1, EntriesTyped DEF AdminReady
  <2>3. fetch' \in [Fetches -> Fetch]
    BY <1>6 DEF AdminReady, TypeOK, Fetch
  <2>4. QED
    BY <1>6, <2>2, <2>3 DEF AdminReady, TypeOK
<1>7. ASSUME NEW f \in Fetches, Store(f) PROVE TypeOK'
  <2>1. fetch[f].data \in Nat /\ fetch[f].of \in Caches
    BY <1>7 DEF TypeOK, Fetch, Store, Free
  <2>2. entries' \in [Caches -> Entry]
    BY <1>7, <2>1, EntriesTyped DEF Store
  <2>3. Idle \in Fetch
    BY DEF Idle, Fetch, Caches
  <2>4. QED
    BY <1>7, <2>2, <2>3 DEF Store, TypeOK
<1>8. ASSUME NEW f \in Fetches, Fail(f) PROVE TypeOK'
  <2>1. Idle \in Fetch
    BY DEF Idle, Fetch, Caches
  <2>2. QED
    BY <1>8, <2>1 DEF Fail, AfterFailure, TypeOK
<1>9. ASSUME NEW c \in Caches, Expire(c) PROVE TypeOK'
  BY <1>9 DEF Expire, TypeOK, Entry
<1>10. CASE Mutate
  BY <1>10 DEF Mutate, TypeOK
<1>11. CASE Invalidate
  <2>1. Revalidated(layer2) \in Layer2
    BY DEF Revalidated, TypeOK, Layer2
  <2>2. QED
    BY <1>11, <2>1, EntriesTyped DEF Invalidate, TypeOK
<1>12. CASE ChangeElsewhere
  BY <1>12 DEF ChangeElsewhere, TypeOK
<1>13. CASE UNCHANGED vars
  BY <1>13 DEF vars, TypeOK
<1>14. QED
  BY <1>1, <1>2, <1>3, <1>4, <1>5, <1>6, <1>7, <1>8, <1>9, <1>10, <1>11, <1>12, <1>13,
     <1>15, <1>16, <1>17
     DEF Next, Read

\* Type correctness of the caches and of the fetches under way.
THEOREM CacheTypeCorrect == Spec => []TypeOK
BY InitTyped, NextTyped, PTL DEF Spec

-----------------------------------------------------------------------------
(* The revalidation flag.                                                  *)

\* A background fetch of c is under way.
Revalidating(c) == \E f \in Fetches : fetch[f].of = c /\ fetch[f].background

LEMMA FlagKept ==
  ASSUME TypeOK, FlagHasFetch, [Next]_vars
  PROVE  FlagHasFetch'
<1>1. SUFFICES ASSUME NEW c \in inflight' PROVE Revalidating(c)'
  BY DEF FlagHasFetch, Revalidating
<1>a. c \in inflight => Revalidating(c)
  BY DEF FlagHasFetch, Revalidating
<1>b. "none" \notin Caches /\ inflight \subseteq Caches
  BY DEF Caches, TypeOK
\* A fetch that starts in a free slot ends no other.
<1>c. ASSUME c \in inflight, NEW f \in Fetches, Free(f),
             \A h \in Fetches : h # f => fetch'[h] = fetch[h] PROVE Revalidating(c)'
  BY <1>c, <1>a, <1>b DEF Revalidating, Free
<1>2. ASSUME NEW f \in Fetches, Peek(f) PROVE Revalidating(c)'
  <2>1. CASE c \in inflight
    BY <2>1, <1>2, <1>c DEF Peek, TypeOK
  <2>2. CASE c = "prefetch"
    BY <2>2, <1>2 DEF Peek, Revalidating, Asking, Idle, TypeOK
  <2>3. QED
    BY <1>1, <1>2, <2>1, <2>2 DEF Peek
<1>3. ASSUME NEW f \in Fetches, GetAdmin(f) PROVE Revalidating(c)'
  <2>1. CASE c \in inflight
    BY <2>1, <1>3, <1>c DEF GetAdmin, TypeOK
  <2>2. CASE c = "admin" /\ ~Cold("admin")
    BY <2>2, <1>3 DEF GetAdmin, Revalidating, Asking, Idle, TypeOK
  <2>3. QED
    BY <1>1, <1>3, <2>1, <2>2 DEF GetAdmin
<1>4. ASSUME NEW f \in Fetches, NEW g \in Fetches, GetInventory(f, g) PROVE Revalidating(c)'
  <2>1. CASE c \in inflight
    <3>1. PICK h \in Fetches : fetch[h].of = c /\ fetch[h].background
      BY <2>1, <1>a DEF Revalidating
    <3>2. ~Free(h) /\ h # f
      BY <3>1, <2>1, <1>4, <1>b DEF Free, GetInventory
    <3>3. fetch'[h] = fetch[h]
      BY <3>2, <1>4 DEF GetInventory
    <3>4. QED
      BY <3>1, <3>3 DEF Revalidating
  <2>2. CASE c = "vms" /\ ~Cold("vms")
    <3>1. fetch'[f] = InventoryFrom(TRUE, FALSE)
      BY <2>2, <1>4 DEF GetInventory
    <3>2. InventoryFrom(TRUE, FALSE).of = "vms" /\ InventoryFrom(TRUE, FALSE).background
      BY DEF InventoryFrom, Asking, Idle
    <3>3. QED
      BY <2>2, <3>1, <3>2 DEF Revalidating
  <2>3. CASE c = "admin" /\ Due("admin")
    <3>1. g # f /\ fetch'[g] = Asking("admin", TRUE)
      BY <2>3, <1>4 DEF GetInventory
    <3>2. QED
      BY <2>3, <3>1 DEF Revalidating, Asking, Idle
  <2>4. QED
    BY <1>1, <1>4, <2>1, <2>2, <2>3 DEF GetInventory
<1>5. ASSUME NEW f \in Fetches, Refresh(f) PROVE Revalidating(c)'
  BY <1>1, <1>5, <1>c DEF Refresh, TypeOK
<1>6. ASSUME NEW f \in Fetches, Answer(f) \/ AnswerFromNext(f) PROVE Revalidating(c)'
  <2>1. \A h \in Fetches : fetch'[h].of = fetch[h].of /\ fetch'[h].background = fetch[h].background
    BY <1>6, AnyAnswer, AnsweredKeeps
  <2>2. inflight' = inflight
    BY <1>6 DEF Answer, AnswerFromNext
  <2>3. QED
    BY <1>1, <1>a, <2>1, <2>2 DEF Revalidating
<1>7. ASSUME NEW f \in Fetches, AdminReady(f) PROVE Revalidating(c)'
  BY <1>1, <1>7, <1>a DEF AdminReady, Revalidating, TypeOK, Fetch
<1>8. ASSUME NEW f \in Fetches, Store(f) PROVE Revalidating(c)'
  BY <1>1, <1>8, <1>a DEF Store, Revalidating, TypeOK
<1>9. ASSUME NEW f \in Fetches, Fail(f) PROVE Revalidating(c)'
  BY <1>1, <1>9, <1>a DEF Fail, AfterFailure, Revalidating, TypeOK
<1>10. ASSUME UNCHANGED <<inflight, fetch>> PROVE Revalidating(c)'
  BY <1>1, <1>10, <1>a DEF Revalidating
<1>11. QED
  BY <1>2, <1>3, <1>4, <1>5, <1>6, <1>7, <1>8, <1>9, <1>10
     DEF Next, Read, Expire, NextExpires, NextRefreshes, Mutate, Invalidate, ChangeElsewhere, vars

\* A revalidation flag is never left behind by the fetch it stands for,
\* whichever fetches fail and however cold reads and invalidations interleave.
THEOREM NoFlagLeftBehind == Spec => []FlagHasFetch
<1>1. Init => TypeOK /\ FlagHasFetch
  BY InitTyped DEF Init, FlagHasFetch
<1>2. (TypeOK /\ FlagHasFetch) /\ [Next]_vars => (TypeOK /\ FlagHasFetch)'
  BY NextTyped, FlagKept
<1>3. QED
  BY <1>1, <1>2, PTL DEF Spec

-----------------------------------------------------------------------------
(* A cache that is only peeked at.                                         *)

\* Its fetches are background fetches, and each has the flag.
Flagged == \A f \in Fetches : fetch[f].of = "prefetch"
                => fetch[f].background /\ "prefetch" \in inflight

PeekInv == Flagged /\ OneRevalidation

LEMMA PeekInvKept ==
  ASSUME TypeOK, PeekInv, [Next]_vars
  PROVE  PeekInv'
<1>1. ASSUME NEW f \in Fetches, Peek(f) PROVE PeekInv'
  <2>1. \A h \in Fetches : fetch[h].of # "prefetch"
    BY <1>1 DEF Peek, Unflagged, PeekInv, Flagged
  <2>2. \A h \in Fetches : fetch'[h].of = "prefetch" => h = f
    BY <1>1, <2>1 DEF Peek, TypeOK
  <2>3. fetch'[f].background /\ "prefetch" \in inflight'
    BY <1>1 DEF Peek, Asking, Idle, TypeOK
  <2>4. QED
    BY <2>2, <2>3 DEF PeekInv, Flagged, OneRevalidation
\* The steps of the other caches add no such fetch and leave the flag alone.
<1>2. ASSUME \A h \in Fetches : fetch'[h].of = "prefetch" => fetch'[h] = fetch[h],
             "prefetch" \in inflight => "prefetch" \in inflight' PROVE PeekInv'
  BY <1>2 DEF PeekInv, Flagged, OneRevalidation
<1>3. ASSUME NEW f \in Fetches, GetAdmin(f) PROVE PeekInv'
  <2>1. fetch'[f].of = "admin" /\ \A h \in Fetches : h # f => fetch'[h] = fetch[h]
    BY <1>3 DEF GetAdmin, Asking, Idle, TypeOK
  <2>2. QED
    BY <1>2, <1>3, <2>1 DEF GetAdmin
<1>4. ASSUME NEW f \in Fetches, NEW g \in Fetches, GetInventory(f, g) PROVE PeekInv'
  <2>1. \A bg, by : InventoryFrom(bg, by).of = "vms" /\ Asking("admin", bg).of = "admin"
    BY DEF InventoryFrom, Asking, Idle
  <2>2. \A h \in Fetches : fetch'[h].of = "prefetch" => fetch'[h] = fetch[h]
    BY <1>4, <2>1 DEF GetInventory
  <2>3. QED
    BY <1>2, <1>4, <2>2 DEF GetInventory
<1>5. ASSUME NEW f \in Fetches, Refresh(f) PROVE PeekInv'
  <2>1. fetch'[f].of = "vms" /\ \A h \in Fetches : h # f => fetch'[h] = fetch[h]
    BY <1>5 DEF Refresh, InventoryFrom, Asking, Idle, TypeOK
  <2>2. QED
    BY <1>2, <1>5, <2>1 DEF Refresh
<1>6. ASSUME NEW f \in Fetches, Answer(f) \/ AnswerFromNext(f) PROVE PeekInv'
  <2>1. \A h \in Fetches : fetch'[h].of = fetch[h].of /\ fetch'[h].background = fetch[h].background
    BY <1>6, AnyAnswer, AnsweredKeeps
  <2>2. inflight' = inflight
    BY <1>6 DEF Answer, AnswerFromNext
  <2>3. QED
    BY <2>1, <2>2 DEF PeekInv, Flagged, OneRevalidation
<1>7. ASSUME NEW f \in Fetches, AdminReady(f) PROVE PeekInv'
  BY <1>7 DEF AdminReady, PeekInv, Flagged, OneRevalidation, TypeOK, Fetch
<1>8. ASSUME NEW f \in Fetches, Store(f) PROVE PeekInv'
  BY <1>8 DEF Store, Idle, PeekInv, Flagged, OneRevalidation, TypeOK
<1>9. ASSUME NEW f \in Fetches, Fail(f) PROVE PeekInv'
  BY <1>9 DEF Fail, AfterFailure, Idle, PeekInv, Flagged, OneRevalidation, TypeOK
<1>10. ASSUME UNCHANGED <<inflight, fetch>> PROVE PeekInv'
  BY <1>2, <1>10
<1>11. QED
  BY <1>1, <1>3, <1>4, <1>5, <1>6, <1>7, <1>8, <1>9, <1>10
     DEF Next, Read, Expire, NextExpires, NextRefreshes, Mutate, Invalidate, ChangeElsewhere, vars

\* However many pages peek at a cold or stale cache, one fetch of it is under way.
THEOREM PeeksShareOneFetch == Spec => []OneRevalidation
<1>1. Init => TypeOK /\ PeekInv
  BY InitTyped DEF Init, PeekInv, Flagged, OneRevalidation, Idle
<1>2. (TypeOK /\ PeekInv) /\ [Next]_vars => (TypeOK /\ PeekInv)'
  BY NextTyped, PeekInvKept
<1>3. PeekInv => OneRevalidation
  BY DEF PeekInv
<1>4. QED
  BY <1>1, <1>2, <1>3, PTL DEF Spec

-----------------------------------------------------------------------------
(* A refresh.                                                              *)

\* A refresh is one of the inventory, and none was asked for in the future.
RefreshInv ==
  /\ RefreshIsFresh
  /\ \A f \in Fetches : fetch[f].since <= truth /\ (fetch[f].refresh => fetch[f].of = "vms")

LEMMA RefreshInvKept ==
  ASSUME TypeOK, RefreshInv, [Next]_vars
  PROVE  RefreshInv'
<1>a. truth \in Nat /\ truth' \in Nat /\ truth <= truth'
  <2>1. UNCHANGED truth \/ truth' = truth + 1
    BY DEF Next, vars, Read, Peek, GetAdmin, GetInventory, Refresh, Answer, AnswerFromNext,
           AdminReady, Store, Fail, Expire, NextExpires, NextRefreshes, Mutate, Invalidate,
           ChangeElsewhere
  <2>2. truth \in Nat
    BY DEF TypeOK
  <2>3. QED
    BY <2>1, <2>2
<1>b. \A f \in Fetches : fetch[f] \in Fetch
  BY DEF TypeOK
\* A fetch that keeps its record, and one that is none or asks for no refresh.
<1>c. ASSUME \A h \in Fetches : fetch'[h] # fetch[h] => ~fetch'[h].refresh /\ fetch'[h].since = 0
      PROVE RefreshInv'
  <2>1. \A h \in Fetches : fetch[h].since \in Nat
    BY <1>b DEF Fetch
  <2>2. QED
    BY <1>a, <1>c, <2>1 DEF RefreshInv, RefreshIsFresh
<1>d. \A c, bg, by : /\ ~Asking(c, bg).refresh /\ Asking(c, bg).since = 0
                     /\ ~InventoryFrom(bg, by).refresh /\ InventoryFrom(bg, by).since = 0
                     /\ ~Idle.refresh /\ Idle.since = 0
  BY DEF InventoryFrom, Asking, Idle
<1>1. ASSUME NEW f \in Fetches, Peek(f) \/ GetAdmin(f) \/ Store(f) \/ Fail(f) PROVE RefreshInv'
  <2>1. \A h \in Fetches : h # f => fetch'[h] = fetch[h]
    BY <1>1 DEF Peek, GetAdmin, Store, Fail, TypeOK
  <2>2. fetch'[f] = Idle \/ \E c, bg : fetch'[f] = Asking(c, bg)
    BY <1>1 DEF Peek, GetAdmin, Store, Fail, TypeOK
  <2>3. ~fetch'[f].refresh /\ fetch'[f].since = 0
    BY <2>2, <1>d
  <2>4. QED
    BY <1>c, <2>1, <2>3
<1>2. ASSUME NEW f \in Fetches, NEW g \in Fetches, GetInventory(f, g) PROVE RefreshInv'
  BY <1>2, <1>c, <1>d DEF GetInventory
<1>3. ASSUME NEW f \in Fetches, Refresh(f) PROVE RefreshInv'
  <2>1. fetch'[f].at = "asks" /\ fetch'[f].since = truth /\ fetch'[f].of = "vms"
    BY <1>3 DEF Refresh, Bypassed, InventoryFrom, Asking, Idle, TypeOK
  <2>2. \A h \in Fetches : h # f => fetch'[h] = fetch[h]
    BY <1>3 DEF Refresh, TypeOK
  <2>3. truth' = truth
    BY <1>3 DEF Refresh
  <2>4. QED
    BY <1>a, <2>1, <2>2, <2>3 DEF RefreshInv, RefreshIsFresh
<1>4. ASSUME NEW f \in Fetches, Answer(f) \/ AnswerFromNext(f) PROVE RefreshInv'
  <2>1. /\ \A h \in Fetches : h # f => fetch'[h] = fetch[h]
        /\ fetch'[f].of = fetch[f].of /\ fetch'[f].since = fetch[f].since
        /\ fetch'[f].refresh = fetch[f].refresh /\ truth' = truth
    <3>1. truth' = truth
      BY <1>4 DEF Answer, AnswerFromNext
    <3>2. QED
      BY <3>1, <1>4, AnyAnswer, AnsweredKeeps
  <2>2. fetch[f].since <= truth
    BY DEF RefreshInv
  <2>3. fetch'[f].refresh => fetch'[f].data \in {truth, Nothing}
    <3>1. CASE Answer(f)
      BY <3>1 DEF Answer, Answered, Outcomes, TypeOK, Fetch
    <3>2. CASE AnswerFromNext(f)
      BY <3>2, <2>1 DEF AnswerFromNext, RefreshInv
    <3>3. QED
      BY <1>4, <3>1, <3>2
  <2>4. \A h \in Fetches : fetch'[h].since <= truth' /\ (fetch'[h].refresh => fetch'[h].of = "vms")
    BY <2>1 DEF RefreshInv
  <2>5. RefreshIsFresh'
    BY <2>1, <2>2, <2>3 DEF RefreshInv, RefreshIsFresh
  <2>6. QED
    BY <2>4, <2>5 DEF RefreshInv
<1>5. ASSUME NEW f \in Fetches, AdminReady(f) PROVE RefreshInv'
  BY <1>5, <1>a, <1>b DEF AdminReady, RefreshInv, RefreshIsFresh, TypeOK, Fetch
<1>6. ASSUME UNCHANGED fetch PROVE RefreshInv'
  BY <1>6, <1>c
<1>7. QED
  BY <1>1, <1>2, <1>3, <1>4, <1>5, <1>6
     DEF Next, Read, Expire, NextExpires, NextRefreshes, Mutate, Invalidate, ChangeElsewhere, vars

\* The answer to refresh=1 is never older than the request; it has no data when
\* Ludus failed.
THEOREM RefreshAnswersFresh == Spec => []RefreshIsFresh
<1>1. Init => TypeOK /\ RefreshInv
  BY InitTyped DEF Init, RefreshInv, RefreshIsFresh, Idle
<1>2. (TypeOK /\ RefreshInv) /\ [Next]_vars => (TypeOK /\ RefreshInv)'
  BY NextTyped, RefreshInvKept
<1>3. RefreshInv => RefreshIsFresh
  BY DEF RefreshInv
<1>4. QED
  BY <1>1, <1>2, <1>3, PTL DEF Spec

-----------------------------------------------------------------------------
(* Invalidation.                                                           *)

VmLists == {"admin", "vms"}

\* The data are no older than version v.
AsNew(data, v) == data = Nothing \/ data >= v

\* No fetch of the VM lists has an answer from before the mutation that an
\* invalidation is made for.
NoneOutdated ==
  \A f \in Fetches : fetch[f].of \in VmLists /\ fetch[f].at # "asks" => AsNew(fetch[f].data, changed)

\* A fetch of a VM list has no answer older than the last invalidation; only one of
\* the inventory reads the admin data on its way.
Fits(r) ==
  /\ r.of \in VmLists /\ r.at # "asks" => AsNew(r.data, floor)
  /\ r.at = "admin" => r.of = "vms"

\* What is cached, and what fetches will cache, is as new as the last invalidation.
FloorInv ==
  /\ changed <= truth /\ floor <= truth
  /\ \A c \in VmLists : entries[c].held => AsNew(entries[c].data, floor)
  /\ \A f \in Fetches : Fits(fetch[f])

\* A fetch starts without an answer or with one from the cache.
LEMMA StartsAbove ==
  ASSUME FloorInv, NEW c \in Caches, NEW bg \in BOOLEAN, NEW by \in BOOLEAN
  PROVE  Fits(Asking(c, bg)) /\ Fits(Idle) /\ Fits(InventoryFrom(bg, by))
<1>1. \A d, b : Asking(d, b).at = "asks" /\ Idle.at = "asks"
  BY DEF Asking, Idle
<1>2. CASE by \/ Cold("admin")
  BY <1>1, <1>2 DEF InventoryFrom, Fits
<1>3. CASE ~(by \/ Cold("admin"))
  <2>1. InventoryFrom(bg, by).data = entries["admin"].data
    BY <1>3 DEF InventoryFrom, Asking, Idle
  <2>2. entries["admin"].held
    BY <1>3 DEF Cold
  <2>3. AsNew(entries["admin"].data, floor)
    BY <2>2 DEF FloorInv, VmLists
  <2>4. InventoryFrom(bg, by).at = "read"
    BY <1>3 DEF InventoryFrom, Asking, Idle
  <2>5. Fits(InventoryFrom(bg, by))
    BY <2>1, <2>3, <2>4 DEF Fits
  <2>6. QED
    BY <1>1, <2>5 DEF Fits
<1>4. QED
  BY <1>2, <1>3

\* Every step keeps the answers above the floor, an invalidation if none is outdated.
LEMMA FloorKept ==
  ASSUME TypeOK, FloorInv, [Next]_vars, Invalidate => NoneOutdated
  PROVE  FloorInv'
<1>a. /\ truth \in Nat /\ changed \in Nat /\ floor \in Nat
      /\ \A f \in Fetches : fetch[f] \in Fetch /\ fetch[f].data \in Nat
      /\ \A c \in Caches : entries[c] \in Entry
      /\ VmLists \subseteq Caches
  BY DEF TypeOK, Fetch, VmLists, Caches
\* Steps that leave the versions alone and put only what fits in their places.
<1>b. ASSUME UNCHANGED <<truth, changed, floor>>,
             \A c \in VmLists : entries'[c].held => AsNew(entries'[c].data, floor),
             \A h \in Fetches : Fits(fetch'[h])
      PROVE  FloorInv'
  BY <1>b DEF FloorInv, Fits
<1>c. /\ \A c \in VmLists : entries[c].held => AsNew(entries[c].data, floor)
      /\ \A h \in Fetches : Fits(fetch[h])
  BY DEF FloorInv
<1>1. ASSUME NEW f \in Fetches, Peek(f) \/ GetAdmin(f) \/ Fail(f) PROVE FloorInv'
  <2>1. \A h \in Fetches : h # f => fetch'[h] = fetch[h]
    BY <1>1 DEF Peek, GetAdmin, Fail, TypeOK
  <2>2. fetch'[f] = Idle \/ \E c, bg : fetch'[f] = Asking(c, bg)
    BY <1>1 DEF Peek, GetAdmin, Fail, TypeOK
  <2>3. fetch'[f].at = "asks"
    <3>1. Idle.at = "asks" /\ \A c, bg : Asking(c, bg).at = "asks"
      BY DEF Asking, Idle
    <3>2. QED
      BY <2>2, <3>1
  <2>4. \A h \in Fetches : Fits(fetch'[h])
    BY <1>c, <2>1, <2>3 DEF Fits
  <2>5. QED
    BY <1>1, <1>b, <1>c, <2>4 DEF Peek, GetAdmin, Fail
<1>2. ASSUME NEW f \in Fetches, NEW g \in Fetches, GetInventory(f, g) PROVE FloorInv'
  <2>1. Cold("vms") \in BOOLEAN /\ "admin" \in Caches
    BY DEF Cold, TypeOK, Entry, Caches
  <2>2. Fits(InventoryFrom(~Cold("vms"), FALSE)) /\ Fits(Asking("admin", TRUE))
    BY <2>1, StartsAbove
  <2>3. \A h \in Fetches : Fits(fetch'[h])
    BY <1>2, <1>c, <2>2 DEF GetInventory
  <2>4. QED
    BY <1>2, <1>b, <1>c, <2>3 DEF GetInventory
<1>3. ASSUME NEW f \in Fetches, Refresh(f) PROVE FloorInv'
  <2>1. fetch'[f].at = "asks"
    BY <1>3 DEF Refresh, Bypassed, InventoryFrom, Asking, Idle, TypeOK
  <2>2. \A h \in Fetches : h # f => fetch'[h] = fetch[h]
    BY <1>3 DEF Refresh, TypeOK
  <2>3. \A c \in VmLists : entries'[c].held => entries'[c] = entries[c]
    BY <1>3, <1>a DEF Refresh, Dropped, Empty
  <2>4. \A h \in Fetches : Fits(fetch'[h])
    BY <1>c, <2>1, <2>2 DEF Fits
  <2>5. \A c \in VmLists : entries'[c].held => AsNew(entries'[c].data, floor)
    BY <1>c, <2>3
  <2>6. QED
    BY <1>3, <1>b, <2>4, <2>5 DEF Refresh
<1>4. ASSUME NEW f \in Fetches, Answer(f) PROVE FloorInv'
  <2>1. AsNew(fetch'[f].data, floor)
    BY <1>4, <1>a DEF Answer, Answered, Outcomes, AsNew, Nothing, FloorInv, TypeOK, Fetch
  <2>2. /\ \A h \in Fetches : h # f => fetch'[h] = fetch[h]
        /\ fetch'[f].at = "admin" => fetch'[f].of = "vms"
    BY <1>4, AnyAnswer, AnsweredKeeps
  <2>3. \A h \in Fetches : Fits(fetch'[h])
    BY <1>c, <2>1, <2>2 DEF Fits
  <2>4. QED
    BY <1>4, <1>b, <1>c, <2>3 DEF Answer
\* Next's data cache answers for no VM list.
<1>11. ASSUME NEW f \in Fetches, AnswerFromNext(f) PROVE FloorInv'
  <2>1. fetch[f].of = "prefetch"
    BY <1>11 DEF AnswerFromNext
  <2>2. /\ \A h \in Fetches : h # f => fetch'[h] = fetch[h]
        /\ fetch'[f].of \notin VmLists /\ fetch'[f].at = "read"
    BY <1>11, <2>1, AnyAnswer, AnsweredKeeps DEF VmLists
  <2>3. \A h \in Fetches : Fits(fetch'[h])
    BY <1>c, <2>2 DEF Fits
  <2>4. QED
    BY <1>11, <1>b, <1>c, <2>3 DEF AnswerFromNext
\* Storing an answer.
<1>5. ASSUME NEW f \in Fetches, AdminReady(f) \/ Store(f) PROVE FloorInv'
  <2>1. /\ \A h \in Fetches : h # f => fetch'[h] = fetch[h]
        /\ fetch'[f] = Idle \/ fetch'[f] = [fetch[f] EXCEPT !.at = "read"]
    BY <1>5 DEF AdminReady, Store, TypeOK
  <2>2. Fits(Idle)
    BY DEF Fits, Idle
  <2>3. Fits(fetch'[f])
    <3>1. CASE AdminReady(f)
      BY <3>1, <1>a, <1>c DEF AdminReady, Fits, TypeOK, Fetch
    <3>2. CASE Store(f)
      BY <3>2, <2>2 DEF Store, TypeOK
    <3>3. QED
      BY <1>5, <3>1, <3>2
  <2>4. ASSUME NEW c \in VmLists, entries'[c] # entries[c] PROVE AsNew(entries'[c].data, floor)
    <3>1. CASE AdminReady(f)
      <4>1. AsNew(fetch[f].data, floor)
        BY <3>1, <1>c DEF AdminReady, Fits, VmLists
      <4>2. entries'[c] = Full(fetch[f].data)
        BY <2>4, <3>1 DEF AdminReady, TypeOK
      <4>3. QED
        BY <4>1, <4>2 DEF Full
    <3>2. CASE Store(f)
      <4>1. entries'[c] = Full(fetch[f].data) /\ c = fetch[f].of
        BY <2>4, <3>2, <1>a DEF Store, TypeOK
      <4>2. AsNew(fetch[f].data, floor)
        BY <4>1, <3>2, <1>c DEF Store, Fits
      <4>3. QED
        BY <4>1, <4>2 DEF Full
    <3>3. QED
      BY <1>5, <3>1, <3>2
  <2>5. QED
    BY <1>5, <1>b, <1>c, <2>1, <2>3, <2>4 DEF AdminReady, Store
<1>6. ASSUME NEW c \in Caches, Expire(c) PROVE FloorInv'
  <2>1. \A d \in Caches : entries'[d].held = entries[d].held /\ entries'[d].data = entries[d].data
    BY <1>6, <1>a DEF Expire, TypeOK, Entry
  <2>2. QED
    BY <1>6, <1>a, <1>b, <1>c, <2>1 DEF Expire
<1>7. CASE Mutate \/ ChangeElsewhere
  <2>1. UNCHANGED <<entries, fetch, floor>> /\ truth' = truth + 1
        /\ (changed' = changed \/ changed' = truth')
    BY <1>7 DEF Mutate, ChangeElsewhere
  <2>2. QED
    BY <1>a, <1>c, <2>1 DEF FloorInv, Fits
<1>8. CASE Invalidate
  <2>1. \A c \in VmLists : ~entries'[c].held
    BY <1>8, <1>a DEF Invalidate, Dropped, Empty
  <2>2. floor' = changed /\ changed' = 0 /\ UNCHANGED <<truth, fetch>>
    BY <1>8 DEF Invalidate
  <2>3. \A h \in Fetches : Fits(fetch[h])'
    BY <1>8, <1>c, <2>2 DEF NoneOutdated, Fits
  <2>4. QED
    BY <1>a, <2>1, <2>2, <2>3 DEF FloorInv
<1>9. CASE NextExpires \/ NextRefreshes \/ UNCHANGED vars
  BY <1>9, <1>b, <1>c DEF NextExpires, NextRefreshes, vars
<1>10. QED
  BY <1>1, <1>2, <1>3, <1>4, <1>5, <1>6, <1>7, <1>8, <1>9, <1>11 DEF Next, Read

\* invalidateInProcessLudusCachesAfterMutation: emptying the caches of the VM lists
\* is enough unless a fetch that Ludus answered before the mutation has yet to store
\* its answer.  Old entries, fetches that still wait for Ludus, failures, refreshes
\* and the inventory's use of the cached admin data do no harm.
THEOREM OnlyLateAnswersAreStale ==
  Spec /\ [][Invalidate => NoneOutdated]_vars => []FreshAfterMutation
<1>1. Init => TypeOK /\ FloorInv
  BY InitTyped DEF Init, FloorInv, Fits, VmLists, Caches, Empty, Idle
<1>2. (TypeOK /\ FloorInv) /\ [Next]_vars /\ [Invalidate => NoneOutdated]_vars => (TypeOK /\ FloorInv)'
  <2>1. ASSUME TypeOK, FloorInv, [Next]_vars, [Invalidate => NoneOutdated]_vars
        PROVE  TypeOK' /\ FloorInv'
    <3>1. CASE UNCHANGED vars
      BY <2>1, <3>1, NextTyped DEF vars, FloorInv, Fits
    <3>2. CASE Invalidate => NoneOutdated
      BY <2>1, <3>2, NextTyped, FloorKept
    <3>3. QED
      BY <2>1, <3>1, <3>2
  <2>2. QED
    BY <2>1
<1>3. FloorInv => FreshAfterMutation
  BY DEF FloorInv, FreshAfterMutation, VmLists, AsNew
<1>4. QED
  BY <1>1, <1>2, <1>3, PTL DEF Spec
=============================================================================
