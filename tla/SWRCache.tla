------------------------------ MODULE SWRCache ------------------------------
(***************************************************************************)
(* The in-process caches of Ludus data (server-cache.ts) as one admin's    *)
(* requests use them: "admin" holds the ranges and their VMs               *)
(* (admin-data.ts), "vms" holds the VM inventory that is built from what   *)
(* "admin" returns (admin-range-vms-cache.ts, admin/range-vms/route.ts),   *)
(* and "prefetch" stands for a cache of the page prefetch, which is only   *)
(* peeked at (server-prefetch.ts).  A fetch for "prefetch" asks Next's     *)
(* data cache first ("use cache" in cached-ludus-fetch.ts), the others ask *)
(* Ludus directly.                                                         *)
(*                                                                         *)
(* The data are versions: Ludus is at version truth, and a fetch returns   *)
(* the version that its request to Ludus saw.  ludusRequest returns an     *)
(* error as a value and every fetcher makes empty lists of it, so a failed *)
(* request yields data too: Nothing, which is cached like any other.       *)
(* Between two awaits the server runs alone, so an action is one stretch   *)
(* between awaits.  A read that finds a fresh entry, or a stale one that   *)
(* is being refetched, changes nothing and is no action.                   *)
(***************************************************************************)
EXTENDS Naturals

CONSTANTS
  Fetches,     \* bound: the fetches under way at one time
  MaxChanges,  \* bound: the versions of the data at Ludus
  Groups       \* bound: the sets of caches that are read together; "prefetch"
               \* shares nothing with the others

VARIABLES
  used,      \* the caches that are read
  truth,     \* the version of the data at Ludus
  entries,   \* the entry of each cache; fresh while it is younger than the TTL
  inflight,  \* caches whose revalidation flag is set
  fetch,     \* the fetches under way
  changed,   \* the version a proxied request made and has yet to invalidate for; 0 is none
  floor,     \* the version the last invalidation was for
  layer2     \* the entry of Next's data cache that is behind "prefetch"

vars == <<used, truth, entries, inflight, fetch, changed, floor, layer2>>

\* Data without what Ludus would have said: empty lists, or PocketBase's alone.
Nothing == 0

Caches == {"prefetch", "admin", "vms"}

ASSUME ConstantsAssumption == MaxChanges \in Nat /\ Groups \subseteq SUBSET Caches

Entry  == [held : BOOLEAN, data : Nat, fresh : BOOLEAN]
Empty  == [held |-> FALSE, data |-> 0, fresh |-> FALSE]

\* Mutant of Full: the entry is stored without its time.
FullUndated(v) == [held |-> TRUE, data |-> v]

Full(v) == [held |-> TRUE, data |-> v, fresh |-> TRUE]

\* "asks": waits for Ludus; "admin": Ludus answered the getAdminData inside a
\* fetch of the inventory; "read": has its data.  since is, for a refresh, the
\* version of Ludus when it was asked for.
Fetch == [of : Caches \cup {"none"}, background : BOOLEAN, refresh : BOOLEAN,
          at : {"asks", "admin", "read"}, data : Nat, since : Nat]
Idle  == [of |-> "none", background |-> FALSE, refresh |-> FALSE, at |-> "asks",
          data |-> 0, since |-> 0]
Asking(c, bg) == [Idle EXCEPT !.of = c, !.background = bg]

\* "asked": a read has found it stale, and Next is refreshing it.
Layer2 == [state : {"none", "fresh", "stale", "asked"}, data : Nat]

Init ==
  /\ used \in Groups
  /\ truth = 1
  /\ entries = [c \in Caches |-> Empty]
  /\ inflight = {}
  /\ fetch = [f \in Fetches |-> Idle]
  /\ changed = 0
  /\ floor = 0
  /\ layer2 = [state |-> "none", data |-> Nothing]

-----------------------------------------------------------------------------
(* Reads.                                                                  *)

Free(f) == fetch[f].of = "none"

Cold(c)  == ~entries[c].held
Stale(c) == entries[c].held /\ ~entries[c].fresh

\* Mutant of Unflagged: every reader of a stale entry revalidates it.
UnflaggedAlways(c) == TRUE

\* The early return of revalidate.
Unflagged(c) == c \notin inflight

\* Mutant of Due: the test of the flag is inverted.
DueInverted(c) == Stale(c) /\ ~Unflagged(c)

\* A read revalidates the entry.
Due(c) == Stale(c) /\ Unflagged(c)

\* peek, which starts a background fetch for a missing entry too.
Peek(f) ==
  /\ Free(f)
  /\ Cold("prefetch") \/ Stale("prefetch")
  /\ Unflagged("prefetch")
  /\ inflight' = inflight \cup {"prefetch"}
  /\ fetch' = [fetch EXCEPT ![f] = Asking("prefetch", TRUE)]
  /\ UNCHANGED <<used, truth, entries, changed, floor, layer2>>

\* get of the admin data: a cold read fetches for itself and sets no flag.
GetAdmin(f) ==
  /\ Free(f)
  /\ Due("admin") \/ Cold("admin")
  /\ inflight' = IF Cold("admin") THEN inflight ELSE inflight \cup {"admin"}
  /\ fetch' = [fetch EXCEPT ![f] = Asking("admin", ~Cold("admin"))]
  /\ UNCHANGED <<used, truth, entries, changed, floor, layer2>>

\* The fetcher of the inventory takes the admin data from their cache, stale or
\* not, and reads the range configurations next; without an entry it waits for
\* Ludus itself.
InventoryFrom(bg, bypass) ==
  IF bypass \/ Cold("admin") THEN Asking("vms", bg)
  ELSE [Asking("vms", bg) EXCEPT !.at = "read", !.data = entries["admin"].data]

\* get of the inventory.  In slot g the admin data are refetched if they are due.
GetInventory(f, g) ==
  /\ Free(f)
  /\ Due("admin") => Free(g) /\ f # g
  /\ Due("vms") \/ Cold("vms")
  /\ inflight' = inflight \cup (IF Cold("vms") THEN {} ELSE {"vms"})
                          \cup (IF Due("admin") THEN {"admin"} ELSE {})
  /\ fetch' = [h \in Fetches |->
        CASE h = f -> InventoryFrom(~Cold("vms"), FALSE)
          [] h # f /\ h = g /\ Due("admin") -> Asking("admin", TRUE)
          [] OTHER -> fetch[h]]
  /\ UNCHANGED <<used, truth, entries, changed, floor, layer2>>

\* Mutant of Bypassed: the inventory is refreshed from the cached admin data.
BypassedOne == {"vms"}

\* The caches a request with refresh=1 empties before it reads.
Bypassed == {"admin", "vms"}

Dropped(S) == [c \in Caches |-> IF c \in S THEN Empty ELSE entries[c]]

\* GET range-vms?refresh=1: bustRangeVmsCache, and getAdminData with bypassCache.
Refresh(f) ==
  /\ "vms" \in used /\ Free(f)
  /\ entries' = Dropped(Bypassed)
  /\ fetch' = [fetch EXCEPT ![f] =
        [InventoryFrom(FALSE, "admin" \in Bypassed) EXCEPT !.refresh = TRUE, !.since = truth]]
  /\ UNCHANGED <<used, truth, inflight, changed, floor, layer2>>

-----------------------------------------------------------------------------
(* The rest of a fetch.                                                    *)

\* What a request to Ludus may yield.
Outcomes == {truth, Nothing}

Answered(f, v) ==
  [fetch EXCEPT ![f].data = v, ![f].at = IF fetch[f].of = "vms" THEN "admin" ELSE "read"]

\* Ludus answers, well or not.
Answer(f) ==
  /\ ~Free(f) /\ fetch[f].at = "asks"
  /\ fetch[f].of = "prefetch" => layer2.state = "none"
  /\ \E v \in Outcomes :
       /\ fetch' = Answered(f, v)
       /\ layer2' = IF fetch[f].of = "prefetch" THEN [state |-> "fresh", data |-> v] ELSE layer2
  /\ UNCHANGED <<used, truth, entries, inflight, changed, floor>>

\* Next's data cache answers, with stale data too, which it then refreshes.
AnswerFromNext(f) ==
  /\ fetch[f].of = "prefetch" /\ fetch[f].at = "asks"
  /\ layer2.state # "none"
  /\ fetch' = Answered(f, layer2.data)
  /\ layer2' = IF layer2.state = "stale" THEN [layer2 EXCEPT !.state = "asked"] ELSE layer2
  /\ UNCHANGED <<used, truth, entries, inflight, changed, floor>>

\* The cold read of the admin data inside a fetch of the inventory is over.
AdminReady(f) ==
  /\ ~Free(f) /\ fetch[f].at = "admin"
  /\ entries' = [entries EXCEPT !["admin"] = Full(fetch[f].data)]
  /\ inflight' = inflight \ {"admin"}
  /\ fetch' = [fetch EXCEPT ![f].at = "read"]
  /\ UNCHANGED <<used, truth, changed, floor, layer2>>

Store(f) ==
  /\ ~Free(f) /\ fetch[f].at = "read"
  /\ entries' = [entries EXCEPT ![fetch[f].of] = Full(fetch[f].data)]
  /\ inflight' = inflight \ {fetch[f].of}
  /\ fetch' = [fetch EXCEPT ![f] = Idle]
  /\ UNCHANGED <<used, truth, changed, floor, layer2>>

\* Mutant of AfterFailure: no finally, the flag of a failed fetch stays.
AfterFailureFlagged(f) == inflight

\* finally: a failed background fetch clears its flag, a cold read does not.
AfterFailure(f) == IF fetch[f].background THEN inflight \ {fetch[f].of} ELSE inflight

\* The fetcher rejects: resolveOwnership cannot read its table, or the like.
Fail(f) ==
  /\ ~Free(f) /\ fetch[f].at = "asks"
  /\ inflight' = AfterFailure(f)
  /\ fetch' = [fetch EXCEPT ![f] = Idle]
  /\ UNCHANGED <<used, truth, entries, changed, floor, layer2>>

-----------------------------------------------------------------------------
(* Time and changes.                                                       *)

\* The entry reaches its TTL.
Expire(c) ==
  /\ entries[c].fresh
  /\ entries' = [entries EXCEPT ![c].fresh = FALSE]
  /\ UNCHANGED <<used, truth, inflight, fetch, changed, floor, layer2>>

\* cacheLife and the refresh behind a stale answer; a revalidated tag makes the
\* entry stale, it does not drop it.
NextExpires ==
  /\ layer2.state = "fresh"
  /\ layer2' = [layer2 EXCEPT !.state = "stale"]
  /\ UNCHANGED <<used, truth, entries, inflight, fetch, changed, floor>>

NextRefreshes ==
  /\ layer2.state = "asked"
  /\ \E v \in Outcomes : layer2' = [state |-> "fresh", data |-> v]
  /\ UNCHANGED <<used, truth, entries, inflight, fetch, changed, floor>>

Revalidated(l) == IF l.state = "none" THEN l ELSE [l EXCEPT !.state = "stale"]

\* A request of the admin changes the data through the proxy.
Mutate ==
  /\ truth < MaxChanges /\ changed = 0
  /\ truth' = truth + 1
  /\ changed' = truth + 1
  /\ UNCHANGED <<used, entries, inflight, fetch, floor, layer2>>

\* invalidateInProcessLudusCachesAfterMutation, when the proxy has the answer.
Invalidate ==
  /\ changed # 0
  /\ entries' = Dropped(Caches)
  /\ floor' = changed
  /\ changed' = 0
  /\ layer2' = Revalidated(layer2)
  /\ UNCHANGED <<used, truth, inflight, fetch>>

\* The data change without LUX, or by a request whose answer is an error.
ChangeElsewhere ==
  /\ truth < MaxChanges
  /\ truth' = truth + 1
  /\ UNCHANGED <<used, entries, inflight, fetch, changed, floor, layer2>>

Read(c) ==
  /\ c \in used
  /\ \E f \in Fetches :
       \/ c = "prefetch" /\ Peek(f)
       \/ c = "admin" /\ GetAdmin(f)
       \/ c = "vms" /\ \E g \in Fetches : GetInventory(f, g)

Next ==
  \/ \E c \in Caches : Read(c) \/ Expire(c)
  \/ \E f \in Fetches :
       Refresh(f) \/ Answer(f) \/ AnswerFromNext(f) \/ AdminReady(f) \/ Store(f) \/ Fail(f)
  \/ NextExpires \/ NextRefreshes
  \/ Mutate \/ Invalidate \/ ChangeElsewhere

Spec == Init /\ [][Next]_vars

AnswerFor(c) == \E f \in Fetches : fetch[f].of = c /\ (Answer(f) \/ AnswerFromNext(f))

\* A request to Ludus yields nothing.
LudusFails ==
  \/ NextRefreshes /\ layer2'.data = Nothing
  \/ \E f \in Fetches : Answer(f) /\ fetch'[f].data = Nothing

\* Pages go on being read, entries age, every request ends, fetchers do not reject
\* for ever, and Ludus fails finitely often.  The reads are strongly fair because
\* Fetches bounds the model, not the code: there a read is never refused.
FairSpec ==
  /\ Spec
  /\ \A c \in Caches : SF_vars(Read(c)) /\ WF_vars(Expire(c)) /\ SF_vars(AnswerFor(c))
  /\ \A f \in Fetches : WF_vars(Answer(f) \/ AnswerFromNext(f) \/ Fail(f) \/ AdminReady(f) \/ Store(f))
  /\ WF_vars(NextExpires) /\ WF_vars(NextRefreshes)
  /\ <>[][~LudusFails]_vars

-----------------------------------------------------------------------------
(* Properties.                                                             *)

\* Every variable has the type its comment gives.
TypeOK ==
  /\ used \in SUBSET Caches
  /\ truth \in Nat /\ changed \in Nat /\ floor \in Nat
  /\ entries \in [Caches -> Entry]
  /\ inflight \in SUBSET Caches
  /\ fetch \in [Fetches -> Fetch]
  /\ layer2 \in Layer2

\* The flag of a cache is only set while one of its background fetches is under
\* way: a flag left behind would stop every later revalidation, and the entry
\* would be served for ever.
FlagHasFetch ==
  \A c \in inflight : \E f \in Fetches : fetch[f].of = c /\ fetch[f].background

\* A cache that is only peeked at has at most one fetch under way, however many
\* pages are opened while it is cold or stale.
OneRevalidation ==
  \A f, g \in Fetches : fetch[f].of = "prefetch" /\ fetch[g].of = "prefetch" => f = g

\* A request that asked for a refresh is answered with data no older than the
\* request, through both layers of caches, or with nothing when Ludus failed.
RefreshIsFresh ==
  \A f \in Fetches : fetch[f].refresh /\ fetch[f].at # "asks"
                        => fetch[f].data = Nothing \/ fetch[f].data >= fetch[f].since

\* Once Ludus has failed for the last time each cache comes to hold what Ludus has,
\* whatever it kept of the failures and whichever fetches reject or are overwritten
\* by older ones: the inventory through the admin data below it, the prefetch
\* through Next's data cache.
Converges ==
  \A c \in Caches : []<>(c \in used => entries[c].held /\ entries[c].data = truth)

\* "Drop in-process SWRCache entries after Ludus mutations so the next navigation
\* or admin API call does not serve a stale VM list" (ludus-swr-invalidate.ts:8):
\* after the invalidation neither VM list is from before the mutation.
FreshAfterMutation ==
  \A c \in {"admin", "vms"} :
    entries[c].held /\ entries[c].data # Nothing => entries[c].data >= floor
=============================================================================
