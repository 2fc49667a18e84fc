----------------------------- MODULE ProxyCount -----------------------------
(***************************************************************************)
(* The process-wide proxy counters (rsbinder/src/proxy_count.rs): the       *)
(* global count, the opt-in count per user (one user here: entries never    *)
(* interact) with its debounced watermark events, and the guard that keeps   *)
(* an event callback from running while the creating thread still holds the  *)
(* proxy cache.  A callback may itself look up a service and so create a     *)
(* proxy on the thread that runs it.                                         *)
(***************************************************************************)
EXTENDS Integers, FiniteSets, Sequences

CONSTANTS CountThreads, MaxProxies,
          CountHigh, CountLow, CountWarning, \* the watermarks
          MaxToggles                         \* bound: changes of the settings

ASSUME CountAssumption ==
    /\ "free" \notin CountThreads
    /\ CountHigh \in Nat /\ CountLow \in Nat /\ CountWarning \in Nat /\ MaxToggles \in Nat

VARIABLES proxyCount,  \* PROXY_COUNT
          byUid,       \* COUNT_BY_UID_ENABLED
          hook,        \* is an event callback installed?
          uidEntry,    \* per_uid[uid]: count, warning_fired, limit_fired
          tracked,     \* how many live proxies have counted_by_uid, and how many not
          creator,     \* where each thread stands in get-or-create
          cacheLock,   \* the thread that holds handle_to_proxy, or "free"
          pending,     \* PENDING_CALLBACKS per thread
          heldAtFire,  \* history: a callback ran on a thread that held the cache lock
          wasLow,      \* history: the count was at or below low since the last event
          wiped,       \* history: clear_count_by_uid forgot live proxies
          togglesLeft
countVars == <<proxyCount, byUid, hook, uidEntry, tracked, creator, cacheLock, pending,
               heldAtFire, wasLow, wiped, togglesLeft>>

ProxyKinds == {"counted", "plain"}

NoUidEntry == [count |-> 0, warning |-> FALSE, limit |-> FALSE]

CountInit ==
    /\ proxyCount = 0 /\ byUid = FALSE /\ hook = TRUE
    /\ uidEntry = NoUidEntry
    /\ tracked = [kind \in ProxyKinds |-> 0]
    /\ creator = [t \in CountThreads |-> "idle"]
    /\ cacheLock = "free"
    /\ pending = [t \in CountThreads |-> <<>>]
    /\ heldAtFire = FALSE
    /\ wasLow = [event \in {"warning", "limit"} |-> TRUE]
    /\ wiped = FALSE
    /\ togglesLeft = MaxToggles

Proceeds(t, from, to) == creator[t] = from /\ creator' = [creator EXCEPT ![t] = to]

-----------------------------------------------------------------------------
(* slow_path_p3 around new_acquired: the guard, then the lock, then the proxy *)

EnterCreate(t) ==
    /\ proxyCount < MaxProxies
    /\ cacheLock = "free"
    /\ Proceeds(t, "idle", "create")
    /\ cacheLock' = t
    /\ UNCHANGED <<proxyCount, byUid, hook, uidEntry, tracked, pending, heldAtFire, wasLow, wiped, togglesLeft>>

\* on_proxy_create up to the flag, which is read once.
BumpGlobal(t) ==
    /\ Proceeds(t, "create", IF byUid THEN "count" ELSE "built")
    /\ proxyCount' = proxyCount + 1
    /\ tracked' = IF byUid THEN tracked ELSE [tracked EXCEPT !["plain"] = @ + 1]
    /\ UNCHANGED <<byUid, hook, uidEntry, cacheLock, pending, heldAtFire, wasLow, wiped, togglesLeft>>

\* The event the incremented entry raises.
EventOf(e) ==
    IF ~e.limit /\ e.count >= CountHigh THEN {"limit"}
    ELSE IF ~e.warning /\ e.count >= CountWarning /\ e.count < CountHigh THEN {"warning"}
    ELSE {}

\* Fault model: the callback runs at once although the guard is armed.
DeliverNow(t, events) ==
    /\ heldAtFire' = (heldAtFire \/ (events # {} /\ cacheLock = t))
    /\ UNCHANGED pending

\* The guard is armed on this thread: the event is kept for its drop.
Defer(t, events) ==
    /\ pending' = [pending EXCEPT ![t] = @ \o IF events = {} THEN <<>> ELSE <<CHOOSE e \in events : TRUE>>]
    /\ UNCHANGED heldAtFire

BumpUid(t) ==
    /\ Proceeds(t, "count", "built")
    /\ LET e == [uidEntry EXCEPT !.count = @ + 1]
           raised == EventOf(e)
       IN /\ uidEntry' = [e EXCEPT !.warning = @ \/ "warning" \in raised, !.limit = @ \/ "limit" \in raised]
          /\ Defer(t, IF hook THEN raised ELSE {})
          /\ wasLow' = [event \in DOMAIN wasLow |-> wasLow[event] /\ event \notin raised]
    /\ tracked' = [tracked EXCEPT !["counted"] = @ + 1]
    /\ UNCHANGED <<proxyCount, byUid, hook, cacheLock, wiped, togglesLeft>>

\* The lock is released before the guard drops; the guard fires what it kept.
Unlock(t) ==
    /\ Proceeds(t, "built", "unlocked")
    /\ cacheLock' = "free"
    /\ UNCHANGED <<proxyCount, byUid, hook, uidEntry, tracked, pending, heldAtFire, wasLow, wiped, togglesLeft>>

\* PENDING_CALLBACKS is taken whole; a callback that creates a proxy starts
\* over at EnterCreate with a guard of its own.
GuardDrops(t) ==
    /\ Proceeds(t, "unlocked", "idle")
    /\ pending' = [pending EXCEPT ![t] = <<>>]
    /\ heldAtFire' = (heldAtFire \/ (pending[t] # <<>> /\ cacheLock = t))
    /\ UNCHANGED <<proxyCount, byUid, hook, uidEntry, tracked, cacheLock, wasLow, wiped, togglesLeft>>

-----------------------------------------------------------------------------
(* on_proxy_drop *)

\* Fault model: the flag is read again instead of the proxy's own record.
CountedProxyNow(kind) == byUid

CountedProxy(kind) == kind = "counted"

\* Fault model: the warning is re-armed as soon as the count is below warning.
RearmEach(e) ==
    [e EXCEPT !.warning = @ /\ e.count >= CountWarning, !.limit = @ /\ e.count >= CountLow]

\* Both debounce flags are cleared together at low.
Rearm(e) ==
    IF e.count <= CountLow THEN [e EXCEPT !.warning = FALSE, !.limit = FALSE] ELSE e

\* saturating_sub, the reset, and the removal of an empty entry.
Lower(e) == IF e.count <= 1 THEN NoUidEntry ELSE Rearm([e EXCEPT !.count = @ - 1])

ForgetProxy(kind) ==
    /\ tracked[kind] > 0
    /\ tracked' = [tracked EXCEPT ![kind] = @ - 1]
    /\ proxyCount' = proxyCount - 1
    /\ uidEntry' = IF CountedProxy(kind) THEN Lower(uidEntry) ELSE uidEntry
    /\ wasLow' = [event \in DOMAIN wasLow |-> wasLow[event] \/ uidEntry'.count <= CountLow]
    /\ UNCHANGED <<byUid, hook, creator, cacheLock, pending, heldAtFire, wiped, togglesLeft>>

-----------------------------------------------------------------------------
(* The settings *)

Toggle == togglesLeft > 0 /\ togglesLeft' = togglesLeft - 1

EnableCountByUid ==
    /\ Toggle
    /\ byUid' = ~byUid
    /\ UNCHANGED <<proxyCount, hook, uidEntry, tracked, creator, cacheLock, pending, heldAtFire, wasLow, wiped>>

SetEventCallback ==
    /\ Toggle
    /\ hook' = ~hook
    /\ UNCHANGED <<proxyCount, byUid, uidEntry, tracked, creator, cacheLock, pending, heldAtFire, wasLow, wiped>>

ClearCountByUid ==
    /\ Toggle
    /\ uidEntry' = NoUidEntry
    /\ wiped' = TRUE
    /\ wasLow' = [event \in DOMAIN wasLow |-> TRUE]
    /\ UNCHANGED <<proxyCount, byUid, hook, tracked, creator, cacheLock, pending, heldAtFire>>

CountNext ==
    \/ \E t \in CountThreads :
         EnterCreate(t) \/ BumpGlobal(t) \/ BumpUid(t) \/ Unlock(t) \/ GuardDrops(t)
    \/ \E kind \in ProxyKinds : ForgetProxy(kind)
    \/ EnableCountByUid \/ SetEventCallback \/ ClearCountByUid

CountSpec == CountInit /\ [][CountNext]_countVars

-----------------------------------------------------------------------------
(* Properties *)

\* A proxy decrements the per-user entry exactly when its creation incremented
\* it, however often tracking is switched on and off while it lives: the entry
\* equals the number of tracked proxies (get_binder_proxy_count_for_uid), and
\* after clear_count_by_uid it never exceeds it or wraps.
UidCountExact ==
    /\ uidEntry.count \in 0..tracked["counted"]
    /\ ~wiped => uidEntry.count = tracked["counted"]

\* Neither event is raised twice unless the count came down to low in between:
\* an oscillation between low and warning, or around high, stays silent
\* (on_proxy_drop clears both debounce flags together).
EventsDebounced ==
    [][\A event \in {"warning", "limit"} :
         uidEntry'[event] /\ ~uidEntry[event] => wasLow[event]]_countVars

\* No event callback runs on a thread that still holds the proxy cache lock,
\* so a callback that looks up a service cannot wait for its own thread.
CallbackOutsideLock == ~heldAtFire

\* Proxies are counted once each and their events raised once per excursion,
\* outside the cache lock (on_proxy_create and on_proxy_drop).
CountingSafe == [](UidCountExact /\ CallbackOutsideLock) /\ EventsDebounced
=============================================================================
