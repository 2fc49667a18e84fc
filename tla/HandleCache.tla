---------------------------- MODULE HandleCache ----------------------------
(***************************************************************************)
(* The process-wide cache of kernel proxies (process_state.rs) and the     *)
(* proxies it hands out (proxy.rs), for one binder handle.                 *)
(*                                                                         *)
(* A lookup is started by a wire delivery of the handle, whose buffer      *)
(* holds a kernel strong reference until it is freed.  It runs in three    *)
(* phases with the cache lock released in between, and races with other    *)
(* lookups and with the obituary of a dead node.  Entries own one kernel   *)
(* weak reference (the pin), every live ProxyHandle owns one kernel strong *)
(* reference.  The driver's side of the handle is the record `slot'.       *)
(*                                                                         *)
(* Handles do not interact in the cache, so one is modelled; its slot      *)
(* number `node' tells apart the binder nodes it names over time.          *)
(***************************************************************************)
EXTENDS Naturals, Sequences, FiniteSets, SequencesExt

CONSTANTS
    CacheThreads,   \* threads of this process
    Loopers,        \* the ones in the thread pool: their commands are deferred
    MaxDeliveries,  \* bound: deliveries of the handle, each starts a lookup
    MaxLinks,       \* bound: link_to_death calls in a behaviour
    CacheFaults,    \* bound: BINDER_WRITE_READ ioctls that fail
    Reregisters     \* whether a death notification is asked for again after
                    \* it was cleared

VARIABLES
    slot,      \* the driver's binder_ref of the handle (external)
    outq,      \* out_parcel of every thread: commands not yet sent
    entry,     \* handle_to_proxy[handle]
    nextGen,   \* next_generation
    proxies,   \* every ProxyHandle allocated so far, by number
    task,      \* where every thread is
    orphans,   \* references a failed ioctl left for nobody to release
    budget     \* what is left of the bounds on inputs

cacheVars == <<slot, outq, entry, nextGen, proxies, task, orphans, budget>>

B2N(b) == IF b THEN 1 ELSE 0

NoEntry == [proxy |-> 0, gen |-> 0, node |-> 0]
IdleTask == [at |-> "idle", plan |-> "none", gen |-> 0, arc |-> 0, who |-> 0,
         snap |-> 0]
NoSlot(n) == [node |-> n, strong |-> 0, weak |-> 0, dead |-> FALSE,
              death |-> "none", asked |-> FALSE]

----------------------------------------------------------------------------
(* The driver, as the code uses it.  A slot without references is freed    *)
(* and the handle may name another node afterwards; commands on a freed    *)
(* slot are refused.                                                       *)

Referenced(s) == s.strong + s.weak > 0

\* A command of the out parcel applied to the slot.
DriverDoes(s, c) ==
    LET n == CASE ~Referenced(s)  -> s
               [] c = "INCREFS"   -> [s EXCEPT !.weak = @ + 1]
               [] c = "ACQUIRE"   -> [s EXCEPT !.strong = @ + 1]
               [] c = "DECREFS"   -> [s EXCEPT !.weak = IF @ = 0 THEN 0 ELSE @ - 1]
               [] c \in {"RELEASE", "FREE"}
                                  -> [s EXCEPT !.strong = IF @ = 0 THEN 0 ELSE @ - 1]
               [] c = "REQUEST" /\ s.death = "none"
                                  -> [s EXCEPT !.asked = TRUE,
                                                !.death = IF s.dead THEN "queued" ELSE "set"]
               [] c = "CLEAR"     -> [s EXCEPT !.death = "none"]
               [] c = "DONE" /\ s.death = "delivered"
                                  -> [s EXCEPT !.death = "done"]
               [] OTHER           -> s
    IN  IF Referenced(s) /\ ~Referenced(n) THEN NoSlot(s.node + 1) ELSE n

\* talk_with_driver: the whole out parcel of the thread reaches the driver.
FlushCmds(t, cmds) ==
    /\ slot' = FoldLeft(DriverDoes, slot, outq[t] \o cmds)
    /\ outq' = [outq EXCEPT ![t] = <<>>]

\* Commands stay in the out parcel.
QueueCmds(t, cmds) ==
    /\ outq' = [outq EXCEPT ![t] = @ \o cmds]
    /\ UNCHANGED slot

\* Some commands are flushed, then others written.
FlushThenQueue(t, first, rest) ==
    IF first = <<>> THEN QueueCmds(t, rest)
    ELSE /\ slot' = FoldLeft(DriverDoes, slot, outq[t] \o first)
         /\ outq' = [outq EXCEPT ![t] = rest]

\* inc/dec_strong_handle, inc/dec_weak_handle, free_buffer: write the
\* command, then flush unless the thread is a looper.
FlushIfNeeded(t, cmds) ==
    IF t \in Loopers THEN QueueCmds(t, cmds) ELSE FlushCmds(t, cmds)

----------------------------------------------------------------------------
(* Proxies.                                                                *)

\* Strong references to a ProxyHandle: the users' and the one an obituary
\* took from the cache entry.
Arcs(p) == proxies[p].held + Cardinality({t \in CacheThreads : task[t].arc = p})

\* The entry's `weak' upgrades.
EntryLive == entry.proxy # 0 /\ Arcs(entry.proxy) > 0

\* ProxyHandle::new_acquired, after BC_ACQUIRE.
NewProxy == [node |-> slot.node, held |-> 1, sent |-> FALSE, recips |-> 0,
             linked |-> 0, unlinked |-> 0, fired |-> 0, gone |-> 0]

\* Dropping one strong reference; the last one is ProxyHandle::drop, which
\* takes the recipients with it.
DropHeld(p) ==
    IF Arcs(p) = 1
    THEN [proxies EXCEPT ![p] = [@ EXCEPT !.held = @ - 1, !.recips = 0,
                                          !.gone = @ + proxies[p].recips]]
    ELSE [proxies EXCEPT ![p].held = @ - 1]
LastDropEager(p) == <<"RELEASE">>
LastDrop(p) == IF Arcs(p) = 1 THEN <<"RELEASE">> ELSE <<>>

Become(t, r) == task' = [task EXCEPT ![t] = r]

\* The lookup is over; its buffer is still to be freed.
Returns(t) == Become(t, [IdleTask EXCEPT !.at = "free"])

----------------------------------------------------------------------------
(* strong_proxy_for_handle_stability                                       *)

\* The pin of case (a), and undo_case_a_pin.
NoPin == <<>>
CasePin == <<"INCREFS">>
ForgetPin(owned) == <<>>
UndoCasePin(owned) == IF owned THEN <<"DECREFS">> ELSE <<>>

\* A transaction or reply carries the handle to thread t.
Deliver(t) ==
    /\ task[t].at = "idle" /\ budget.deliveries > 0
    /\ slot' = [slot EXCEPT !.strong = @ + 1]
    /\ Become(t, [IdleTask EXCEPT !.at = "fast"])
    /\ budget' = [budget EXCEPT !.deliveries = @ - 1]
    /\ UNCHANGED <<outq, entry, nextGen, proxies, orphans>>

\* A live entry is cloned (fast path, and sub-case (c) of P1 and P3).
CloneEntry(t) ==
    /\ EntryLive
    /\ proxies' = [proxies EXCEPT ![entry.proxy].held = @ + 1]
    /\ Returns(t)

FastPath(t) ==
    /\ task[t].at = "fast"
    /\ \/ CloneEntry(t)
       \/ /\ ~EntryLive
          /\ Become(t, [task[t] EXCEPT !.at = "p1"])
          /\ UNCHANGED proxies
    /\ UNCHANGED <<slot, outq, entry, nextGen, orphans, budget>>

\* Under the write lock: a live entry, a dangling entry (b) or none (a),
\* where the pin is taken and flushed.  A failed flush leaves BC_INCREFS in
\* the out parcel.
SlowPathP1(t) ==
    /\ task[t].at = "p1"
    /\ UNCHANGED <<entry, nextGen>>
    /\ \/ /\ CloneEntry(t)
          /\ UNCHANGED <<slot, outq, orphans, budget>>
       \/ /\ ~EntryLive /\ entry # NoEntry
          /\ Become(t, [task[t] EXCEPT !.at = "p2", !.plan = "B", !.gen = entry.gen])
          /\ UNCHANGED <<slot, outq, proxies, orphans, budget>>
       \/ /\ entry = NoEntry
          /\ FlushCmds(t, CasePin)
          /\ Become(t, [task[t] EXCEPT !.at = "p2", !.plan = "A"])
          /\ UNCHANGED <<proxies, orphans, budget>>
       \/ /\ entry = NoEntry /\ budget.faults > 0
          /\ QueueCmds(t, CasePin)
          /\ Returns(t)
          /\ orphans' = [orphans EXCEPT !.weak = @ + 1]
          /\ budget' = [budget EXCEPT !.faults = @ - 1]
          /\ UNCHANGED proxies

\* Lock released: ping (handle 0) and the descriptor query of case (a).
\* Either sends what the thread had queued, and may fail; case (a) then
\* gives its pin back.
SlowPathP2(t) ==
    /\ task[t].at = "p2"
    /\ UNCHANGED <<entry, nextGen, proxies, orphans, budget>>
    /\ \/ /\ task[t].plan = "A" /\ slot.dead = FALSE
          /\ FlushCmds(t, <<>>)
          /\ Become(t, [task[t] EXCEPT !.at = "p3"])
       \/ /\ task[t].plan = "B"
          /\ Become(t, [task[t] EXCEPT !.at = "p3"])
          /\ UNCHANGED <<slot, outq>>
       \/ /\ FlushCmds(t, UndoCasePin(task[t].plan = "A"))
          /\ Returns(t)

\* The entry that replaces what the cache had.
Install(gen) == [proxy |-> Len(proxies) + 1, gen |-> gen, node |-> slot.node]

\* commit_new_acquired: BC_ACQUIRE, then insert; `undo' is the spare pin of
\* a case (a) that met another entry, `owns' whether a failure gives the
\* pin back.
CommitNewAcquired(t, undo, owns, gen) ==
    \/ /\ IF t \in Loopers THEN FlushThenQueue(t, UndoCasePin(undo), <<"ACQUIRE">>)
                         ELSE FlushCmds(t, UndoCasePin(undo) \o <<"ACQUIRE">>)
       /\ proxies' = Append(proxies, NewProxy)
       /\ entry' = Install(gen)
       /\ UNCHANGED <<orphans, budget>>
    \/ /\ budget.faults > 0 /\ t \notin Loopers
       /\ IF owns THEN FlushCmds(t, <<"ACQUIRE">> \o UndoCasePin(TRUE))
                  ELSE FlushThenQueue(t, UndoCasePin(undo), <<"ACQUIRE">>)
       /\ orphans' = [orphans EXCEPT !.strong = @ + 1]
       /\ budget' = [budget EXCEPT !.faults = @ - 1]
       /\ UNCHANGED <<proxies, entry>>

\* Under the write lock again: the race table of slow_path_p3.
SlowPathP3(t) ==
    LET k == task[t] IN
    /\ k.at = "p3"
    /\ \/ /\ CloneEntry(t)
          /\ IF k.plan = "A" THEN FlushCmds(t, UndoCasePin(TRUE)) ELSE UNCHANGED <<slot, outq>>
          /\ UNCHANGED <<entry, nextGen, orphans, budget>>
       \/ /\ ~EntryLive
          /\ Returns(t)
          /\ \/ /\ k.plan = "A" /\ entry = NoEntry
                /\ nextGen' = nextGen + 1
                /\ CommitNewAcquired(t, FALSE, TRUE, nextGen)
             \/ /\ k.plan = "A" /\ entry # NoEntry
                /\ CommitNewAcquired(t, TRUE, FALSE, entry.gen)
                /\ UNCHANGED nextGen
             \/ /\ k.plan = "B" /\ entry # NoEntry
                /\ CommitNewAcquired(t, FALSE, FALSE, entry.gen)
                /\ UNCHANGED nextGen
             \/ /\ k.plan = "B" /\ entry = NoEntry
                /\ UNCHANGED <<slot, outq, entry, nextGen, proxies, orphans, budget>>

\* The parcel that carried the handle is dropped.
FreeBuffer(t) ==
    /\ task[t].at = "free"
    /\ FlushIfNeeded(t, <<"FREE">>)
    /\ Become(t, IdleTask)
    /\ UNCHANGED <<entry, nextGen, proxies, orphans, budget>>

\* A looper goes back to the driver.
TalkWithDriver(t) ==
    /\ task[t].at = "idle" /\ outq[t] # <<>>
    /\ FlushCmds(t, <<>>)
    /\ UNCHANGED <<entry, nextGen, proxies, task, orphans, budget>>

----------------------------------------------------------------------------
(* What users do with a proxy they hold.                                   *)

DropProxy(t, p) ==
    /\ task[t].at = "idle" /\ proxies[p].held > 0
    /\ proxies' = DropHeld(p)
    /\ FlushIfNeeded(t, LastDrop(p))
    /\ UNCHANGED <<entry, nextGen, task, orphans, budget>>

\* obituary_sent, read under the recipients lock.
MayLinkAlways(p) == TRUE
MayLink(p) == ~proxies[p].sent

\* link_to_death: only the first recipient asks the driver.
LinkToDeath(t, p) ==
    /\ task[t].at = "idle" /\ proxies[p].held > 0 /\ budget.links > 0
    /\ Reregisters \/ proxies[p].recips > 0 \/ slot.death # "none" \/ ~slot.asked
    /\ MayLink(p)
    /\ IF proxies[p].recips = 0 THEN FlushCmds(t, <<"REQUEST">>)
                                ELSE UNCHANGED <<slot, outq>>
    /\ proxies' = [proxies EXCEPT ![p].recips = @ + 1, ![p].linked = @ + 1]
    /\ budget' = [budget EXCEPT !.links = @ - 1]
    /\ UNCHANGED <<entry, nextGen, task, orphans>>

UnlinkToDeath(t, p) ==
    /\ task[t].at = "idle" /\ proxies[p].held > 0
    /\ ~proxies[p].sent /\ proxies[p].recips > 0
    /\ IF proxies[p].recips = 1 THEN FlushCmds(t, <<"CLEAR">>)
                                ELSE UNCHANGED <<slot, outq>>
    /\ proxies' = [proxies EXCEPT ![p].recips = @ - 1, ![p].unlinked = @ + 1]
    /\ UNCHANGED <<entry, nextGen, task, orphans, budget>>

----------------------------------------------------------------------------
(* Obituaries: BR_DEAD_BINDER                                              *)

\* The process that hosts the node dies.
NodeDies ==
    /\ Referenced(slot) /\ ~slot.dead
    /\ slot' = [slot EXCEPT !.dead = TRUE,
                            !.death = IF @ = "set" THEN "queued" ELSE @]
    /\ UNCHANGED <<outq, entry, nextGen, proxies, task, orphans, budget>>

\* The driver hands BR_DEAD_BINDER to a thread.
DeadBinder(t) ==
    /\ task[t].at = "idle" /\ slot.death = "queued"
    /\ slot' = [slot EXCEPT !.death = "delivered"]
    /\ Become(t, [IdleTask EXCEPT !.at = "obit_read"])
    /\ UNCHANGED <<outq, entry, nextGen, proxies, orphans, budget>>

ObituaryTakes(t) ==
    /\ task[t].at = "obit_read"
    /\ Become(t, IF EntryLive THEN [task[t] EXCEPT !.at = "obit_who", !.arc = entry.proxy]
                            ELSE [task[t] EXCEPT !.at = "obit_remove"])
    /\ entry' = NoEntry
    /\ UNCHANGED <<slot, outq, nextGen, proxies, orphans, budget>>

\* send_obituary_for_handle, read lock: the live proxy, if there is one.
ObituaryRead(t) ==
    /\ task[t].at = "obit_read"
    /\ Become(t, IF EntryLive THEN [task[t] EXCEPT !.at = "obit_who", !.arc = entry.proxy]
                            ELSE [task[t] EXCEPT !.at = "obit_remove"])
    /\ UNCHANGED <<slot, outq, entry, nextGen, proxies, orphans, budget>>

\* SIBinder::downgrade, a second read lock: the generation of `who'.
ObituaryWho(t) ==
    /\ task[t].at = "obit_who"
    /\ Become(t, [task[t] EXCEPT !.at = "obit_remove", !.who = entry.gen])
    /\ UNCHANGED <<slot, outq, entry, nextGen, proxies, orphans, budget>>

\* Write lock: the entry is removed whatever it is by now.
ObituaryRemove(t) ==
    /\ task[t].at = "obit_remove"
    /\ entry' = NoEntry
    /\ Become(t, [task[t] EXCEPT !.at = IF task[t].arc = 0 THEN "obit_done" ELSE "obit_send"])
    /\ UNCHANGED <<slot, outq, nextGen, proxies, orphans, budget>>

\* The recipient list is taken out of the proxy.
DetachNone(p) == [proxies EXCEPT ![p].sent = TRUE]
DetachRecipients(p) == [proxies EXCEPT ![p].sent = TRUE, ![p].recips = 0]

\* ProxyHandle::send_obituary under the recipients lock: detach the list.
SendObituary(t) ==
    LET p == task[t].arc IN
    /\ task[t].at = "obit_send"
    /\ IF proxies[p].sent
       THEN UNCHANGED <<slot, outq, proxies>> /\ Become(t, [task[t] EXCEPT !.at = "obit_dispatch"])
       ELSE /\ QueueCmds(t, IF proxies[p].recips > 0 THEN <<"CLEAR">> ELSE <<>>)
            /\ proxies' = DetachRecipients(p)
            /\ Become(t, [task[t] EXCEPT !.at = "obit_dispatch", !.snap = proxies[p].recips])
    /\ UNCHANGED <<entry, nextGen, orphans, budget>>

\* The callbacks of the snapshot, lock released, then the flush; leaving
\* the function drops the obituary's own reference to the proxy.
DispatchCallbacks(t) ==
    LET p == task[t].arc IN
    /\ task[t].at = "obit_dispatch"
    /\ proxies' = [proxies EXCEPT ![p].fired = @ + task[t].snap]
    /\ IF task[t].snap > 0
       THEN /\ slot' = FoldLeft(DriverDoes, slot, outq[t])
            /\ outq' = [outq EXCEPT ![t] = LastDrop(p)]
       ELSE QueueCmds(t, LastDrop(p))
    /\ Become(t, [IdleTask EXCEPT !.at = "obit_done"])
    /\ UNCHANGED <<entry, nextGen, orphans, budget>>

\* drive_dead_binder_handshake: BC_DEAD_BINDER_DONE, then
\* release_obituary_pin, whatever the obituary found.
ReleaseObituaryPin(t) ==
    /\ task[t].at = "obit_done"
    /\ FlushCmds(t, <<"DONE", "DECREFS">>)
    /\ Become(t, IdleTask)
    /\ UNCHANGED <<entry, nextGen, proxies, orphans, budget>>

----------------------------------------------------------------------------
CacheInit ==
    /\ slot = NoSlot(1)
    /\ outq = [t \in CacheThreads |-> <<>>]
    /\ entry = NoEntry
    /\ nextGen = 1
    /\ proxies = <<>>
    /\ task = [t \in CacheThreads |-> IdleTask]
    /\ orphans = [weak |-> 0, strong |-> 0]
    /\ budget = [deliveries |-> MaxDeliveries, links |-> MaxLinks, faults |-> CacheFaults]

CacheLookup(t) ==
    \/ Deliver(t) \/ FastPath(t) \/ SlowPathP1(t) \/ SlowPathP2(t)
    \/ SlowPathP3(t) \/ FreeBuffer(t) \/ TalkWithDriver(t)

CacheObituary(t) ==
    \/ DeadBinder(t) \/ ObituaryRead(t) \/ ObituaryWho(t) \/ ObituaryRemove(t)
    \/ SendObituary(t) \/ DispatchCallbacks(t) \/ ReleaseObituaryPin(t)

CacheUse(t) == \E p \in DOMAIN proxies :
    DropProxy(t, p) \/ LinkToDeath(t, p) \/ UnlinkToDeath(t, p)

CacheNext ==
    \/ NodeDies
    \/ \E t \in CacheThreads : CacheLookup(t) \/ CacheObituary(t) \/ CacheUse(t)

CacheSpec == CacheInit /\ [][CacheNext]_cacheVars

----------------------------------------------------------------------------
(* Properties                                                              *)

CacheTypeOK ==
    /\ slot.strong \in Nat /\ slot.weak \in Nat /\ slot.dead \in BOOLEAN
    /\ slot.death \in {"none", "set", "queued", "delivered", "done"}
    /\ entry = NoEntry \/ entry.proxy \in DOMAIN proxies

Threads(P(_)) == Cardinality({t \in CacheThreads : P(t)})
\* How many commands of the kinds cs are still in out parcels.
PendingCmds(cs) ==
    MapThenSumSet(LAMBDA t : Len(SelectSeq(outq[t], LAMBDA c : c \in cs)), CacheThreads)

\* Who owns a pin: the entry, a lookup in case (a), and an obituary from the
\* removal of the entry to the release.
Pins ==
    B2N(entry # NoEntry)
    + Threads(LAMBDA t : task[t].plan = "A")
    + Threads(LAMBDA t : task[t].at \in {"obit_send", "obit_dispatch", "obit_done"})

\* Who owns a strong reference: every live proxy, every buffer not yet freed.
Strongs ==
    Cardinality({p \in DOMAIN proxies : Arcs(p) > 0})
    + Threads(LAMBDA t : task[t].at \in {"fast", "p1", "p2", "p3", "free"})

\* "entry-1 <-> pin-1" (process_state.rs): the driver's weak count of the
\* handle is exactly one for the entry, one for every lookup between P1 and
\* P3 of case (a) and one for an obituary under way, whatever the
\* interleaving of lookups, drops and obituaries.  Only a failed ioctl of P1
\* leaves more.
PinPerEntry ==
    LET weak == slot.weak + PendingCmds({"INCREFS"})
        due  == Pins + PendingCmds({"DECREFS"})
    IN  due <= weak /\ weak <= due + orphans.weak

\* An entry in the cache always has its pin, so the BC_ACQUIRE of case (b)
\* meets a slot that is alive.
EntryPinned == entry # NoEntry => slot.weak + PendingCmds({"INCREFS"}) > 0

\* One strong reference per live ProxyHandle and per buffer: BC_ACQUIRE and
\* BC_RELEASE stay balanced although a looper defers them and another thread
\* may drop the proxy (proxy.rs, new_acquired and Drop).
StrongPerProxy ==
    LET strong == slot.strong + PendingCmds({"ACQUIRE"})
        due    == Strongs + PendingCmds({"RELEASE", "FREE"})
    IN  due <= strong /\ strong <= due + orphans.strong

\* A proxy somebody holds, and the cache entry, name the node the handle
\* names now: the handle is not recycled under them, although the driver
\* reuses it as soon as its slot has no reference.
NeverRecycledUnderProxy ==
    /\ \A p \in DOMAIN proxies : Arcs(p) > 0 => proxies[p].node = slot.node
    /\ entry # NoEntry => entry.node = slot.node

\* Every successful link_to_death is accounted for exactly once: still in
\* the list, unlinked, in the snapshot of an obituary under way, called, or
\* gone with the proxy.  In particular no recipient is called twice.
LinksConserved ==
    \A p \in DOMAIN proxies :
        proxies[p].linked =
            proxies[p].recips + proxies[p].unlinked + proxies[p].fired + proxies[p].gone
            + MapThenSumSet(LAMBDA t : IF task[t].arc = p THEN task[t].snap ELSE 0,
                            CacheThreads)

\* link_to_death racing send_obituary (proxy.rs): once the obituary of a
\* proxy is sent its list stays empty, so no recipient waits for a callback
\* that will not come.
NoLinkAfterObituary ==
    \A p \in DOMAIN proxies : proxies[p].sent => proxies[p].recips = 0

\* The `who' given to binder_died carries the proxy's identity and not the
\* Native fallback of downgrade, which equals no registered proxy: the entry
\* the proxy came from is still in the cache when it is taken.
WhoIsTheProxy ==
    \A t \in CacheThreads : task[t].at \in {"obit_send", "obit_dispatch"} => task[t].who # 0

\* The references the process takes on a handle are the ones its cache entry,
\* its proxies and its buffers account for (strong_proxy_for_handle, ProxyHandle
\* and process_pending_derefs), so a handle is never recycled under a user.
HandleRefsKept == CacheTypeOK /\ PinPerEntry /\ StrongPerProxy /\ NeverRecycledUnderProxy

\* Each recipient hears of a death at most once, none is left waiting, and it
\* is told which binder died (link_to_death, unlink_to_death, send_obituary).
DeathsReported == LinksConserved /\ NoLinkAfterObituary /\ WhoIsTheProxy
============================================================================
