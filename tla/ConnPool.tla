------------------------------ MODULE ConnPool ------------------------------
(***************************************************************************)
(* The connection pool of an RPC session (rsbinder/src/rpc/session.rs):     *)
(* slots that one thread at a time drives, one mutex (conn_state) and one   *)
(* condition variable (slot_cv).  Callers take any free slot, the reaper    *)
(* takes one for the DEC_STRONGs that could not be sent from a drop, and    *)
(* every incoming connection has a worker that serves exactly its slot.     *)
(*                                                                         *)
(* Each action is one critical section of conn_state, one notify_all, or    *)
(* one atomic access of the lifecycle; find_conn's section is split at its  *)
(* read of the lifecycle, which changes without the mutex.  The lifecycle   *)
(* word (SessionLifecycle) is its live count here, 0 once it left Live.     *)
(***************************************************************************)
EXTENDS Integers, FiniteSets, Sequences

CONSTANTS Callers,   \* threads of the user: calls, and drops of proxies
          Workers,   \* connections that are served, or added for callbacks
          Founder,   \* the worker of the founding connection
          Reaper,    \* reaper_loop's thread
          MaxSlots,  \* bound: how many slots are ever added
          SlotCap,   \* add_callback_slot's cap
          MaxNesting,  \* bound: how deep calls nest
          Budget,    \* bound: Budget[t] calls, drops, frames and nested calls of t
          NoThread       \* no thread

Threads == Callers \cup Workers \cup {Reaper}
Ids == 1 .. MaxSlots

ASSUME PoolAssumption ==
    /\ Founder \in Workers /\ NoThread \notin Threads
    /\ Callers \cap Workers = {} /\ Reaper \notin Callers \cup Workers
    /\ MaxSlots \in Nat \ {0} /\ SlotCap \in Nat /\ MaxNesting \in Nat /\ Budget \in [Threads -> Nat]

VARIABLES slots,    \* conn_state.slots, in the order of their ids
          nextId,   \* conn_state.next_slot_id
          excl,     \* excl[s]: exclusive_tid
          lock,     \* who is inside find_conn's critical section
          driving,  \* driving[t]: the DRIVING entries of this session
          guards,   \* guards[t]: the ConnGuards alive on t's stack
          live,     \* the lifecycle's live count, 0 from Dying on
          pc,       \* pc[t]: what thread t does next
          then,     \* then[t]: what follows its notify_all, its wait
          mine,     \* mine[w]: the slot worker w serves
          closed,   \* the slots whose peer has closed
          queue,    \* dec_strong_tx
          left      \* left[t]: what remains of t's budget
poolVars == <<slots, nextId, excl, lock, driving, guards, live, pc, then, mine, closed, queue, left>>
pool == <<slots, nextId, excl>>
mark == <<driving, guards>>
env  == <<mine, closed, queue, left>>

PoolInit ==
    /\ slots = {1} /\ nextId = 2
    /\ excl = [s \in Ids |-> NoThread]
    /\ lock = NoThread
    /\ driving = [t \in Threads |-> <<>>]
    /\ guards = [t \in Threads |-> <<>>]
    /\ live = 1
    /\ pc = [t \in Threads |-> IF t = Founder THEN "pin" ELSE IF t \in Workers THEN "out" ELSE "idle"]
    /\ then = [t \in Threads |-> "idle"]
    /\ mine = [w \in Workers |-> IF w = Founder THEN 1 ELSE 0]
    /\ closed = {}
    /\ queue = 0
    /\ left = Budget

Goto(t, to) == pc' = [pc EXCEPT ![t] = to] /\ UNCHANGED then
GotoThen(t, to, next) == pc' = [pc EXCEPT ![t] = to] /\ then' = [then EXCEPT ![t] = next]
Unlocked == lock = NoThread
Last(s) == s[Len(s)]
Front(s) == SubSeq(s, 1, Len(s) - 1)
Guard(s, reentrant) == [slot |-> s, reentrant |-> reentrant]
Spend(t) == left[t] > 0 /\ left' = [left EXCEPT ![t] = @ - 1] /\ UNCHANGED <<mine, closed, queue>>

-----------------------------------------------------------------------------
(* Taking a slot *)

\* Thread t gets slot s: exclusive_tid, the DRIVING marker and the guard.
Claim(t, s, to) ==
    /\ excl' = [excl EXCEPT ![s] = t]
    /\ driving' = [driving EXCEPT ![t] = Append(@, s)]
    /\ guards' = [guards EXCEPT ![t] = Append(@, Guard(s, FALSE))]
    /\ Goto(t, to)
    /\ UNCHANGED <<slots, nextId>>

\* The first slot of the Vec among S.
FirstOf(S, s) == s \in S /\ \A r \in S : s <= r

\* Fault model: the loop does not ask whether the session is still there.
FindEnterFault(t) ==
    /\ pc[t] = "find" /\ Unlocked
    /\ lock' = t /\ Goto(t, "scan")
    /\ UNCHANGED <<pool, mark, live, env>>

\* find_conn (for a thread that drives no slot) and find_conn_for_reaper: the
\* torn-down check at the head of the loop returns DeadObject.
FindEnter(t) ==
    /\ pc[t] = "find" /\ Unlocked
    /\ \/ /\ live = 0 \/ slots = {}
          /\ Goto(t, "idle") /\ UNCHANGED lock
       \/ /\ live # 0 /\ slots # {}
          /\ lock' = t /\ Goto(t, "scan")
    /\ UNCHANGED <<pool, mark, live, env>>

Usable(t) == {s \in slots : excl[s] \in {NoThread, t}}

\* The rest of the loop: the first usable slot, or a wait on slot_cv.
FindScan(t) ==
    /\ pc[t] = "scan" /\ lock = t
    /\ lock' = NoThread
    /\ \/ \E s \in Ids : FirstOf(Usable(t), s) /\ Claim(t, s, IF t = Reaper THEN "send" ELSE "hold")
       \/ Usable(t) = {} /\ GotoThen(t, "wait", "find") /\ UNCHANGED <<pool, mark>>
    /\ UNCHANGED <<live, env>>

\* find_conn_pinned: the worker's own slot, or DeadObject once it is retired.
PinSlot(w) ==
    /\ pc[w] = "pin" /\ Unlocked
    /\ \/ mine[w] \notin slots /\ Goto(w, "exit") /\ UNCHANGED <<pool, mark>>
       \/ mine[w] \in slots /\ excl[mine[w]] \in {NoThread, w} /\ Claim(w, mine[w], "hold")
       \/ /\ mine[w] \in slots /\ excl[mine[w]] \notin {NoThread, w}
          /\ GotoThen(w, "wait", "pin") /\ UNCHANGED <<pool, mark>>
    /\ UNCHANGED <<lock, live, env>>

\* Fault model: the nested frame takes the slot as if nobody drove it.
NestFault(t) ==
    /\ pc[t] = "hold" /\ Unlocked /\ Len(guards[t]) < MaxNesting /\ Spend(t)
    /\ Last(driving[t]) \in slots
    /\ Claim(t, Last(driving[t]), "hold")
    /\ UNCHANGED <<lock, live>>

\* A nested call or drop on a thread that drives a slot: the reentrant arm of
\* find_conn and try_find_conn.
Nest(t) ==
    /\ pc[t] = "hold" /\ Unlocked /\ Len(guards[t]) < MaxNesting /\ Spend(t)
    /\ Last(driving[t]) \in slots
    /\ guards' = [guards EXCEPT ![t] = Append(@, Guard(Last(driving[t]), TRUE))]
    /\ UNCHANGED <<pool, lock, driving, live, pc, then>>

\* ... whose slot was retired meanwhile: the call fails with DeadObject, the
\* drop hands its DEC_STRONG to the reaper.
NestRetired(t) ==
    /\ pc[t] = "hold" /\ Unlocked /\ left[t] > 0
    /\ Last(driving[t]) \notin slots
    /\ left' = [left EXCEPT ![t] = @ - 1]
    /\ queue' \in {queue, queue + 1}
    /\ UNCHANGED <<pool, lock, mark, live, pc, then, mine, closed>>

-----------------------------------------------------------------------------
(* Giving it back *)

\* Fault model: the waiters are not woken.
ReleaseFault(t, to) ==
    LET g == Last(guards[t])
    IN /\ ~g.reentrant /\ Unlocked
       /\ guards' = [guards EXCEPT ![t] = Front(@)]
       /\ driving' = [driving EXCEPT ![t] = Front(@)]
       /\ excl' = [excl EXCEPT ![g.slot] = IF g.slot \in slots THEN NoThread ELSE @]
       /\ Goto(t, to)
       /\ UNCHANGED <<slots, nextId, lock, live>>

\* ConnGuard::drop of a guard that owns its slot; notify_all comes after the
\* mutex is released.
Release(t, to) ==
    LET g == Last(guards[t])
    IN /\ ~g.reentrant /\ Unlocked
       /\ guards' = [guards EXCEPT ![t] = Front(@)]
       /\ driving' = [driving EXCEPT ![t] = Front(@)]
       /\ excl' = [excl EXCEPT ![g.slot] = IF g.slot \in slots THEN NoThread ELSE @]
       /\ GotoThen(t, "notify", to)
       /\ UNCHANGED <<slots, nextId, lock, live>>

\* ConnGuard::drop of a reentrant guard.
Unnest(t) ==
    /\ pc[t] = "hold" /\ guards[t] # <<>> /\ Last(guards[t]).reentrant
    /\ guards' = [guards EXCEPT ![t] = Front(@)]
    /\ UNCHANGED <<pool, lock, driving, live, pc, then, env>>

\* slot_cv.notify_all: every waiter goes back to the head of its loop.
Notify(t) ==
    /\ pc[t] = "notify"
    /\ pc' = [u \in Threads |-> IF u = t \/ pc[u] = "wait" THEN then[u] ELSE pc[u]]
    /\ UNCHANGED <<pool, lock, mark, live, then, env>>

\* remove_slot, and add_slot_inner.
RemoveSlot(s) == slots' = slots \ {s} /\ UNCHANGED <<nextId, excl>>

AddSlot ==
    /\ slots' = slots \cup {nextId}
    /\ nextId' = nextId + 1
    /\ excl' = [excl EXCEPT ![nextId] = NoThread]

-----------------------------------------------------------------------------
(* Callers: client_transact and queue_dec_strong *)

StartCall(c) ==
    /\ pc[c] = "idle" /\ Spend(c)
    /\ Goto(c, "find")
    /\ UNCHANGED <<pool, lock, mark, live>>

\* The lifecycle gate of queue_dec_strong.
StartDrop(c) ==
    /\ pc[c] = "idle" /\ Spend(c)
    /\ live # 0 /\ Goto(c, "try")
    /\ UNCHANGED <<pool, lock, mark, live>>

Free == {s \in slots : excl[s] = NoThread}

\* try_find_conn: a free slot, or the hand-off to the reaper.
TryFind(c) ==
    /\ pc[c] = "try" /\ Unlocked
    /\ \/ (\E s \in Ids : FirstOf(Free, s) /\ Claim(c, s, "send")) /\ UNCHANGED env
       \/ /\ Free = {} /\ queue' = queue + 1 /\ Goto(c, "idle")
          /\ UNCHANGED <<pool, mark, mine, closed, left>>
    /\ UNCHANGED <<lock, live>>

\* The frame is sent and, for a twoway, its reply has been read.
EndCall(t) ==
    /\ pc[t] \in {"hold", "send"}
    /\ Release(t, "idle")
    /\ UNCHANGED env

\* poison_slot: the reply did not come, and the slot is retired before the
\* guard is dropped.
Poison(c) ==
    /\ pc[c] = "hold" /\ ~Last(guards[c]).reentrant /\ Unlocked
    /\ RemoveSlot(Last(guards[c]).slot)
    /\ GotoThen(c, "notify", "poisoned")
    /\ UNCHANGED <<lock, mark, live, env>>

DropPoisoned(c) ==
    /\ pc[c] = "poisoned"
    /\ Release(c, "idle")
    /\ UNCHANGED env

\* reaper_loop: the next queued address, skipped once the session is torn down.
Reap ==
    /\ pc[Reaper] = "idle" /\ queue > 0
    /\ queue' = queue - 1
    /\ Goto(Reaper, IF live = 0 THEN "idle" ELSE "find")
    /\ UNCHANGED <<pool, lock, mark, live, mine, closed, left>>

-----------------------------------------------------------------------------
(* Workers: attach, serve_blocking_on_inner *)

\* add_incoming_slot, first half: try_bump_live.
Attach(w) ==
    /\ pc[w] = "out"
    /\ live' = IF live = 0 THEN 0 ELSE live + 1
    /\ Goto(w, IF live = 0 THEN "done" ELSE "add")
    /\ UNCHANGED <<pool, lock, mark, env>>

\* ... second half: the slot is pushed.
AddIncoming(w) ==
    /\ pc[w] = "add" /\ Unlocked /\ nextId \in Ids
    /\ AddSlot
    /\ mine' = [mine EXCEPT ![w] = nextId]
    /\ GotoThen(w, "notify", "pin")
    /\ UNCHANGED <<lock, mark, live, closed, queue, left>>

\* add_callback_slot: the lifecycle gate, then the capped push; the slot has no
\* worker.
Gate(w) ==
    /\ pc[w] = "out"
    /\ Goto(w, IF live = 0 THEN "done" ELSE "callback")
    /\ UNCHANGED <<pool, lock, mark, live, env>>

\* Fault model: the cap is checked against the slots of an earlier moment.
AddCallbackFault(w) ==
    /\ pc[w] = "callback" /\ Unlocked /\ nextId \in Ids
    /\ AddSlot /\ GotoThen(w, "notify", "done")
    /\ UNCHANGED <<lock, mark, live, env>>

AddCallback(w) ==
    /\ pc[w] = "callback" /\ Unlocked /\ nextId \in Ids
    /\ \/ Cardinality(slots) < SlotCap /\ AddSlot /\ GotoThen(w, "notify", "done")
       \/ Cardinality(slots) >= SlotCap /\ Goto(w, "done") /\ UNCHANGED pool
    /\ UNCHANGED <<lock, mark, live, env>>

\* One frame was read and dispatched; the guard is dropped after it.
ServeOne(w) ==
    /\ pc[w] = "hold" /\ mine[w] \notin closed
    /\ Release(w, "pin")
    /\ Spend(w)

\* The peer closed: the loop ends.
ServeLoopEnds(w) ==
    /\ pc[w] = "hold" /\ mine[w] \in closed
    /\ Release(w, "exit")
    /\ UNCHANGED env

\* drop_connection (and, on the last one, the obituaries and mark_dead).
DropConnection(w) ==
    /\ pc[w] = "exit"
    /\ live' = live - 1
    /\ Goto(w, "remove")
    /\ UNCHANGED <<pool, lock, mark, env>>

\* remove_slot, after the lifecycle has moved.
Retire(w) ==
    /\ pc[w] = "remove" /\ Unlocked
    /\ RemoveSlot(mine[w])
    /\ GotoThen(w, "notify", "done")
    /\ UNCHANGED <<lock, mark, live, env>>

\* The peer closes a connection.
Close(s) ==
    /\ s < nextId /\ s \notin closed
    /\ closed' = closed \cup {s}
    /\ UNCHANGED <<pool, lock, mark, live, pc, then, mine, queue, left>>

-----------------------------------------------------------------------------
Find(t) == FindEnter(t) \/ FindScan(t) \/ Notify(t)
CallerStep(c) == Find(c) \/ TryFind(c) \/ EndCall(c) \/ Poison(c) \/ DropPoisoned(c)
ReaperStep == Find(Reaper) \/ Reap \/ EndCall(Reaper)
WorkerStep(w) ==
    \/ PinSlot(w) \/ Notify(w) \/ AddIncoming(w) \/ AddCallback(w)
    \/ ServeOne(w) \/ ServeLoopEnds(w) \/ DropConnection(w) \/ Retire(w)

\* Every connection is gone and nobody has anything left to do.
Settled ==
    /\ \A t \in Threads : pc[t] \in {"idle", "done"}
    /\ queue = 0
    /\ UNCHANGED poolVars

PoolNext ==
    \/ \E c \in Callers : StartCall(c) \/ StartDrop(c) \/ CallerStep(c)
    \/ ReaperStep
    \/ \E w \in Workers : Attach(w) \/ Gate(w) \/ WorkerStep(w)
    \/ \E t \in Threads : Nest(t) \/ NestRetired(t) \/ Unnest(t)
    \/ \E s \in Ids : Close(s)
    \/ Settled

PoolSpec == PoolInit /\ [][PoolNext]_poolVars

\* A thread goes on when it can: the peer answers or the call fails, handlers
\* and nested calls return, and every peer closes its connections in the end.
\* Nobody has to start a call or to attach.
PoolFairness ==
    /\ \A c \in Callers : WF_poolVars(CallerStep(c))
    /\ WF_poolVars(ReaperStep)
    /\ \A w \in Workers : WF_poolVars(WorkerStep(w))
    /\ \A t \in Threads : WF_poolVars(Unnest(t))
    /\ \A s \in Ids : WF_poolVars(Close(s))

PoolFairSpec == PoolSpec /\ PoolFairness

-----------------------------------------------------------------------------
(* Properties *)

Labels == {"idle", "find", "scan", "wait", "hold", "send", "notify", "try", "poisoned", "pin", "exit",
           "remove", "out", "add", "callback", "done"}

PoolTypeOK ==
    /\ slots \subseteq Ids /\ nextId \in Nat
    /\ excl \in [Ids -> Threads \cup {NoThread}]
    /\ lock \in Threads \cup {NoThread}
    /\ driving \in [Threads -> Seq(Ids)]
    /\ guards \in [Threads -> Seq([slot : Ids, reentrant : BOOLEAN])]
    /\ live \in Int
    /\ pc \in [Threads -> Labels] /\ then \in [Threads -> Labels]
    /\ mine \in [Workers -> Ids \cup {0}]
    /\ closed \subseteq Ids /\ queue \in Int /\ left \in [Threads -> Int]

\* The slots thread t is using, at whatever depth.
Uses(t) == {guards[t][i].slot : i \in DOMAIN guards[t]}

\* No two threads ever use the same connection, so frames never interleave on
\* a transport and no reply is read by another thread, although slots are
\* retired and nested guards are dropped under running calls.
Exclusive ==
    /\ \A t, u \in Threads : t # u => Uses(t) \cap Uses(u) = {}
    /\ \A s \in slots : excl[s] # NoThread => Uses(excl[s]) = {s}

\* No wakeup is lost: whoever sleeps on slot_cv finds, when it sleeps, a pool
\* that cannot serve it, or a notify_all is still to come.
NoLostWakeup ==
    \A t \in Threads : pc[t] = "wait" =>
        \/ \E u \in Threads : pc[u] = "notify"
        \/ then[t] = "find" /\ slots # {} /\ Free = {}
        \/ then[t] = "pin" /\ mine[t] \in slots /\ excl[mine[t]] # NoThread

\* add_slot_inner_capped: callback slots never push the pool past the cap, also
\* when several connections attach at once.
CapHeld == [][Cardinality(slots') > Cardinality(slots) /\ mine' = mine
                 => Cardinality(slots') <= SlotCap]_poolVars

\* Whoever claims, waits, nests, attaches and retires at once: a connection has one
\* user, a sleeper is woken, and the cap holds.
PoolSafe == [](Exclusive /\ NoLostWakeup) /\ CapHeld

\* When the peer is gone nobody stays parked: every caller, worker and the
\* reaper come to rest, and the session ends torn down with no slot but those
\* no worker serves.
EventuallySettled ==
    <>[](/\ \A t \in Threads : pc[t] \in {"idle", "done", "out"}
         /\ \A w \in Workers : mine[w] \notin slots
         /\ live = 0)
=============================================================================
