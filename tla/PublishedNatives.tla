------------------------- MODULE PublishedNatives -------------------------
(***************************************************************************)
(* The sidecar table of native binders this process has published          *)
(* (process_state.rs, binder_object.rs, the BR_* arms of thread_state.rs), *)
(* for one binder object.                                                  *)
(*                                                                         *)
(* Writing the binder into a parcel is two steps, publish_native and the   *)
(* acquire of write_object; dropping the parcel releases each object, and  *)
(* a release or a kernel deref that reaches zero removes the entry in a    *)
(* second lock window.  The kernel's references arrive as BR_* commands:   *)
(* BR_INCREFS and BR_ACQUIRE on the sending thread, before the call that   *)
(* carried the object returns, BR_RELEASE and BR_DECREFS on any looper,    *)
(* which defers them to process_pending_derefs.                            *)
(*                                                                         *)
(* A task's `nested' and `accepted' are history: they mark the races the   *)
(* code documents as accepted, which the properties therefore exempt.      *)
(***************************************************************************)
EXTENDS Naturals, Sequences, FiniteSets, SequencesExt

CONSTANTS PubThreads,     \* threads of this process
          MaxPublished,   \* bound: objects written by From<&SIBinder>
          MaxSends,       \* bound: transactions that carry the parcel
          MaxAttempts     \* bound: BR_ATTEMPT_ACQUIRE commands

VARIABLES
    pubEntry,   \* the entry of the binder in published_natives
    nextId,     \* next_native_id
    floor,      \* RefCounter.weak of the binder
    pubTask,    \* where every thread is
    parcel,     \* the id and number of objects of every thread's parcel
    brq,        \* commands the driver queued for a thread
    procq,      \* commands the driver queued for the process
    derefs,     \* BINDER_DEREFS of every thread
    knode,      \* the driver's node of every id (external)
    accepted,   \* history: an accepted race has happened
    pubBudget   \* what is left of the bounds

pubVars == <<pubEntry, nextId, floor, pubTask, parcel, brq, procq, derefs,
             knode, accepted, pubBudget>>

NoPub == [id |-> 0, publish |-> 0, kernel |-> 0, resv |-> 0]
PubIdle == [at |-> "idle", id |-> 0, nested |-> FALSE]
NoNode == [remote |-> 0, owed |-> 0, pending |-> 0]
Ids == 1..MaxPublished

PubGoto(t, at, id) == pubTask' = [pubTask EXCEPT ![t] = [at |-> at, id |-> id, nested |-> FALSE]]

Live(id) == id # 0 /\ pubEntry.id = id
ZeroInParcels(e) == e.publish = 0 /\ e.resv = 0
Zero(e) == e.publish = 0 /\ e.kernel = 0 /\ e.resv = 0
WrappingLess1(n) == n - 1
Less1(n) == IF n = 0 THEN 0 ELSE n - 1

----------------------------------------------------------------------------
(* Parcels                                                                 *)

\* A dedup hit reserves the entry; a fresh entry starts at zero.
DedupUnreserved(e) == e
Dedup(e) == [e EXCEPT !.resv = @ + 1]
FreshEntry == [NoPub EXCEPT !.id = nextId]

\* publish_native
PublishNative(t) ==
    /\ pubTask[t].at = "idle" /\ parcel[t].n = 0 /\ pubBudget.publish > 0
    /\ pubBudget' = [pubBudget EXCEPT !.publish = @ - 1]
    /\ \/ /\ pubEntry # NoPub
          /\ pubEntry' = Dedup(pubEntry)
          /\ PubGoto(t, "acquire", pubEntry.id)
          /\ UNCHANGED <<nextId, floor>>
       \/ /\ pubEntry = NoPub
          /\ pubEntry' = FreshEntry
          /\ nextId' = nextId + 1
          /\ floor' = floor + 1
          /\ PubGoto(t, "acquire", nextId)
    /\ UNCHANGED <<parcel, brq, procq, derefs, knode, accepted>>

\* incref_publish
IncrefKeeping(e) == [e EXCEPT !.publish = @ + 1]
Incref(e) == [e EXCEPT !.publish = @ + 1, !.resv = Less1(@)]

\* flat_binder_object::acquire in write_object.  It lands inside the gap of
\* every other thread that is between publish_native and its acquire.
AcquireObject(t) ==
    LET id == pubTask[t].id IN
    /\ pubTask[t].at = "acquire"
    /\ pubEntry' = IF Live(id) THEN Incref(pubEntry) ELSE pubEntry
    /\ accepted' = (accepted \/ ~Live(id))
    /\ parcel' = [parcel EXCEPT ![t] = [id |-> id, n |-> 1]]
    /\ pubTask' = [u \in PubThreads |->
                     IF u = t THEN PubIdle
                     ELSE [pubTask[u] EXCEPT !.nested = @ \/ pubTask[u].at = "acquire"]]
    /\ UNCHANGED <<nextId, floor, brq, procq, derefs, knode, pubBudget>>

\* Parcel::append_from clones an object of a parcel: acquire alone.
AppendFrom(t) ==
    /\ pubTask[t].at = "idle" /\ parcel[t].n = 1 /\ Live(parcel[t].id)
    /\ pubEntry' = Incref(pubEntry)
    /\ parcel' = [parcel EXCEPT ![t].n = 2]
    /\ pubTask' = [u \in PubThreads |->
                     [pubTask[u] EXCEPT !.nested = @ \/ pubTask[u].at = "acquire"]]
    /\ UNCHANGED <<nextId, floor, brq, procq, derefs, knode, accepted, pubBudget>>

\* flat_binder_object::release, decref_publish: on zero the entry is removed
\* in a lock window of its own.
ReleaseObject(t) ==
    LET id == parcel[t].id
        e == [pubEntry EXCEPT !.publish = Less1(@)]
    IN
    /\ pubTask[t].at = "idle" /\ parcel[t].n > 0 /\ brq[t] = <<>>
    /\ parcel' = [parcel EXCEPT ![t].n = @ - 1]
    /\ pubEntry' = IF Live(id) THEN e ELSE pubEntry
    /\ PubGoto(t, IF Live(id) /\ Zero(e) THEN "remove" ELSE "idle", id)
    /\ UNCHANGED <<nextId, floor, brq, procq, derefs, knode, accepted, pubBudget>>

\* remove_entry_if_zero: the counters are checked again.
RemoveEntry(t) ==
    LET gone == Live(pubTask[t].id) /\ Zero(pubEntry) IN
    /\ pubTask[t].at = "remove"
    /\ pubEntry' = IF gone THEN NoPub ELSE pubEntry
    /\ PubGoto(t, IF gone THEN "teardown" ELSE "idle", pubTask[t].id)
    /\ UNCHANGED <<nextId, floor, parcel, brq, procq, derefs, knode, accepted, pubBudget>>

TeardownStrongOnly(t) ==
    /\ pubTask[t].at = "teardown"
    /\ PubGoto(t, "idle", 0)
    /\ UNCHANGED <<pubEntry, nextId, floor, parcel, brq, procq, derefs, knode, accepted, pubBudget>>

\* dec_weak and the drop of binder_pin, the table unlocked.
Teardown(t) ==
    /\ pubTask[t].at = "teardown"
    /\ floor' = floor - 1
    /\ PubGoto(t, "idle", 0)
    /\ UNCHANGED <<pubEntry, nextId, parcel, brq, procq, derefs, knode, accepted, pubBudget>>

----------------------------------------------------------------------------
(* The driver                                                              *)

\* The parcel is sent: the receiver's reference makes the driver announce a
\* node it had no reference to.
SendParcel(t) ==
    LET id == parcel[t].id
        fresh == knode[id].owed = 0
    IN
    /\ pubTask[t].at = "idle" /\ parcel[t].n > 0 /\ brq[t] = <<>> /\ pubBudget.send > 0
    /\ knode' = [knode EXCEPT ![id] =
                   IF fresh THEN [@ EXCEPT !.remote = 1, !.owed = 2, !.pending = @ + 2]
                   ELSE [@ EXCEPT !.remote = @ + 1]]
    /\ brq' = [brq EXCEPT ![t] = IF fresh THEN <<"BR_INCREFS", "BR_ACQUIRE">> ELSE <<>>]
    /\ pubBudget' = [pubBudget EXCEPT !.send = @ - 1]
    /\ UNCHANGED <<pubEntry, nextId, floor, pubTask, parcel, procq, derefs, accepted>>

\* The other process drops its reference; after the last one the driver
\* takes back what it announced, by its own protocol after BC_*_DONE, as a
\* comment in deref_native_kernel has it possibly before.
RemoteRelease(id) ==
    LET n == knode[id] IN
    /\ n.remote > 0
    /\ knode' = [knode EXCEPT ![id] = IF n.remote = 1 THEN [NoNode EXCEPT !.pending = n.pending]
                                                      ELSE [n EXCEPT !.remote = @ - 1]]
    /\ procq' = IF n.remote > 1 THEN procq
                ELSE procq \o [i \in 1..n.owed |->
                        <<IF i = n.owed THEN "BR_DECREFS" ELSE "BR_RELEASE", id>>]
    /\ accepted' = (accepted \/ (n.remote = 1 /\ n.pending > 0))
    /\ UNCHANGED <<pubEntry, nextId, floor, pubTask, parcel, brq, derefs, pubBudget>>

----------------------------------------------------------------------------
(* execute_command                                                         *)

\* BR_INCREFS, BR_ACQUIRE: ref_native_kernel and BC_*_DONE.
RefNativeKernel(t) ==
    LET id == parcel[t].id IN
    /\ pubTask[t].at = "idle" /\ brq[t] # <<>>
    /\ brq' = [brq EXCEPT ![t] = Tail(@)]
    /\ pubEntry' = IF Live(id) THEN [pubEntry EXCEPT !.kernel = @ + 1] ELSE pubEntry
    /\ knode' = [knode EXCEPT ![id].pending = @ - 1]
    /\ UNCHANGED <<nextId, floor, pubTask, parcel, procq, derefs, accepted, pubBudget>>

\* BR_ATTEMPT_ACQUIRE: an unknown id answers no.
AttemptAcquire(t, id) ==
    /\ pubTask[t].at = "idle" /\ pubBudget.attempts > 0
    /\ knode[id].remote > 0 /\ knode[id].pending = 0
    /\ pubBudget' = [pubBudget EXCEPT !.attempts = @ - 1]
    /\ IF Live(id) THEN /\ pubEntry' = [pubEntry EXCEPT !.kernel = @ + 1]
                        /\ knode' = [knode EXCEPT ![id].owed = @ + 1]
                   ELSE UNCHANGED <<pubEntry, knode>>
    /\ UNCHANGED <<nextId, floor, pubTask, parcel, brq, procq, derefs, accepted>>

\* BR_RELEASE, BR_DECREFS: deferred.
DeferDeref(t) ==
    /\ pubTask[t].at = "idle" /\ procq # <<>>
    /\ procq' = Tail(procq)
    /\ derefs' = [derefs EXCEPT ![t] =
                    IF Head(procq)[1] = "BR_DECREFS"
                    THEN [@ EXCEPT !.weak = Append(@, Head(procq)[2])]
                    ELSE [@ EXCEPT !.strong = Append(@, Head(procq)[2])]]
    /\ UNCHANGED <<pubEntry, nextId, floor, pubTask, parcel, brq, knode, accepted, pubBudget>>

\* process_pending_derefs: every weak id before the next strong one;
\* deref_native_kernel.
ProcessPendingDerefs(t) ==
    LET d == derefs[t]
        id == IF d.weak # <<>> THEN Head(d.weak) ELSE Head(d.strong)
        e == [pubEntry EXCEPT !.kernel = Less1(@)]
    IN
    /\ pubTask[t].at = "idle" /\ parcel[t].n = 0 /\ d.weak \o d.strong # <<>>
    /\ derefs' = [derefs EXCEPT ![t] = IF d.weak # <<>> THEN [d EXCEPT !.weak = Tail(@)]
                                                        ELSE [d EXCEPT !.strong = Tail(@)]]
    /\ pubEntry' = IF Live(id) THEN e ELSE pubEntry
    /\ PubGoto(t, IF Live(id) /\ Zero(e) THEN "remove" ELSE "idle", id)
    /\ UNCHANGED <<nextId, floor, parcel, brq, procq, knode, accepted, pubBudget>>

----------------------------------------------------------------------------
PubInit ==
    /\ pubEntry = NoPub
    /\ nextId = 1
    /\ floor = 0
    /\ pubTask = [t \in PubThreads |-> PubIdle]
    /\ parcel = [t \in PubThreads |-> [id |-> 0, n |-> 0]]
    /\ brq = [t \in PubThreads |-> <<>>]
    /\ procq = <<>>
    /\ derefs = [t \in PubThreads |-> [weak |-> <<>>, strong |-> <<>>]]
    /\ knode = [i \in Ids |-> NoNode]
    /\ accepted = FALSE
    /\ pubBudget = [publish |-> MaxPublished, send |-> MaxSends, attempts |-> MaxAttempts]

WriteBinder(t) == PublishNative(t) \/ AcquireObject(t) \/ AppendFrom(t)
DropBinder(t) == ReleaseObject(t) \/ RemoveEntry(t) \/ Teardown(t)
ExecuteRefs(t) == RefNativeKernel(t) \/ DeferDeref(t) \/ ProcessPendingDerefs(t)

PubNext ==
    \/ \E id \in Ids : RemoteRelease(id)
    \/ \E t \in PubThreads :
          \/ WriteBinder(t) \/ DropBinder(t) \/ ExecuteRefs(t) \/ SendParcel(t)
          \/ \E id \in Ids : AttemptAcquire(t, id)

PubSpec == PubInit /\ [][PubNext]_pubVars

----------------------------------------------------------------------------
(* Properties                                                              *)

PubTypeOK ==
    /\ pubEntry.id \in 0..MaxPublished /\ nextId \in 1..(MaxPublished + 1)
    /\ pubEntry.publish \in Nat /\ pubEntry.kernel \in Nat /\ pubEntry.resv \in Nat
    /\ \A id \in Ids : knode[id].pending \in Nat

\* The `acquire' of write_object finds the entry publish_native gave it the
\* id of, whatever other threads release in between: only an acquire of
\* another thread inside the gap can take the reservation away.
AcquireFindsEntry ==
    \A t \in PubThreads :
        pubTask[t].at = "acquire" /\ ~pubTask[t].nested => Live(pubTask[t].id)

\* The entry is there for as long as the other side can use it: BR_INCREFS
\* and BR_ACQUIRE never name an unknown id (their debug_assert), and while a
\* remote reference is announced a transaction to it is resolved by
\* lookup_native.
EntryWhileKernelHolds ==
    ~accepted =>
        /\ \A t \in PubThreads : brq[t] # <<>> => Live(parcel[t].id)
        /\ \A id \in Ids : knode[id].remote > 0 => Live(id)

Due(id) ==
    Len(SelectSeq(procq, LAMBDA c : c[2] = id))
    + MapThenSumSet(LAMBDA t : Len(SelectSeq(derefs[t].weak \o derefs[t].strong,
                                             LAMBDA i : i = id)), PubThreads)

\* kernel_refs is what the driver announced and has not taken back, however
\* commands are spread over threads and deferred; publish_count is the
\* number of objects in parcels.
CountsExact ==
    ~accepted /\ pubEntry # NoPub =>
        /\ pubEntry.kernel + knode[pubEntry.id].pending =
               knode[pubEntry.id].owed + Due(pubEntry.id)
        /\ pubEntry.publish =
               MapThenSumSet(LAMBDA t : IF parcel[t].id = pubEntry.id THEN parcel[t].n ELSE 0,
                             PubThreads)

\* Nothing is left behind: once no thread is inside an operation, no parcel
\* holds the binder and the driver has taken back what it announced, the
\* entry is gone, unless an early deref was clamped at zero.
NoStrandedEntry ==
    /\ ~accepted /\ pubEntry # NoPub
    /\ \A t \in PubThreads : pubTask[t].at \in {"idle", "teardown"} /\ parcel[t].n = 0
    => knode[pubEntry.id].owed + Due(pubEntry.id) > 0

\* RefCounter.weak is kept above zero by the entry alone: one for the entry
\* and one for every removed entry not yet torn down, so a republication in
\* between never meets the last decrement.
FloorPerEntry ==
    floor = (IF pubEntry = NoPub THEN 0 ELSE 1)
            + Cardinality({t \in PubThreads : pubTask[t].at = "teardown"})

\* A native binder is in the published table exactly while a parcel, the driver
\* or an operation under way needs it (publish_native, incref_publish,
\* decref_publish, ref_native_kernel and deref_native_kernel).
PublishedWhileNeeded ==
    /\ PubTypeOK /\ AcquireFindsEntry /\ EntryWhileKernelHolds
    /\ CountsExact /\ NoStrandedEntry /\ FloorPerEntry

============================================================================
