---------------------------- MODULE ServiceLookup ----------------------------
(***************************************************************************)
(* How a client finds a service: the process-wide service manager proxy      *)
(* (hub::default), the lookups and the unbounded wait_for_service of         *)
(* rsbinder/src/hub/mod.rs, their Android 16 and Android 10 wire variants,   *)
(* and the accessor bridge with its process-local provider registry          *)
(* (accessor_16.rs, accessor_register.rs).  One service name is looked up.   *)
(* Of the service manager only the entry behind that name and the callbacks  *)
(* on it are kept; it may become unreachable, and does not come back.        *)
(***************************************************************************)
EXTENDS Integers, FiniteSets, Sequences

CONSTANTS Seekers,       \* the client threads, numbered in the order they first call
          SvcBinders,    \* the binders that may be registered under the name
          Providers,     \* the accessor providers of this process
          LegacyRetries, \* RETRIES of the Android 10 get_service
          MaxSeeks,      \* bound: lookups and waits
          MaxLookupOps   \* bound: changes of the services and the providers

ASSUME LookupAssumption ==
    /\ Seekers \subseteq Nat \ {0}
    /\ SvcBinders \cap {"nothing", "none", "pending", "accessor", "root", "provider"} = {}
    /\ LegacyRetries \in Nat /\ MaxSeeks \in Nat /\ MaxLookupOps \in Nat

VARIABLES legacy,      \* the Android 10 service manager?
          pool,        \* is a binder thread reading commands (start_thread_pool)?
          smUp, smSvc, \* the service manager: is it reachable, its entry
          smCallbacks, \* and its registration callbacks: <<seeker, gen>>
          onReg,       \* onRegistration transactions on their way: <<seeker, gen, binder>>
          globalSm,    \* GLOBAL_SM: 0, or the seeker whose instance was stored
          smOf,        \* smOf[s]: the instance default() returned to s
          seek, gen,   \* where each seeker stands, in which of its calls
          call,        \* "wait", "check" or "get"
          tries,       \* attempts left of the Android 10 get_service
          polling,     \* is the wait in poll_for_service?
          slot,        \* WaiterState.inner of the current wait
          found,       \* what the call returned
          registry,    \* REGISTRY: [instances, provider]
          snapshot,    \* the providers a fallback lookup cloned under the lock
          seen,        \* history: what stood behind the name during the call
          lost,        \* history: the call met an unreachable service manager
          seeksLeft, opsLeft
lookupVars == <<legacy, pool, smUp, smSvc, smCallbacks, onReg, globalSm, smOf, seek, gen, call, tries,
                polling, slot, found, registry, snapshot, seen, lost, seeksLeft, opsLeft>>
\* Variables only the environment changes, and those a lookup's answer leaves alone.
envVars == <<legacy, pool, smUp, smSvc, registry, opsLeft>>
idVars == <<globalSm, smOf, gen, call, seen, seeksLeft>>

Nothing == "nothing"
TheName == "the name"
OtherName == "another name"

LookupStart(old, threads) ==
    /\ legacy = old /\ pool = threads
    /\ smUp = TRUE /\ smSvc = Nothing /\ smCallbacks = {} /\ onReg = {}
    /\ globalSm = 0 /\ smOf = [s \in Seekers |-> 0]
    /\ seek = [s \in Seekers |-> "done"] /\ gen = [s \in Seekers |-> 0]
    /\ call = [s \in Seekers |-> "check"]
    /\ tries = [s \in Seekers |-> 0]
    /\ polling = [s \in Seekers |-> FALSE]
    /\ slot = [s \in Seekers |-> Nothing]
    /\ found = [s \in Seekers |-> "none"]
    /\ registry = {} /\ snapshot = [s \in Seekers |-> {}]
    /\ seen = [s \in Seekers |-> {}] /\ lost = [s \in Seekers |-> FALSE]
    /\ seeksLeft = MaxSeeks /\ opsLeft = MaxLookupOps

LookupInit == \E old, threads \in BOOLEAN : LookupStart(old, threads)

Moves(s, from, to) == seek[s] = from /\ seek' = [seek EXCEPT ![s] = to]

-----------------------------------------------------------------------------
(* default() *)

Provided(name) == \E e \in registry : name \in e.instances

Standing == {smSvc} \cup (IF Provided(TheName) THEN {"provider"} ELSE {})

\* A call begins: a fresh WaiterState; a cached instance is returned at once,
\* otherwise the context object is fetched, and a failure is not cached.
BeginSeek(s) ==
    /\ \A t \in Seekers : t < s => gen[t] > 0
    /\ seeksLeft > 0 /\ seeksLeft' = seeksLeft - 1
    /\ gen' = [gen EXCEPT ![s] = @ + 1]
    /\ \E c \in {"wait", "check"} \cup (IF legacy THEN {"get"} ELSE {}) :
         /\ call' = [call EXCEPT ![s] = c]
         /\ tries' = [tries EXCEPT ![s] = IF c = "get" THEN LegacyRetries ELSE 0]
    /\ polling' = [polling EXCEPT ![s] = FALSE]
    /\ slot' = [slot EXCEPT ![s] = Nothing]
    /\ seen' = [seen EXCEPT ![s] = Standing]
    /\ LET reachable == globalSm # 0 \/ smUp
       IN /\ Moves(s, "done", IF globalSm # 0 THEN "ask" ELSE IF smUp THEN "install" ELSE "done")
          /\ found' = [found EXCEPT ![s] = IF reachable THEN "pending" ELSE "none"]
          /\ lost' = [lost EXCEPT ![s] = ~reachable]
    /\ smOf' = [smOf EXCEPT ![s] = globalSm]
    /\ UNCHANGED <<envVars, smCallbacks, onReg, globalSm, snapshot>>

\* Fault model: the loser of the race overwrites the winner's instance.
StoreLast(s) == s

\* get_or_init: the first instance stored wins, the loser's own is dropped.
StoreOnce(s) == IF globalSm = 0 THEN s ELSE globalSm

InstallDefault(s) ==
    /\ Moves(s, "install", "ask")
    /\ globalSm' = StoreOnce(s)
    /\ smOf' = [smOf EXCEPT ![s] = globalSm']
    /\ UNCHANGED <<envVars, smCallbacks, onReg, gen, call, tries, polling, slot, found, snapshot, seen, lost, seeksLeft>>

-----------------------------------------------------------------------------
(* What a lookup's answer does to the call it is made for *)

Returns(s, value, to) ==
    /\ found' = [found EXCEPT ![s] = value]
    /\ seek' = [seek EXCEPT ![s] = to]
    /\ UNCHANGED tries

Registered(s) == <<s, gen[s]>> \in smCallbacks

\* A wait whose callback is registered ends through UnregisterOnDrop.
Ends(s) == IF Registered(s) THEN "unregister" ELSE "done"

Found(s, binder) == Returns(s, binder, Ends(s))

\* Fault model: a wait that is not told of the service gives up.
KeepWaitingFault(s) == Returns(s, "none", Ends(s))

KeepWaiting(s) ==
    /\ seek' = [seek EXCEPT ![s] = IF Registered(s) THEN "wait" ELSE IF polling[s] THEN "ask" ELSE "register"]
    /\ UNCHANGED <<found, tries>>

\* "Not registered": a check or an exhausted get answers None, a wait goes on.
NotFound(s) ==
    \/ call[s] = "wait" /\ KeepWaiting(s)
    \/ call[s] # "wait" /\ tries[s] = 0 /\ Returns(s, "none", "done")
    \/ /\ call[s] # "wait" /\ tries[s] > 0
       /\ tries' = [tries EXCEPT ![s] = @ - 1]
       /\ seek' = [seek EXCEPT ![s] = "ask"]
       /\ UNCHANGED found

\* A transport failure ends the call; the Android 10 service manager cannot
\* tell it from "not registered".
Unreachable(s) == IF legacy THEN NotFound(s) ELSE Returns(s, "none", Ends(s))

-----------------------------------------------------------------------------
(* getService2, checkService2 and dispatch_typed_service *)

\* No binder behind the name, or an accessor without a root:
\* try_process_local_fallback.
Fallback(s) == seek' = [seek EXCEPT ![s] = "fallback"] /\ UNCHANGED <<found, tries>>

\* resolve_accessor: cast, getInstanceName, addConnection, handshake and
\* get_root; whichever step fails, the answer is the fallback's.
ResolveAccessor(s) == Found(s, "root") \/ Fallback(s)

DispatchTypedService(s) ==
    \/ smSvc \in SvcBinders /\ Found(s, smSvc)
    \/ smSvc = Nothing /\ Fallback(s)
    \/ smSvc = "accessor" /\ ResolveAccessor(s)

\* The Android 10 wire: GET_SERVICE and CHECK_SERVICE know binders only.
AskLegacy(s) == IF smSvc \in SvcBinders THEN Found(s, smSvc) ELSE NotFound(s)

AskManager(s) ==
    /\ seek[s] = "ask"
    /\ lost' = [lost EXCEPT ![s] = @ \/ ~smUp]
    /\ \/ ~smUp /\ Unreachable(s)
       \/ smUp /\ legacy /\ AskLegacy(s)
       \/ smUp /\ ~legacy /\ DispatchTypedService(s)
    /\ UNCHANGED <<envVars, idVars, smCallbacks, onReg, polling, slot, snapshot>>

\* lookup_accessor_provider: the matching providers are cloned under the lock.
SnapshotProviders(s) ==
    /\ Moves(s, "fallback", "provide")
    /\ snapshot' = [snapshot EXCEPT ![s] = {e.provider : e \in {x \in registry : TheName \in x.instances}}]
    /\ UNCHANGED <<envVars, idVars, smCallbacks, onReg, tries, polling, slot, found, lost>>

\* The providers run outside the lock; the first accessor they return is
\* resolved, which may fail.
CallProviders(s) ==
    /\ seek[s] = "provide"
    /\ snapshot' = [snapshot EXCEPT ![s] = {}]
    /\ \/ snapshot[s] # {} /\ Found(s, "provider")
       \/ NotFound(s)
    /\ UNCHANGED <<envVars, idVars, smCallbacks, onReg, polling, slot, lost>>

-----------------------------------------------------------------------------
(* The wait *)

\* register_for_notifications; the service manager answers at once with what
\* it has under the name, an accessor included.  Without notifications the
\* wait polls.
RegisterWaiter(s) ==
    /\ IF legacy \/ ~smUp
       THEN /\ Moves(s, "register", "ask")
            /\ polling' = [polling EXCEPT ![s] = TRUE]
            /\ UNCHANGED <<smCallbacks, onReg>>
       ELSE /\ Moves(s, "register", "wait")
            /\ smCallbacks' = smCallbacks \cup {<<s, gen[s]>>}
            /\ onReg' = onReg \cup (IF smSvc = Nothing THEN {} ELSE {<<s, gen[s], smSvc>>})
            /\ UNCHANGED polling
    /\ UNCHANGED <<envVars, idVars, tries, slot, found, snapshot, lost>>

\* Fault model: a thread's waits share one WaiterState.
SlotShared(s, g) == TRUE

\* The callback holds the state of its own wait; a late one fills a state
\* nobody waits on any more.
SlotOf(s, g) == g = gen[s]

\* onRegistration on a binder thread: store the binder as it is, notify_one.
WaiterNotified(s) ==
    /\ pool
    /\ \E m \in onReg :
         /\ m[1] = s
         /\ onReg' = onReg \ {m}
         /\ slot' = IF SlotOf(s, m[2]) THEN [slot EXCEPT ![s] = m[3]] ELSE slot
    /\ UNCHANGED <<envVars, idVars, smCallbacks, seek, tries, polling, found, snapshot, lost>>

\* The condition variable's wait ends with a binder.
Woken(s) ==
    /\ seek[s] = "wait" /\ slot[s] # Nothing
    /\ Returns(s, slot[s], "unregister")
    /\ UNCHANGED <<envVars, idVars, smCallbacks, onReg, polling, slot, snapshot, lost>>

\* Fault model: the wait relies on onRegistration alone.
TickNever(s) == FALSE /\ UNCHANGED lookupVars

\* It ends without one after a second: ask again.
Tick(s) ==
    /\ slot[s] = Nothing
    /\ Moves(s, "wait", "ask")
    /\ UNCHANGED <<envVars, idVars, smCallbacks, onReg, tries, polling, slot, found, snapshot, lost>>

\* Fault model: a wait ended by a poll leaves its callback behind.
WithdrawWoken(s) == IF slot[s] # Nothing THEN smCallbacks \ {<<s, gen[s]>>} ELSE smCallbacks

\* UnregisterOnDrop; its error is ignored.
Withdraw(s) == IF smUp THEN smCallbacks \ {<<s, gen[s]>>} ELSE smCallbacks

EndWait(s) ==
    /\ Moves(s, "unregister", "done")
    /\ smCallbacks' = Withdraw(s)
    /\ UNCHANGED <<envVars, idVars, onReg, tries, polling, slot, found, snapshot, lost>>

-----------------------------------------------------------------------------
(* The provider registry *)

seekVars == <<legacy, pool, smUp, smSvc, smCallbacks, onReg, globalSm, smOf, seek, gen, call, tries,
              polling, slot, found, snapshot, lost, seeksLeft>>

Witnessed == seen' = [s \in Seekers |-> IF seek[s] = "done" THEN seen[s] ELSE seen[s] \cup Standing']

\* add_accessor_provider: an empty set and a name already provided are refused.
AddProvider(p, instances) ==
    /\ opsLeft > 0 /\ opsLeft' = opsLeft - 1
    /\ instances # {} /\ \A i \in instances : ~Provided(i)
    /\ registry' = registry \cup {[instances |-> instances, provider |-> p]}
    /\ UNCHANGED seekVars
    /\ Witnessed

\* remove_accessor_provider, or the drop of its handle.
RemoveProvider(p) ==
    /\ opsLeft > 0 /\ opsLeft' = opsLeft - 1
    /\ registry' = {e \in registry : e.provider # p}
    /\ registry' # registry
    /\ UNCHANGED seekVars
    /\ Witnessed

-----------------------------------------------------------------------------
(* The service manager *)

clientVars == <<legacy, pool, smCallbacks, globalSm, smOf, seek, gen, call, tries,
                polling, slot, found, registry, snapshot, lost, seeksLeft>>

\* addService: every callback on the name is told of the binder, whether it is
\* the service or an accessor to it, and also when it was there already.
RegisterSvc(b) ==
    /\ smUp /\ opsLeft > 0 /\ (b = "accessor" => ~legacy)
    /\ opsLeft' = opsLeft - 1
    /\ smSvc' = b
    /\ onReg' = onReg \cup {<<w[1], w[2], b>> : w \in smCallbacks}
    /\ UNCHANGED <<clientVars, smUp>>
    /\ Witnessed

SvcLeaves ==
    /\ smUp /\ opsLeft > 0 /\ smSvc # Nothing
    /\ opsLeft' = opsLeft - 1
    /\ smSvc' = Nothing
    /\ UNCHANGED <<clientVars, smUp, onReg, seen>>

SmDies ==
    /\ smUp /\ smUp' = FALSE
    /\ UNCHANGED <<clientVars, smSvc, onReg, seen, opsLeft>>

-----------------------------------------------------------------------------
SeekStep(s) ==
    \/ InstallDefault(s) \/ AskManager(s) \/ SnapshotProviders(s) \/ CallProviders(s)
    \/ RegisterWaiter(s) \/ Woken(s) \/ Tick(s) \/ EndWait(s)

LookupNext ==
    \/ \E s \in Seekers : BeginSeek(s) \/ SeekStep(s) \/ WaiterNotified(s)
    \/ \E p \in Providers, n \in {TheName, OtherName} : AddProvider(p, {n})
    \/ \E p \in Providers : RemoveProvider(p)
    \/ \E b \in SvcBinders \cup {"accessor"} : RegisterSvc(b)
    \/ SvcLeaves \/ SmDies

\* A seeker's thread keeps running: its calls return and its timeout expires.
\* Nothing is assumed of the binder threads that deliver onRegistration.
SeekFairness == \A s \in Seekers : WF_lookupVars(SeekStep(s))

LookupSpec == LookupInit /\ [][LookupNext]_lookupVars /\ SeekFairness

-----------------------------------------------------------------------------
(* Properties *)

\* A binder a call returns stood behind the name at some instant of that call:
\* a notification that arrives after its wait has ended, a service replaced or
\* gone in between, or a provider removed while its closure runs never make a
\* later call return an older answer.  The root of a session stands for the
\* accessor that led to it.
Behind(answer) == IF answer = "root" THEN "accessor" ELSE answer

FoundWasThere ==
    \A s \in Seekers : found[s] \notin {"none", "pending"} => Behind(found[s]) \in seen[s]

\* Every lookup follows an accessor to the root of its session: the accessor
\* itself leaves the library only through a wait that onRegistration woke.
AccessorsFollowed ==
    \A s \in Seekers : found[s] = "accessor" => call[s] = "wait" /\ slot[s] # Nothing

\* wait_for_service answers None only after a lookup met an unreachable
\* service manager; on Android 10, only when default() could not even reach it.
NoneMeansUnreachable ==
    \A s \in Seekers : call[s] = "wait" /\ found[s] = "none" =>
        lost[s] /\ (legacy => smOf[s] = 0)

\* No callback of a finished wait stays with a reachable service manager,
\* whichever of notification and re-poll ended it (UnregisterOnDrop).
WaitersWithdrawn ==
    smUp => \A s \in Seekers, g \in 1..MaxSeeks :
              <<s, g>> \in smCallbacks => g = gen[s] /\ seek[s] # "done"

\* Whatever threads race in default(), they are all handed the same instance.
OneServiceManager ==
    \A s, t \in Seekers : smOf[s] # 0 /\ smOf[t] # 0 => smOf[s] = smOf[t]

\* Lookups and waits are answered from the service manager as it was during
\* the call and leave nothing behind in it (check_service, wait_for_service and
\* default of hub/mod.rs).
LookupsHonest ==
    /\ FoundWasThere /\ AccessorsFollowed /\ NoneMeansUnreachable
    /\ WaitersWithdrawn /\ OneServiceManager

\* Once the service stays registered a wait returns, without a thread pool and
\* on Android 10 too: the re-poll stands in for a notification never delivered.
WaitResolves ==
    <>[](smSvc \in SvcBinders /\ smUp) => []<>(\A s \in Seekers : seek[s] = "done")
=============================================================================
