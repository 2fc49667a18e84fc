--------------------------- MODULE ServiceManager ---------------------------
(***************************************************************************)
(* rsb_hub, the service manager (rsbinder-tools/src/bin/rsb_hub.rs): the    *)
(* name registry, the registration and client callbacks, the shared death   *)
(* recipient, and the three threads that work on them.  The binder thread   *)
(* (main never starts the thread pool, so there is one) runs the calls, the *)
(* death thread sweeps the binders of its channel, the poller compares the  *)
(* kernel's strong counts with what the services were told.  One action is  *)
(* one hold of the registry lock; the callbacks collected under it are sent *)
(* afterwards, one action each.                                             *)
(***************************************************************************)
EXTENDS Integers, FiniteSets, Sequences, SequencesExt

CONSTANTS Procs,        \* the processes that call the hub
          UidOf,        \* UidOf[p]: the user a process runs as
          HubBinders,   \* the services of those processes (proxies in the hub)
          RegCbs,       \* their IServiceCallback binders
          CliCbs,       \* their IClientCallback binders
          ProcOf,       \* ProcOf[b]: the process that hosts binder b
          Registrants,  \* Registrants[b]: the processes that register service b
          SvcNames,     \* the names clients register, besides "manager"
          Sought,       \* bound: those among them that are looked up and watched
          MaxHolders,   \* bound: clients holding one service
          MaxCallbacksPerName, MaxDistinctNames,
          AllowCrossUid,
          MaxHubCalls,  \* bound: calls that reach the registry
          HubFaults     \* bound: failing kernel queries and death links

NoBinder == "no binder"
Manager == "manager"      \* the hub's own native binder and its name
HubProc == "hub"
HubNames == SvcNames \cup {Manager}
Remote == HubBinders \cup RegCbs \cup CliCbs

VARIABLES svc,          \* name_to_service
          regCb, cliCb, \* name_to_registration_callbacks, name_to_client_callbacks
          dlinks,       \* how often death_recipient is linked to a proxy
          obitSent,     \* obituary_sent of the proxy
          deadProcs,    \* processes that died
          deathQ,       \* the mpsc channel to the death thread
          holders,      \* clients holding a strong reference, as the kernel counts
          mainPend,     \* callbacks collected by the running call
          strict,       \* TRUE: the call propagates the first failing callback
          mainReply,    \* the binder the running call will hand out
          pollPend,     \* callbacks collected by the poller
          told,         \* what each client callback was told last, per name
          excused,      \* names whose callbacks missed a change or may hear it out of order
          hubFaultsLeft, callsLeft
smVars == <<svc, regCb, cliCb, dlinks, obitSent, deadProcs, deathQ, holders,
            mainPend, strict, mainReply, pollPend, told, excused, hubFaultsLeft, callsLeft>>

ServiceEntry(b, p, has) == [binder |-> b, pid |-> p, has |-> has, guarantee |-> FALSE]
NoSvc == ServiceEntry(NoBinder, NoBinder, FALSE)

\* main: the hub registers itself before it becomes the context manager.
HubInit ==
    /\ svc = [n \in HubNames |-> IF n = Manager THEN ServiceEntry(Manager, HubProc, FALSE) ELSE NoSvc]
    /\ regCb = [n \in HubNames |-> <<>>]
    /\ cliCb = [n \in HubNames |-> <<>>]
    /\ dlinks = [b \in Remote |-> 0]
    /\ obitSent = [b \in Remote |-> FALSE]
    /\ deadProcs = {}
    /\ deathQ = <<>>
    /\ holders = [b \in HubBinders |-> 0]
    /\ mainPend = <<>>
    /\ strict = FALSE
    /\ mainReply = NoBinder
    /\ pollPend = <<>>
    /\ told = [c \in CliCbs |-> [n \in HubNames |-> "nothing"]]
    /\ excused = {}
    /\ hubFaultsLeft = HubFaults
    /\ callsLeft = MaxHubCalls

-----------------------------------------------------------------------------
(* send_client_callback_notification, handle_service_client_callback.  They *)
(* work on a record of the registry and the callbacks collected so far.     *)

OnClients(c, n, has) == [kind |-> "clients", to |-> c, name |-> n, has |-> has]
OnRegistration(c, n, b) == [kind |-> "registration", to |-> c, name |-> n, binder |-> b]

\* Fault model: the entry keeps its old has_clients.
SendClientCallbackOnly(st, n, has) ==
    IF st.svc[n] = NoSvc \/ st.svc[n].has = has THEN st
    ELSE [st EXCEPT !.pend = @ \o [i \in DOMAIN st.cli[n] |-> OnClients(st.cli[n][i], n, has)]]

SendClientCallback(st, n, has) ==
    IF st.svc[n] = NoSvc \/ st.svc[n].has = has THEN st
    ELSE [st EXCEPT !.svc[n].has = has,
                    !.pend = @ \o [i \in DOMAIN st.cli[n] |-> OnClients(st.cli[n][i], n, has)]]

\* strong_ref_count_for_node: the hub's own reference, one per client, and one
\* for the transaction that carries the binder.
StrongCount(b, carried) == 1 + holders[b] + carried

\* Fault model: the guarantee is never reset.
ConsumeGuaranteeNever(st, n, kernel) ==
    IF ~st.svc[n].guarantee THEN st
    ELSE [(IF ~st.svc[n].has /\ ~kernel THEN SendClientCallback(st, n, TRUE) ELSE st)
            EXCEPT !.svc[n].has = TRUE]

ConsumeGuarantee(st, n, kernel) ==
    IF ~st.svc[n].guarantee THEN st
    ELSE [(IF ~st.svc[n].has /\ ~kernel THEN SendClientCallback(st, n, TRUE) ELSE st)
            EXCEPT !.svc[n].has = TRUE, !.svc[n].guarantee = FALSE]

\* count = 0 stands for a failed query.
HandleClientCallback(st, n, known, interval, count) ==
    IF \/ st.svc[n] = NoSvc
       \/ st.cli[n] = <<>>
       \/ st.svc[n].binder = Manager
       \/ count = 0
    THEN [st EXCEPT !.ret = TRUE]
    ELSE LET kernel == count > known
             s1 == ConsumeGuarantee(st, n, kernel)
             s2 == IF kernel /\ ~s1.svc[n].has THEN SendClientCallback(s1, n, TRUE) ELSE s1
             s3 == IF interval /\ ~kernel /\ s2.svc[n].has
                   THEN SendClientCallback(s2, n, FALSE) ELSE s2
         IN [s3 EXCEPT !.ret = s3.svc[n].has]

KnownClientsOnDemand == 2
KnownClientsPeriodic == 1

Registry == [svc |-> svc, pend |-> <<>>, ret |-> FALSE, cli |-> cliCb]

OnDemand(st, n, count) == HandleClientCallback(st, n, KnownClientsOnDemand, FALSE, count)

\* try_get_binder
TryGetBinder(n, count) ==
    LET st == OnDemand([Registry EXCEPT !.svc[n].guarantee = TRUE], n, count)
    IN [st EXCEPT !.svc[n].guarantee = TRUE]

-----------------------------------------------------------------------------
(* Bookkeeping shared by the calls *)

\* The proxy a callback arrived as is dropped with its last strong reference,
\* and its recipient list with it.
Referenced(c, reg, cli, pend, poll) ==
    \/ \E n \in HubNames : c \in ToSet(reg[n]) \cup ToSet(cli[n])
    \/ \E i \in DOMAIN pend : pend[i].to = c
    \/ \E i \in DOMAIN poll : poll[i].to = c

Pruned(links, reg, cli, pend, poll) ==
    [b \in Remote |->
        IF b \in HubBinders \/ Referenced(b, reg, cli, pend, poll) THEN links[b] ELSE 0]

MainIdle == mainPend = <<>> /\ mainReply = NoBinder

\* The binder thread takes the next call.
TakeCall == MainIdle /\ callsLeft > 0 /\ callsLeft' = callsLeft - 1

\* The names with a client callback among those collected, and the names whose
\* has_clients a step changed.
Telling(pend) == {pend[i].name : i \in {j \in DOMAIN pend : pend[j].kind = "clients"}}
Turned(st) == {n \in HubNames : svc[n].has # st.svc[n].has}

\* A change that collects no callback, and one collected while the other thread
\* still has some of the same name to send, leave the services misinformed
\* until the next change that all of them are told of.
Excuse(st, other) ==
    excused' = (excused \ Turned(st)) \cup (Turned(st) \ Telling(st.pend))
                                     \cup (Telling(st.pend) \cap Telling(other))

ProcAlive(p) == p \notin deadProcs

\* The kernel query of a call, which may fail.
Query(count) ==
    \/ count > 0 /\ UNCHANGED hubFaultsLeft
    \/ count = 0 /\ hubFaultsLeft > 0 /\ hubFaultsLeft' = hubFaultsLeft - 1

LinkFails(b) ==
    \/ obitSent[b] /\ UNCHANGED hubFaultsLeft
    \/ ~obitSent[b] /\ hubFaultsLeft > 0 /\ hubFaultsLeft' = hubFaultsLeft - 1

-----------------------------------------------------------------------------
(* The calls *)

\* getService, checkService, getService2, checkService2: the lookup is the
\* same, the reply carries the binder.
GetService(n) ==
    /\ TakeCall
    /\ svc[n] # NoSvc
    /\ LET b == svc[n].binder IN
       \E count \in {0, IF b = Manager THEN 1 ELSE StrongCount(b, 0)} :
          LET st == TryGetBinder(n, count) IN
          /\ Query(count)
          /\ svc' = st.svc
          /\ mainPend' = st.pend
          /\ mainReply' = b
          /\ Excuse(st, pollPend)
    /\ strict' = FALSE
    /\ UNCHANGED <<regCb, cliCb, dlinks, obitSent, deadProcs, deathQ, holders, pollPend, told>>

OtherNames(map, n) == {m \in HubNames \ {n} : map[m] # NoSvc}
\* Fault model: the cap is one too high.
DistinctNameCapExceededLate(used, map, n, empty) ==
    map[n] = empty /\ Cardinality(used) > MaxDistinctNames

DistinctNameCapExceeded(used, map, n, empty) ==
    map[n] = empty /\ Cardinality(used) >= MaxDistinctNames

CrossUidOverwriteRejected(n, b, p) ==
    /\ ~AllowCrossUid
    /\ svc[n].binder # b
    /\ svc[n].pid # p
    /\ svc[n].pid \notin Procs \/ UidOf[svc[n].pid] # UidOf[p]

MayAddService(n, b, p) ==
    /\ ~DistinctNameCapExceeded(OtherNames(svc, n), svc, n, NoSvc)
    /\ svc[n] # NoSvc => ~CrossUidOverwriteRejected(n, b, p)

Same(n, b) == svc[n] # NoSvc /\ svc[n].binder = b
Replaced(n, b) == IF svc[n] = NoSvc \/ Same(n, b) THEN {} ELSE {svc[n].binder} \ {Manager}

\* Link the new binder first, then unlink the one it replaces (which fails
\* harmlessly once that one's obituary was sent).
\* Fault model: the replaced binder keeps its link.
RelinkKeepingOld(n, b) == [dlinks EXCEPT ![b] = IF Same(n, b) THEN @ ELSE @ + 1]

Relink(n, b) ==
    [x \in Remote |->
        dlinks[x] + (IF x = b /\ ~Same(n, b) THEN 1 ELSE 0)
                  - (IF x \in Replaced(n, b) /\ ~obitSent[x] THEN 1 ELSE 0)]

AddService(n, b, p) ==
    /\ TakeCall /\ ProcAlive(p)
    /\ MayAddService(n, b, p)
    /\ Same(n, b) \/ ~obitSent[b]
    /\ \E count \in {0, StrongCount(b, 1)} :
       LET entry == ServiceEntry(b, p, svc[n] # NoSvc /\ svc[n].has)
           st0 == [Registry EXCEPT !.svc[n] = entry]
           st1 == IF regCb[n] = <<>> THEN st0
                  ELSE OnDemand([st0 EXCEPT !.svc[n].guarantee = TRUE], n, count)
       IN /\ IF regCb[n] = <<>> THEN count > 0 /\ UNCHANGED hubFaultsLeft ELSE Query(count)
          /\ svc' = IF regCb[n] = <<>> THEN st1.svc ELSE [st1.svc EXCEPT ![n].guarantee = TRUE]
          /\ mainPend' = st1.pend \o [i \in DOMAIN regCb[n] |-> OnRegistration(regCb[n][i], n, b)]
          /\ Excuse(st1, pollPend)
    /\ dlinks' = Relink(n, b)
    /\ strict' = (mainPend' # <<>>)
    /\ UNCHANGED <<regCb, cliCb, obitSent, deadProcs, deathQ, holders, mainReply, pollPend, told>>

\* Fault model: the replaced binder is unlinked before the new link fails.
AddServiceFailsUnlinked(n, b, p) ==
    /\ TakeCall /\ ProcAlive(p)
    /\ MayAddService(n, b, p)
    /\ ~Same(n, b)
    /\ LinkFails(b)
    /\ dlinks' = [x \in Remote |-> dlinks[x] - (IF x \in Replaced(n, b) /\ ~obitSent[x] THEN 1 ELSE 0)]
    /\ UNCHANGED <<svc, regCb, cliCb, obitSent, deadProcs, deathQ, holders,
                   mainPend, strict, mainReply, pollPend, told, excused>>

\* link_to_death fails: the call ends before anything changed.
AddServiceFails(n, b, p) ==
    /\ TakeCall /\ ProcAlive(p)
    /\ MayAddService(n, b, p)
    /\ ~Same(n, b)
    /\ LinkFails(b)
    /\ UNCHANGED <<svc, regCb, cliCb, dlinks, obitSent, deadProcs, deathQ, holders,
                   mainPend, strict, mainReply, pollPend, told, excused>>

AlreadyLinked(map, c) == \E n \in HubNames : Contains(map[n], c)

\* Fault model: the same name only is searched for an earlier link.
LinkOnceSameName(map, n, c) == dlinks[c] + (IF Contains(map[n], c) THEN 0 ELSE 1)

LinkOnce(map, n, c) == dlinks[c] + (IF AlreadyLinked(map, c) THEN 0 ELSE 1)

Listed(map) == {n \in HubNames : map[n] # <<>>}
MayStore(map, n, c) ==
    /\ ~Contains(map[n], c)
    /\ Len(map[n]) < MaxCallbacksPerName
    /\ ~DistinctNameCapExceeded(Listed(map), map, n, <<>>)
    /\ AlreadyLinked(map, c) \/ ~obitSent[c]

RegisterForNotifications(n, c) ==
    /\ TakeCall /\ ProcAlive(ProcOf[c])
    /\ MayStore(regCb, n, c)
    /\ regCb' = [regCb EXCEPT ![n] = Append(@, c)]
    /\ dlinks' = [dlinks EXCEPT ![c] = LinkOnce(regCb, n, c)]
    /\ mainPend' = IF svc[n] = NoSvc THEN <<>> ELSE <<OnRegistration(c, n, svc[n].binder)>>
    /\ strict' = FALSE
    /\ UNCHANGED <<svc, cliCb, obitSent, deadProcs, deathQ, holders, mainReply,
                   pollPend, told, excused, hubFaultsLeft>>

\* remove_registration_callback: from one name (unregister) or from all (death).
Without(seq, c) == SelectSeq(seq, LAMBDA x : x # c)

UnregisterForNotifications(n, c) ==
    /\ TakeCall /\ ProcAlive(ProcOf[c])
    /\ Contains(regCb[n], c)
    /\ regCb' = [regCb EXCEPT ![n] = Without(@, c)]
    /\ dlinks' = Pruned(dlinks, regCb', cliCb, <<>>, pollPend)
    /\ UNCHANGED <<svc, cliCb, obitSent, deadProcs, deathQ, holders, mainPend, strict,
                   mainReply, pollPend, told, excused, hubFaultsLeft>>

\* The caller must be the registrant and name the binder that is registered.
OwnedBy(n, b, p) == svc[n] # NoSvc /\ svc[n].pid = p /\ svc[n].binder = b

RegisterClientCallback(n, b, c) ==
    /\ TakeCall /\ ProcAlive(ProcOf[c])
    /\ OwnedBy(n, b, ProcOf[c])
    /\ MayStore(cliCb, n, c)
    /\ dlinks' = [dlinks EXCEPT ![c] = LinkOnce(cliCb, n, c)]
    /\ cliCb' = [cliCb EXCEPT ![n] = Append(@, c)]
    /\ \E count \in {0, StrongCount(b, 1)} :
       LET first == IF svc[n].has THEN <<OnClients(c, n, TRUE)>> ELSE <<>>
           st == OnDemand([Registry EXCEPT !.pend = first, !.cli = cliCb'], n, count)
       IN /\ Query(count)
          /\ svc' = st.svc
          /\ mainPend' = st.pend
          /\ Excuse(st, pollPend)
    /\ strict' = FALSE
    /\ UNCHANGED <<regCb, obitSent, deadProcs, deathQ, holders, mainReply, pollPend, told>>

\* Fault model: the answer of handle_service_client_callback is not looked at.
UnregisterRefusedNever(st) == FALSE

UnregisterRefused(st) == st.ret

\* tryUnregisterService
TryUnregisterService(n, b, p) ==
    /\ TakeCall /\ ProcAlive(p)
    /\ OwnedBy(n, b, p)
    /\ ~svc[n].guarantee
    /\ \E count \in {0, StrongCount(b, 1)} :
       LET st == OnDemand(Registry, n, count) IN
       /\ Query(count)
       /\ mainPend' = st.pend
       /\ Excuse(st, pollPend)
       /\ IF UnregisterRefused(st)
          THEN svc' = [st.svc EXCEPT ![n].guarantee = TRUE] /\ UNCHANGED dlinks
          ELSE /\ svc' = [st.svc EXCEPT ![n] = NoSvc]
               /\ dlinks' = [dlinks EXCEPT ![b] = IF obitSent[b] THEN @ ELSE @ - 1]
    /\ strict' = FALSE
    /\ UNCHANGED <<regCb, cliCb, obitSent, deadProcs, deathQ, holders, mainReply, pollPend, told>>

-----------------------------------------------------------------------------
(* fire_pending, fire_pending_propagate *)

ToldOf(has) == IF has THEN "clients" ELSE "no clients"

\* Handing out a binder gives the receiver a reference the kernel counts.
HandOut(b) ==
    holders' = [x \in HubBinders |-> IF x = b /\ holders[x] < MaxHolders
                                     THEN holders[x] + 1 ELSE holders[x]]

Deliver(m) ==
    IF m.kind = "registration" THEN HandOut(m.binder) /\ UNCHANGED told
    ELSE told' = [told EXCEPT ![m.to][m.name] = ToldOf(m.has)] /\ UNCHANGED holders

\* A callback to a dead process fails: logged and skipped, or the end of
\* addService's round.
FireMain ==
    /\ mainPend # <<>>
    /\ LET m == Head(mainPend) IN
       IF ProcAlive(ProcOf[m.to])
       THEN Deliver(m) /\ mainPend' = Tail(mainPend)
       ELSE /\ mainPend' = IF strict /\ m.kind = "registration" THEN <<>> ELSE Tail(mainPend)
            /\ UNCHANGED <<holders, told>>
    /\ strict' = (strict /\ mainPend' # <<>>)
    /\ dlinks' = Pruned(dlinks, regCb, cliCb, mainPend', pollPend)
    /\ UNCHANGED <<svc, regCb, cliCb, obitSent, deadProcs, deathQ,
                   mainReply, pollPend, excused, hubFaultsLeft, callsLeft>>

FirePoll ==
    /\ pollPend # <<>>
    /\ LET m == Head(pollPend) IN
       IF ProcAlive(ProcOf[m.to]) THEN Deliver(m) ELSE UNCHANGED <<holders, told>>
    /\ pollPend' = Tail(pollPend)
    /\ dlinks' = Pruned(dlinks, regCb, cliCb, mainPend, pollPend')
    /\ UNCHANGED <<svc, regCb, cliCb, obitSent, deadProcs, deathQ, mainPend, strict,
                   mainReply, excused, hubFaultsLeft, callsLeft>>

\* The reply reaches the driver: the client now holds a counted reference.
SendReply ==
    /\ mainPend = <<>> /\ mainReply # NoBinder
    /\ HandOut(mainReply)
    /\ mainReply' = NoBinder
    /\ UNCHANGED <<svc, regCb, cliCb, dlinks, obitSent, deadProcs, deathQ, mainPend,
                   strict, pollPend, told, excused, hubFaultsLeft, callsLeft>>

-----------------------------------------------------------------------------
(* The poller, the death recipient and the death thread; the clients *)

\* Services whose strong count the poller asks the kernel for.
Watched(n) == svc[n] # NoSvc /\ svc[n].binder \in HubBinders /\ cliCb[n] # <<>>

PollName(n, st) ==
    HandleClientCallback(st, n, KnownClientsPeriodic, TRUE, StrongCount(svc[n].binder, 0))

\* One round; for the names in failed the query fails, and nothing changes.
Poll ==
    /\ pollPend = <<>>
    /\ \E failed \in SUBSET {n \in HubNames : Watched(n)} :
       LET st == FoldSet(PollName, Registry, {n \in HubNames : Watched(n)} \ failed) IN
       /\ Cardinality(failed) <= hubFaultsLeft
       /\ hubFaultsLeft' = hubFaultsLeft - Cardinality(failed)
       /\ svc' = st.svc
       /\ pollPend' = st.pend
       /\ Excuse(st, mainPend)
    /\ UNCHANGED <<regCb, cliCb, dlinks, obitSent, deadProcs, deathQ, holders, mainPend,
                   strict, mainReply, told, callsLeft>>

\* binder_died, once per link.
Obituary(b) ==
    /\ ~ProcAlive(ProcOf[b]) /\ ~obitSent[b]
    /\ dlinks[b] > 0
    /\ obitSent' = [obitSent EXCEPT ![b] = TRUE]
    /\ deathQ' = deathQ \o [i \in 1..dlinks[b] |-> b]
    /\ dlinks' = [dlinks EXCEPT ![b] = 0]
    /\ UNCHANGED <<svc, regCb, cliCb, deadProcs, holders, mainPend, strict, mainReply,
                   pollPend, told, excused, hubFaultsLeft, callsLeft>>

\* run_death_receiver
Sweep ==
    /\ deathQ # <<>>
    /\ LET who == Head(deathQ) IN
       /\ svc' = [n \in HubNames |-> IF Same(n, who) THEN NoSvc ELSE svc[n]]
       /\ regCb' = [n \in HubNames |-> Without(regCb[n], who)]
       /\ cliCb' = [n \in HubNames |-> Without(cliCb[n], who)]
       /\ excused' = excused \cup {n \in HubNames : Same(n, who) /\ svc[n].has}
    /\ deathQ' = Tail(deathQ)
    /\ dlinks' = Pruned(dlinks, regCb', cliCb', mainPend, pollPend)
    /\ UNCHANGED <<obitSent, deadProcs, holders, mainPend, strict, mainReply, pollPend,
                   told, hubFaultsLeft, callsLeft>>

ProcDies(p) ==
    /\ ProcAlive(p)
    /\ deadProcs' = deadProcs \cup {p}
    /\ UNCHANGED <<svc, regCb, cliCb, dlinks, obitSent, deathQ, holders, mainPend, strict,
                   mainReply, pollPend, told, excused, hubFaultsLeft, callsLeft>>

ClientReleases(b) ==
    /\ holders[b] > 0
    /\ holders' = [holders EXCEPT ![b] = @ - 1]
    /\ UNCHANGED <<svc, regCb, cliCb, dlinks, obitSent, deadProcs, deathQ, mainPend, strict,
                   mainReply, pollPend, told, excused, hubFaultsLeft, callsLeft>>

HubWorks == FireMain \/ FirePoll \/ SendReply \/ Sweep \/ \E b \in Remote : Obituary(b)

HubNext ==
    \/ HubWorks \/ Poll
    \/ \E n \in Sought :
         \/ GetService(n)
         \/ \E c \in RegCbs : RegisterForNotifications(n, c) \/ UnregisterForNotifications(n, c)
         \/ \E b \in HubBinders, c \in CliCbs : RegisterClientCallback(n, b, c)
    \/ \E n \in SvcNames, b \in HubBinders : \E p \in Registrants[b] :
         AddService(n, b, p) \/ AddServiceFails(n, b, p) \/ TryUnregisterService(n, b, p)
    \/ \E p \in Procs : ProcDies(p)
    \/ \E b \in HubBinders : ClientReleases(b)

HubSpec == HubInit /\ [][HubNext]_smVars
-----------------------------------------------------------------------------
(* Properties *)

Listeds(b) ==
    \/ \E n \in HubNames : Same(n, b)
    \/ AlreadyLinked(regCb, b) \/ AlreadyLinked(cliCb, b)

\* Every binder in the registry will be swept out when its process dies: a
\* live proxy carries the hub's death link, and one whose obituary was sent is
\* still in the channel to the death thread.  addService's link-before-unlink,
\* the link skipped for a binder already known, and a link or a registration
\* that comes while the obituary is on its way must all keep it so.
SweepComing ==
    \A b \in Remote : Listeds(b) => IF obitSent[b] THEN Contains(deathQ, b) ELSE dlinks[b] > 0

\* A live service carries one death link per name it is registered under, and
\* a callback at most one however many names list it: replaced, re-registered
\* and unregistered binders leave no subscription behind.
LinksExact ==
    /\ \A b \in HubBinders : ~obitSent[b] => dlinks[b] = Cardinality({n \in HubNames : Same(n, b)})
    /\ \A c \in RegCbs \cup CliCbs : dlinks[c] <= 1

\* With nothing left to send, every live client callback was last told what
\* the hub believes about its service.  A change for which no callback was
\* collected (a guarantee consumed while the kernel reports clients, a service
\* swept) and callbacks of one service that both threads were sending at once
\* may leave it misinformed, but only until the next change: that one is told
\* to everyone and puts it right.
ToldMatches ==
    \A n \in HubNames \ excused : \A c \in ToSet(cliCb[n]) :
        (mainPend = <<>> /\ pollPend = <<>> /\ svc[n] # NoSvc /\ ProcAlive(ProcOf[c]))
            => told[c][n] = ToldOf(svc[n].has) \/ (told[c][n] = "nothing" /\ ~svc[n].has)

\* tryUnregisterService takes a live service off its name only when the kernel
\* knows of no client, and never between a lookup and the client's reference.
UnregisterOnlyIdle ==
    [][\A n \in HubNames :
         (svc[n] # NoSvc /\ svc'[n] = NoSvc /\ deathQ' = deathQ)
            => holders[svc[n].binder] = 0 /\ mainReply = NoBinder]_smVars

\* One round of the poller settles a watched service, whatever guarantees and
\* notifications were outstanding: has_clients is what the kernel reports and
\* no guarantee is left to raise it again, so a lazy service nobody holds is
\* free to go and the next round does not take the answer back.  A query that
\* fails leaves the entry as it was.
PollerSettles ==
    [][Poll => \A n \in SvcNames : Watched(n) =>
         \/ svc'[n].has = (holders[svc[n].binder] > 0) /\ ~svc'[n].guarantee
         \/ svc'[n] = svc[n] /\ hubFaultsLeft' < hubFaultsLeft]_smVars

\* However names are added, replaced, unregistered and swept, none of the maps
\* ever holds more of them than the cap.
NamesBounded ==
    /\ Cardinality({n \in HubNames : svc[n] # NoSvc}) <= MaxDistinctNames
    /\ Cardinality(Listed(regCb)) <= MaxDistinctNames
    /\ Cardinality(Listed(cliCb)) <= MaxDistinctNames

\* The hub's registry and what it told others stay true to the processes and
\* the references behind them (addService, tryUnregisterService, binder_died
\* and the client-callback poller of rsb_hub.rs).
HubSafe == [](SweepComing /\ LinksExact /\ ToldMatches /\ NamesBounded) /\ UnregisterOnlyIdle /\ PollerSettles
=============================================================================
