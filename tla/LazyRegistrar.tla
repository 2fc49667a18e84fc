---------------------------- MODULE LazyRegistrar ----------------------------
(***************************************************************************)
(* The bookkeeping of lazily managed services (rsbinder/src/lazy_service.rs) *)
(* shared by the threads that deliver onClients and those that try to shut    *)
(* the process down.  force_persist is an atomic outside the registrar's      *)
(* mutex, so try_unregister is two steps.                                    *)
(***************************************************************************)
EXTENDS Integers

CONSTANTS LazyNames,   \* service names
          LazyThreads, \* callers of try_unregister
          LazyAbsent   \* the entry of a name not registered

ASSUME LazyAssumption == LazyAbsent \notin [clients : BOOLEAN, registered : BOOLEAN]

VARIABLES services,     \* name -> [clients, registered], or LazyAbsent
          persist,      \* force_persist
          leaving,      \* per thread: "idle", "checked" (flag read, lock not taken), "exit"
          toldIdle      \* history: names told onClients(false) since their last registration
lazyVars == <<services, persist, leaving, toldIdle>>

LazyInit ==
    /\ services = [n \in LazyNames |-> LazyAbsent]
    /\ persist = FALSE
    /\ leaving = [t \in LazyThreads |-> "idle"]
    /\ toldIdle = {}

Tracked == {n \in LazyNames : services[n] # LazyAbsent}
Fresh == [clients |-> TRUE, registered |-> TRUE]

\* register_service: a client may already hold the binder.
RegisterService(n) ==
    /\ services' = [services EXCEPT ![n] = Fresh]
    /\ toldIdle' = toldIdle \ {n}
    /\ UNCHANGED <<persist, leaving>>

ForcePersist(on) ==
    /\ persist' = on
    /\ UNCHANGED <<services, leaving, toldIdle>>

\* on_clients: an unknown name is ignored.
LazyOnClients(n, clients) ==
    /\ n \in Tracked
    /\ services' = [services EXCEPT ![n].clients = clients]
    /\ toldIdle' = IF clients THEN toldIdle \ {n} ELSE toldIdle \cup {n}
    /\ UNCHANGED <<persist, leaving>>

\* try_unregister up to the lock.
CheckPersist(t) ==
    /\ leaving[t] # "checked"
    /\ leaving' = [leaving EXCEPT ![t] = IF persist THEN "idle" ELSE "checked"]
    /\ UNCHANGED <<services, persist, toldIdle>>

\* Fault model: each service without clients is unregistered on its own.
MayFlipAlone(n) == ~services[n].clients

\* All or nothing: one service with clients keeps them all.
MayFlip(n) == \A m \in Tracked : ~services[m].clients

\* Under the lock; a registrar without services never answers TRUE.
LazyTryUnregister(t) ==
    /\ leaving[t] = "checked"
    /\ LET flipped == {n \in Tracked : MayFlip(n)}
       IN /\ services' = [n \in LazyNames |->
                IF n \in flipped THEN [services[n] EXCEPT !.registered = FALSE] ELSE services[n]]
          /\ leaving' = [leaving EXCEPT ![t] = IF flipped # {} THEN "exit" ELSE "idle"]
    /\ UNCHANGED <<persist, toldIdle>>

\* re_register: every unregistered service again assumes a client.
ReRegister ==
    /\ services' = [n \in LazyNames |->
         IF n \in Tracked /\ ~services[n].registered THEN Fresh ELSE services[n]]
    /\ toldIdle' = {n \in toldIdle : services[n].registered}
    /\ UNCHANGED <<persist, leaving>>

LazyNext ==
    \/ \E n \in LazyNames : RegisterService(n) \/ \E c \in BOOLEAN : LazyOnClients(n, c)
    \/ \E on \in BOOLEAN : ForcePersist(on)
    \/ \E t \in LazyThreads : CheckPersist(t) \/ LazyTryUnregister(t)
    \/ ReRegister

LazySpec == LazyInit /\ [][LazyNext]_lazyVars

-----------------------------------------------------------------------------
(* Properties *)

\* try_unregister answers "safe to exit" only at an instant when every tracked
\* service has been told, since it was last registered, that it has no clients,
\* and then none of them stays registered, whatever other threads register,
\* re-register or report in between.
ExitOnlyIdle ==
    [][\A t \in LazyThreads : leaving[t] = "checked" /\ leaving'[t] = "exit"
         => /\ Tracked # {} /\ Tracked \subseteq toldIdle
            /\ \A n \in Tracked : ~services'[n].registered]_lazyVars
=============================================================================
