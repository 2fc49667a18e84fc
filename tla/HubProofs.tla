------------------------------ MODULE HubProofs ------------------------------
(***************************************************************************)
(* Proofs about services and the references to them: the lazy service       *)
(* registrar, the client's lookups and the books an RPC session keeps of    *)
(* what it sent.                                                            *)
(***************************************************************************)
EXTENDS LazyRegistrar, ServiceLookup, RpcRefs, TLAPS

-----------------------------------------------------------------------------
(* LazyRegistrar *)

LazyEntry == [clients : BOOLEAN, registered : BOOLEAN]

\* A service that counts as idle was told so since its last registration.
IdleWasTold ==
    \A n \in LazyNames : services[n] = LazyAbsent \/ services[n].clients \/ n \in toldIdle

LazyInv ==
    /\ services \in [LazyNames -> LazyEntry \cup {LazyAbsent}]
    /\ leaving \in [LazyThreads -> {"idle", "checked", "exit"}]
    /\ IdleWasTold

\* The entry a registration leaves, and what an update does to one field.
LEMMA LazyEntries ==
    /\ Fresh \in LazyEntry /\ Fresh.clients = TRUE
    /\ \A r \in LazyEntry, c \in BOOLEAN :
         /\ [r EXCEPT !.clients = c] \in LazyEntry /\ [r EXCEPT !.clients = c].clients = c
    /\ \A r \in LazyEntry :
         /\ [r EXCEPT !.registered = FALSE] \in LazyEntry
         /\ [r EXCEPT !.registered = FALSE].clients = r.clients
         /\ [r EXCEPT !.registered = FALSE].registered = FALSE
BY Zenon DEF LazyEntry, Fresh

\* Every step of the registrar keeps the invariant.
LEMMA LazyKept == LazyInv /\ [LazyNext]_lazyVars => LazyInv'
<1> SUFFICES ASSUME LazyInv, [LazyNext]_lazyVars PROVE LazyInv'
  BY Zenon
<1> USE DEF LazyInv
<1>1. ASSUME NEW n \in LazyNames, RegisterService(n) PROVE LazyInv'
  BY <1>1, LazyEntries, Zenon DEF RegisterService, IdleWasTold
<1>2. ASSUME NEW n \in LazyNames, NEW c \in BOOLEAN, LazyOnClients(n, c) PROVE LazyInv'
  <2>1. services[n] \in LazyEntry
    BY <1>2, Zenon DEF LazyOnClients, Tracked
  <2>2. PICK r \in LazyEntry : r.clients = c /\ services' = [services EXCEPT ![n] = r]
    BY <1>2, <2>1, LazyEntries, Zenon DEF LazyOnClients
  <2>3. IdleWasTold'
    <3>1. CASE c = TRUE
      BY <1>2, <2>2, <3>1, Zenon DEF LazyOnClients, IdleWasTold
    <3>2. CASE c = FALSE
      BY <1>2, <2>2, <3>2, Zenon DEF LazyOnClients, IdleWasTold
    <3>3. QED
      BY <3>1, <3>2, Zenon
  <2>4. QED
    BY <1>2, <2>2, <2>3, Zenon DEF LazyOnClients
<1>3. ASSUME NEW on \in BOOLEAN, ForcePersist(on) PROVE LazyInv'
  BY <1>3, Zenon DEF ForcePersist, IdleWasTold
<1>4. ASSUME NEW t \in LazyThreads, CheckPersist(t) PROVE LazyInv'
  BY <1>4, Zenon DEF CheckPersist, IdleWasTold
<1>5. ASSUME NEW t \in LazyThreads, LazyTryUnregister(t) PROVE LazyInv'
  <2> DEFINE flipped == {n \in Tracked : MayFlip(n)}
  <2>1. /\ services' = [n \in LazyNames |->
                IF n \in flipped THEN [services[n] EXCEPT !.registered = FALSE] ELSE services[n]]
        /\ leaving' = [leaving EXCEPT ![t] = IF flipped # {} THEN "exit" ELSE "idle"]
        /\ toldIdle' = toldIdle
    BY <1>5, Zenon DEF LazyTryUnregister
  <2>2. \A n \in flipped : services[n] \in LazyEntry
    BY Zenon DEF Tracked
  <2> HIDE DEF flipped
  <2>3. services' \in [LazyNames -> LazyEntry \cup {LazyAbsent}]
    BY <2>1, <2>2, LazyEntries, Zenon
  <2>4. ASSUME NEW n \in LazyNames
        PROVE  services'[n] = LazyAbsent \/ services'[n].clients \/ n \in toldIdle'
    <3>1. CASE n \in flipped
      <4>1. services'[n].clients = services[n].clients /\ services[n] # LazyAbsent
        BY <2>1, <2>2, <3>1, LazyEntries, LazyAssumption DEF LazyEntry
      <4>2. QED
        BY <2>1, <4>1, Zenon DEF IdleWasTold
    <3>2. CASE n \notin flipped
      BY <2>1, <3>2, Zenon DEF IdleWasTold
    <3>3. QED
      BY <3>1, <3>2, Zenon
  <2>5. QED
    BY <2>1, <2>3, <2>4, Zenon DEF IdleWasTold
<1>6. CASE ReRegister
  <2>1. services' \in [LazyNames -> LazyEntry \cup {LazyAbsent}]
    BY <1>6, LazyEntries, Zenon DEF ReRegister
  <2>2. ASSUME NEW n \in LazyNames
        PROVE  services'[n] = LazyAbsent \/ services'[n].clients \/ n \in toldIdle'
    <3>1. CASE n \in Tracked /\ ~services[n].registered
      <4>1. services'[n].clients = TRUE
        BY <1>6, <3>1, LazyEntries, Zenon DEF ReRegister
      <4>2. QED
        BY <4>1, Zenon
    <3>2. CASE n \notin Tracked
      BY <1>6, <3>2, Zenon DEF ReRegister, Tracked
    <3>3. CASE n \in Tracked /\ services[n].registered
      BY <1>6, <3>3, Zenon DEF ReRegister, IdleWasTold, Tracked
    <3>4. QED
      BY <3>1, <3>2, <3>3, Zenon
  <2>3. QED
    BY <1>6, <2>1, <2>2, Zenon DEF ReRegister, IdleWasTold
<1>7. CASE UNCHANGED lazyVars
  BY <1>7, Zenon DEF lazyVars, IdleWasTold
<1>8. QED
  BY <1>1, <1>2, <1>3, <1>4, <1>5, <1>6, <1>7, Zenon DEF LazyNext

\* try_unregister answers "safe to exit" only when every tracked service was
\* told since its last registration that it has no clients, and then none of
\* them stays registered: for any names, any threads and any interleaving of
\* registrations, reports and re-registrations (lazy_service.rs).
THEOREM LazyExitsIdle == LazySpec => ExitOnlyIdle
<1> DEFINE Exits == \A t \in LazyThreads : leaving[t] = "checked" /\ leaving'[t] = "exit"
         => /\ Tracked # {} /\ Tracked \subseteq toldIdle
            /\ \A n \in Tracked : ~services'[n].registered
<1>1. LazyInit => LazyInv
  BY Zenon DEF LazyInit, LazyInv, IdleWasTold
<1>2. LazyInv /\ [LazyNext]_lazyVars => [Exits]_lazyVars
  <2> SUFFICES ASSUME LazyInv, LazyNext, NEW t \in LazyThreads,
                      leaving[t] = "checked", leaving'[t] = "exit"
               PROVE  /\ Tracked # {} /\ Tracked \subseteq toldIdle
                      /\ \A n \in Tracked : ~services'[n].registered
    BY Zenon
  <2> USE DEF LazyInv
  <2> DEFINE flipped == {n \in Tracked : MayFlip(n)}
  <2>1. LazyTryUnregister(t)
    BY Zenon DEF LazyNext, RegisterService, LazyOnClients, ForcePersist, CheckPersist,
       LazyTryUnregister, ReRegister
  <2>2. /\ services' = [n \in LazyNames |->
                IF n \in flipped THEN [services[n] EXCEPT !.registered = FALSE] ELSE services[n]]
        /\ leaving' = [leaving EXCEPT ![t] = IF flipped # {} THEN "exit" ELSE "idle"]
    BY <2>1, Zenon DEF LazyTryUnregister
  <2>3. flipped # {}
    BY <2>2, Zenon
  <2>4. \A m \in Tracked : ~services[m].clients
    BY <2>3, Zenon DEF MayFlip
  <2>5. flipped = Tracked
    BY <2>4, Zenon DEF MayFlip
  <2>6. \A n \in Tracked : n \in LazyNames /\ services[n] \in LazyEntry /\ services[n] # LazyAbsent
    BY Zenon DEF Tracked
  <2>7. Tracked \subseteq toldIdle
    BY <2>4, <2>6, Zenon DEF IdleWasTold
  <2>8. ASSUME NEW n \in Tracked PROVE ~services'[n].registered
    <3>1. services'[n] = [services[n] EXCEPT !.registered = FALSE]
      BY <2>2, <2>5, <2>6, Zenon
    <3>2. services'[n].registered = FALSE
      BY <2>6, <3>1, LazyEntries
    <3>3. QED
      BY <3>2, Zenon
  <2>9. QED
    BY <2>3, <2>5, <2>7, <2>8, Zenon
<1>3. QED
  BY <1>1, <1>2, LazyKept, PTL DEF LazySpec, ExitOnlyIdle

-----------------------------------------------------------------------------
(* ServiceLookup *)

\* What may be registered under the name, and what a call may return.
Entries == SvcBinders \cup {"accessor"}
Answers == Entries \cup {"root", "provider"}

LookupTypeOK ==
    /\ smSvc \in SvcBinders \cup {Nothing, "accessor"}
    /\ smCallbacks \subseteq Seekers \X Nat
    /\ onReg \subseteq Seekers \X Nat \X Entries
    /\ globalSm \in Seekers \cup {0}
    /\ smOf \in [Seekers -> Seekers \cup {0}]
    /\ seek \in [Seekers -> {"done", "install", "ask", "fallback", "provide", "register", "wait", "unregister"}]
    /\ gen \in [Seekers -> Nat]
    /\ call \in [Seekers -> {"wait", "check", "get"}]
    /\ slot \in [Seekers -> Entries \cup {Nothing}]
    /\ found \in [Seekers -> Answers \cup {"none", "pending"}]
    /\ snapshot \in [Seekers -> SUBSET Providers]
    /\ seen \in [Seekers -> SUBSET (Answers \cup {Nothing})]
    /\ lost \in [Seekers -> BOOLEAN]
    /\ registry \subseteq [instances : SUBSET {TheName, OtherName}, provider : Providers]
    /\ smUp \in BOOLEAN /\ legacy \in BOOLEAN

\* What a call has yet to be told stood behind the name during the call: what
\* stands there now, what its slot holds, what a notification of its own wait
\* carries, what the providers it cloned stand for.
NewsIsSeen ==
    /\ \A s \in Seekers :
         /\ seek[s] # "done" => Standing \ {Nothing} \subseteq seen[s]
         /\ slot[s] # Nothing => slot[s] \in seen[s]
         /\ snapshot[s] # {} => seek[s] = "provide" /\ "provider" \in seen[s]
    /\ \A s \in Seekers, g \in Nat, b \in Entries :
         <<s, g, b>> \in onReg => g <= gen[s] /\ (g = gen[s] => b \in seen[s])

\* A call that goes on has no answer yet, and only a wait waits.
CallGoesOn ==
    \A s \in Seekers :
        /\ seek[s] \notin {"done", "unregister"} => found[s] = "pending"
        /\ seek[s] \in {"register", "wait"} => call[s] = "wait"

\* The callbacks a reachable service manager holds are those of waits that go on.
CallbacksWait ==
    smUp => \A s \in Seekers, g \in Nat :
              <<s, g>> \in smCallbacks => g = gen[s] /\ seek[s] # "done" /\ call[s] = "wait"

StoredIsReturned == \A s \in Seekers : smOf[s] # 0 => smOf[s] = globalSm

LookupInv ==
    /\ LookupTypeOK /\ NewsIsSeen /\ CallGoesOn /\ CallbacksWait /\ StoredIsReturned
    /\ FoundWasThere /\ AccessorsFollowed /\ NoneMeansUnreachable

\* What an answer does to its call: it goes on, it returns what stood behind
\* the name, or it returns nothing, a wait only without a service manager.
Outcome(s, v, to) ==
    \/ /\ v = "pending" /\ to \in {"ask", "register", "wait", "fallback"}
       /\ to \in {"register", "wait"} => call[s] = "wait"
    \/ v \in Answers \ {"accessor"} /\ Behind(v) \in seen[s] /\ to = Ends(s)
    \/ v = "none" /\ call[s] # "wait" /\ to = "done"
    \/ v = "none" /\ ~smUp /\ ~legacy /\ to = Ends(s)

\* The strings of the model differ from the binders and from one another.
LEMMA LookupNames ==
    /\ Nothing \notin Answers /\ "none" \notin Answers /\ "pending" \notin Answers
    /\ Nothing \notin SvcBinders /\ "accessor" \notin SvcBinders /\ Nothing \notin Entries
    /\ \A b \in Entries : Behind(b) = b
    /\ Behind("root") = "accessor" /\ Behind("provider") = "provider"
BY LookupAssumption, Zenon DEF Answers, Entries, Nothing, Behind

\* The invariant holds when the process starts.
LEMMA LookupStarts == LookupInit => LookupInv
<1> SUFFICES ASSUME NEW old \in BOOLEAN, NEW threads \in BOOLEAN, LookupStart(old, threads) PROVE LookupInv
  BY Zenon DEF LookupInit
<1> USE DEF LookupStart
<1>1. LookupTypeOK
  BY Zenon DEF LookupTypeOK
<1>2. NewsIsSeen /\ CallGoesOn /\ CallbacksWait /\ StoredIsReturned
  BY Zenon DEF NewsIsSeen, CallGoesOn, CallbacksWait, StoredIsReturned
<1>3. FoundWasThere /\ NoneMeansUnreachable
  BY LookupNames, Zenon DEF FoundWasThere, NoneMeansUnreachable, Answers
<1>4. AccessorsFollowed
  BY Zenon DEF AccessorsFollowed
<1>5. QED
  BY <1>1, <1>2, <1>3, <1>4, Zenon DEF LookupInv

\* What stands behind the name is the environment's.
LEMMA StandingKept == ASSUME UNCHANGED <<smSvc, registry>> PROVE Standing' = Standing
BY Zenon DEF Standing, Provided

\* What the service manager holds is one of the answers it may give.
LEMMA StandingAnswers ==
    ASSUME LookupTypeOK
    PROVE  Standing \subseteq Answers \cup {Nothing} /\ smSvc \in Standing
BY Zenon DEF LookupTypeOK, Standing, Answers, Entries

\* A call begins where no callback, notification or provider of an earlier
\* call of its thread can reach it.
LEMMA LookupKeptByBegin ==
    ASSUME LookupInv, NEW s \in Seekers, BeginSeek(s)
    PROVE  LookupInv'
<1> USE DEF LookupInv
<1>1. /\ gen' = [gen EXCEPT ![s] = @ + 1] /\ slot' = [slot EXCEPT ![s] = Nothing]
      /\ seen' = [seen EXCEPT ![s] = Standing] /\ smOf' = [smOf EXCEPT ![s] = globalSm]
      /\ UNCHANGED <<envVars, smCallbacks, onReg, globalSm, snapshot>>
  BY Zenon DEF BeginSeek
<1>2. PICK c \in {"wait", "check", "get"} : call' = [call EXCEPT ![s] = c]
  BY Zenon DEF BeginSeek
<1>3. PICK to \in {"ask", "install", "done"} :
        /\ seek[s] = "done" /\ seek' = [seek EXCEPT ![s] = to]
        /\ (to = "done") <=> ~(globalSm # 0 \/ smUp)
        /\ found' = [found EXCEPT ![s] = IF to = "done" THEN "none" ELSE "pending"]
        /\ lost' = [lost EXCEPT ![s] = (to = "done")]
  <2> DEFINE to == IF globalSm # 0 THEN "ask" ELSE IF smUp THEN "install" ELSE "done"
  <2>1. /\ seek[s] = "done" /\ seek' = [seek EXCEPT ![s] = to]
        /\ found' = [found EXCEPT ![s] = IF globalSm # 0 \/ smUp THEN "pending" ELSE "none"]
        /\ lost' = [lost EXCEPT ![s] = ~(globalSm # 0 \/ smUp)]
    BY Zenon DEF BeginSeek, Moves
  <2>2. to \in {"ask", "install", "done"} /\ ((to = "done") <=> ~(globalSm # 0 \/ smUp))
    BY Zenon
  <2>3. (to = "done") = ~(globalSm # 0 \/ smUp)
    BY <2>2, Zenon
  <2> HIDE DEF to
  <2>4. found' = [found EXCEPT ![s] = IF to = "done" THEN "none" ELSE "pending"]
    BY <2>1, <2>2, Zenon
  <2>5. lost' = [lost EXCEPT ![s] = (to = "done")]
    BY <2>1, <2>3, Zenon
  <2>6. QED
    BY <2>1, <2>2, <2>4, <2>5, Zenon
<1>4. Standing' = Standing /\ Standing \subseteq Answers \cup {Nothing}
  BY <1>1, StandingKept, StandingAnswers, Zenon DEF envVars
<1>5. /\ lost' \in [Seekers -> BOOLEAN] /\ lost'[s] = (to = "done")
      /\ \A t \in Seekers : t # s => lost'[t] = lost[t]
  <2>1. (to = "done") \in BOOLEAN
    BY Zenon
  <2>2. PICK b \in BOOLEAN : b = (to = "done") /\ lost' = [lost EXCEPT ![s] = b]
    BY <1>3, <2>1, Zenon
  <2>3. QED
    BY <2>2, Zenon DEF LookupTypeOK
<1>6. LookupTypeOK'
  BY <1>1, <1>2, <1>3, <1>4, <1>5 DEF LookupTypeOK, envVars
<1>7. NewsIsSeen'
  <2>1. ASSUME NEW t \in Seekers
        PROVE  /\ seek'[t] # "done" => Standing' \ {Nothing} \subseteq seen'[t]
               /\ slot'[t] # Nothing => slot'[t] \in seen'[t]
               /\ snapshot'[t] # {} => seek'[t] = "provide" /\ "provider" \in seen'[t]
    BY <1>1, <1>3, <1>4, Zenon DEF NewsIsSeen, LookupTypeOK
  <2>2. ASSUME NEW t \in Seekers, NEW g \in Nat, NEW b \in Entries, <<t, g, b>> \in onReg'
        PROVE  g <= gen'[t] /\ (g = gen'[t] => b \in seen'[t])
    <3>1. g <= gen[t] /\ (g = gen[t] => b \in seen[t]) /\ gen[t] \in Nat
      BY <1>1, <2>2, Zenon DEF NewsIsSeen, LookupTypeOK
    <3>2. CASE t = s
      BY <1>1, <3>1, <3>2 DEF LookupTypeOK
    <3>3. CASE t # s
      BY <1>1, <3>1, <3>3, Zenon DEF LookupTypeOK
    <3>4. QED
      BY <3>2, <3>3, Zenon
  <2>3. QED
    BY <2>1, <2>2, Zenon DEF NewsIsSeen
<1>8. CallGoesOn'
  BY <1>2, <1>3, Zenon DEF CallGoesOn, LookupTypeOK
<1>9. CallbacksWait'
  BY <1>1, <1>2, <1>3, Zenon DEF CallbacksWait, LookupTypeOK, envVars
<1>10. StoredIsReturned'
  BY <1>1, Zenon DEF StoredIsReturned, LookupTypeOK
<1>11. FoundWasThere' /\ AccessorsFollowed'
  BY <1>1, <1>2, <1>3, LookupNames, Zenon DEF FoundWasThere, AccessorsFollowed, LookupTypeOK, Answers
<1>12. NoneMeansUnreachable'
  <2>1. ASSUME NEW t \in Seekers, call'[t] = "wait", found'[t] = "none"
        PROVE  lost'[t] /\ (legacy' => smOf'[t] = 0)
    <3>1. CASE t = s
      <4>1. to = "done"
        BY <1>3, <2>1, <3>1, Zenon DEF LookupTypeOK
      <4>2. smOf'[t] = 0
        BY <1>1, <1>3, <3>1, <4>1, Zenon DEF LookupTypeOK
      <4>3. lost'[t]
        BY <1>5, <3>1, <4>1, Zenon
      <4>4. QED
        BY <4>2, <4>3, Zenon
    <3>2. CASE t # s
      <4>1. call[t] = "wait" /\ found[t] = "none" /\ smOf'[t] = smOf[t] /\ legacy' = legacy
        BY <1>1, <1>2, <1>3, <2>1, <3>2, Zenon DEF LookupTypeOK, envVars
      <4>2. QED
        BY <1>5, <3>2, <4>1, Zenon DEF NoneMeansUnreachable
    <3>3. QED
      BY <3>1, <3>2, Zenon
  <2>2. QED
    BY <2>1, Zenon DEF NoneMeansUnreachable
<1>13. QED
  BY <1>6, <1>7, <1>8, <1>9, <1>10, <1>11, <1>12, Zenon

\* get_or_init keeps the first instance, and the caller gets that one.
LEMMA LookupKeptByInstall ==
    ASSUME LookupInv, NEW s \in Seekers, InstallDefault(s)
    PROVE  LookupInv'
<1> USE DEF LookupInv, InstallDefault, Moves, envVars, StoreOnce
<1>1. Standing' = Standing
  BY StandingKept, Zenon
<1>2. LookupTypeOK'
  BY Zenon DEF LookupTypeOK
<1>3. NewsIsSeen'
  BY <1>1, Zenon DEF NewsIsSeen, LookupTypeOK
<1>4. CallGoesOn' /\ CallbacksWait'
  BY Zenon DEF CallGoesOn, CallbacksWait, LookupTypeOK
<1>5. StoredIsReturned'
  BY Zenon DEF StoredIsReturned, LookupTypeOK
<1>6. FoundWasThere' /\ AccessorsFollowed'
  BY Zenon DEF FoundWasThere, AccessorsFollowed
<1>7. NoneMeansUnreachable'
  <2>1. found[s] = "pending"
    BY Zenon DEF CallGoesOn
  <2>2. \A t \in Seekers : t # s => smOf'[t] = smOf[t]
    BY Zenon DEF LookupTypeOK
  <2>3. QED
    BY <2>1, <2>2, Zenon DEF NoneMeansUnreachable
<1>8. QED
  BY <1>2, <1>3, <1>4, <1>5, <1>6, <1>7, Zenon

\* An answer, wherever it comes from, keeps the invariant when its outcome is
\* one of the four above.
LEMMA LookupKeptByAnswer ==
    ASSUME LookupInv, NEW s \in Seekers, seek[s] \in {"ask", "provide"},
           NEW v, NEW to, Outcome(s, v, to),
           seek' = [seek EXCEPT ![s] = to], found' = [found EXCEPT ![s] = v],
           snapshot' = [snapshot EXCEPT ![s] = {}],
           lost' \in [Seekers -> BOOLEAN],
           \A t \in Seekers : lost[t] => lost'[t],
           v = "none" /\ call[s] = "wait" => lost'[s],
           UNCHANGED <<envVars, idVars, smCallbacks, onReg, slot>>
    PROVE  LookupInv'
<1> USE DEF LookupInv, envVars, idVars
<1>1. Standing' = Standing
  BY StandingKept, Zenon
<1>2. to \in {"done", "ask", "fallback", "register", "wait", "unregister"}
      /\ v \in Answers \cup {"none", "pending"}
  BY Zenon DEF Outcome, Ends
<1>3. LookupTypeOK'
  BY <1>2, Zenon DEF LookupTypeOK
<1>4. NewsIsSeen'
  BY <1>1 DEF NewsIsSeen, LookupTypeOK
<1>5. CallGoesOn'
  <2>1. to \notin {"done", "unregister"} => v = "pending"
    BY Zenon DEF Outcome, Ends
  <2>2. to \in {"register", "wait"} => call[s] = "wait"
    BY Zenon DEF Outcome, Ends
  <2>3. QED
    BY <2>1, <2>2, Zenon DEF CallGoesOn, LookupTypeOK
<1>6. CallbacksWait'
  <2> SUFFICES ASSUME smUp, NEW g \in Nat, <<s, g>> \in smCallbacks PROVE to # "done"
    BY Zenon DEF CallbacksWait, LookupTypeOK
  <2>1. g = gen[s] /\ call[s] = "wait"
    BY Zenon DEF CallbacksWait
  <2>2. Registered(s)
    BY <2>1, Zenon DEF Registered
  <2>3. QED
    BY <2>1, <2>2, Zenon DEF Outcome, Ends
<1>7. StoredIsReturned'
  BY Zenon DEF StoredIsReturned
<1>8. FoundWasThere' /\ AccessorsFollowed'
  <2>1. v \in Answers => Behind(v) \in seen[s] /\ v # "accessor"
    BY LookupNames, Zenon DEF Outcome
  <2>2. QED
    BY <1>2, <2>1, Zenon DEF FoundWasThere, AccessorsFollowed, LookupTypeOK
<1>9. NoneMeansUnreachable'
  <2>1. ASSUME NEW t \in Seekers, call'[t] = "wait", found'[t] = "none"
        PROVE  lost'[t] /\ (legacy' => smOf'[t] = 0)
    <3>1. CASE t = s
      <4>1. v = "none" /\ call[s] = "wait"
        BY <2>1, <3>1, Zenon DEF LookupTypeOK
      <4>2. ~legacy
        BY <4>1, LookupNames, Zenon DEF Outcome
      <4>3. QED
        BY <3>1, <4>1, <4>2, Zenon
    <3>2. CASE t # s
      <4>1. call[t] = "wait" /\ found[t] = "none"
        BY <2>1, <3>2, Zenon DEF LookupTypeOK
      <4>2. lost[t] /\ (legacy => smOf[t] = 0)
        BY <4>1, Zenon DEF NoneMeansUnreachable
      <4>3. QED
        BY <4>2, Zenon
    <3>3. QED
      BY <3>1, <3>2, Zenon
  <2>2. QED
    BY <2>1, Zenon DEF NoneMeansUnreachable
<1>10. QED
  BY <1>3, <1>4, <1>5, <1>6, <1>7, <1>8, <1>9, Zenon

\* What KeepWaiting and NotFound make of a call that goes on.
LEMMA NotFoundOutcome ==
    ASSUME LookupInv, NEW s \in Seekers, seek[s] \in {"ask", "provide"}, NotFound(s)
    PROVE  \E v, to : /\ Outcome(s, v, to) /\ seek' = [seek EXCEPT ![s] = to]
                      /\ found' = [found EXCEPT ![s] = v] /\ (v = "none" => call[s] # "wait")
<1>1. found[s] = "pending" /\ found \in [Seekers -> Answers \cup {"none", "pending"}]
  BY Zenon DEF LookupInv, CallGoesOn, LookupTypeOK
<1>2. found = [found EXCEPT ![s] = "pending"]
  BY <1>1, Zenon
<1>3. CASE call[s] = "wait" /\ KeepWaiting(s)
  <2> DEFINE to == IF Registered(s) THEN "wait" ELSE IF polling[s] THEN "ask" ELSE "register"
  <2>1. seek' = [seek EXCEPT ![s] = to] /\ found' = found
    BY <1>3, Zenon DEF KeepWaiting
  <2>2. Outcome(s, "pending", to)
    BY <1>3, Zenon DEF Outcome
  <2>3. found' = [found EXCEPT ![s] = "pending"] /\ "pending" # "none"
    BY <1>2, <2>1, Zenon
  <2> HIDE DEF to
  <2>4. QED
    BY <2>1, <2>2, <2>3, Zenon
<1>4. CASE call[s] # "wait" /\ Returns(s, "none", "done")
  BY <1>4, Zenon DEF Returns, Outcome
<1>5. CASE call[s] # "wait" /\ seek' = [seek EXCEPT ![s] = "ask"] /\ UNCHANGED found
  <2>1. Outcome(s, "pending", "ask")
    BY Zenon DEF Outcome
  <2>2. QED
    BY <1>2, <1>5, <2>1, Zenon
<1>6. QED
  BY <1>3, <1>4, <1>5, Zenon DEF NotFound

\* A lookup the service manager answers, or does not.
LEMMA LookupKeptByAsk ==
    ASSUME LookupInv, NEW s \in Seekers, AskManager(s)
    PROVE  LookupInv'
<1> DEFINE Told(v, to) == /\ Outcome(s, v, to) /\ seek' = [seek EXCEPT ![s] = to]
                          /\ found' = [found EXCEPT ![s] = v]
                          /\ v = "none" /\ call[s] = "wait" => ~smUp
<1>1. /\ seek[s] = "ask" /\ lost' = [lost EXCEPT ![s] = @ \/ ~smUp]
      /\ UNCHANGED <<envVars, idVars, smCallbacks, onReg, polling, slot, snapshot>>
  BY Zenon DEF AskManager
<1>2. found = [found EXCEPT ![s] = "pending"] /\ snapshot' = [snapshot EXCEPT ![s] = {}]
  BY <1>1, Zenon DEF LookupInv, CallGoesOn, NewsIsSeen, LookupTypeOK
<1>3. smSvc # Nothing => smSvc \in Answers /\ smSvc \in seen[s]
  BY <1>1, StandingAnswers, Zenon DEF LookupInv, NewsIsSeen
<1>4. NotFound(s) => \E v, to : Told(v, to)
  BY <1>1, NotFoundOutcome, Zenon
<1>5. Fallback(s) => \E v, to : Told(v, to)
  <2>1. Outcome(s, "pending", "fallback")
    BY Zenon DEF Outcome
  <2>2. SUFFICES ASSUME Fallback(s) PROVE Told("pending", "fallback")
    BY Zenon
  <2>3. found' = [found EXCEPT ![s] = "pending"] /\ "pending" # "none"
    BY <1>2, <2>2, Zenon DEF Fallback
  <2>4. QED
    BY <2>1, <2>2, <2>3, Zenon DEF Fallback
<1>6. smSvc \in SvcBinders /\ Found(s, smSvc) => \E v, to : Told(v, to)
  <2>1. SUFFICES ASSUME smSvc \in SvcBinders, Found(s, smSvc) PROVE Told(smSvc, Ends(s))
    BY Zenon
  <2>2. smSvc \in Answers \ {"accessor", "none"} /\ Behind(smSvc) \in seen[s]
    BY <1>3, <2>1, LookupNames, Zenon DEF Entries
  <2>3. QED
    BY <2>1, <2>2, Zenon DEF Found, Returns, Outcome
<1>6a. smSvc = "accessor" /\ Found(s, "root") => \E v, to : Told(v, to)
  <2>1. SUFFICES ASSUME smSvc = "accessor", Found(s, "root") PROVE Told("root", Ends(s))
    BY Zenon
  <2>2. "root" \in Answers \ {"accessor", "none"} /\ Behind("root") \in seen[s]
    BY <1>3, <2>1, LookupNames, Zenon DEF Answers, Nothing
  <2>3. QED
    BY <2>1, <2>2, Zenon DEF Found, Returns, Outcome
<1>7. ~smUp /\ ~legacy /\ Returns(s, "none", Ends(s)) => \E v, to : Told(v, to)
  <2>1. SUFFICES ASSUME ~smUp, ~legacy, Returns(s, "none", Ends(s)) PROVE Told("none", Ends(s))
    BY Zenon
  <2>2. QED
    BY <2>1, Zenon DEF Returns, Outcome
<1>8. PICK v, to : Told(v, to)
  <2>1. CASE ~smUp /\ Unreachable(s)
    BY <1>4, <1>7, <2>1, Zenon DEF Unreachable
  <2>2. CASE smUp /\ legacy /\ AskLegacy(s)
    BY <1>4, <1>6, <2>2, LookupNames, Zenon DEF AskLegacy
  <2>3. CASE smUp /\ ~legacy /\ DispatchTypedService(s)
    BY <1>5, <1>6, <1>6a, <2>3, LookupNames, Zenon DEF DispatchTypedService, ResolveAccessor
  <2>4. QED
    BY <2>1, <2>2, <2>3, Zenon DEF AskManager
<1>9. /\ lost' \in [Seekers -> BOOLEAN] /\ \A t \in Seekers : lost[t] => lost'[t]
      /\ ~smUp => lost'[s]
  <2>1. PICK b \in BOOLEAN : b = (lost[s] \/ ~smUp) /\ lost' = [lost EXCEPT ![s] = b]
    BY <1>1, Zenon
  <2>2. lost \in [Seekers -> BOOLEAN]
    BY Zenon DEF LookupInv, LookupTypeOK
  <2>3. /\ lost' \in [Seekers -> BOOLEAN] /\ lost'[s] = b
        /\ \A t \in Seekers : t # s => lost'[t] = lost[t]
    BY <2>1, <2>2, Zenon
  <2>4. QED
    BY <2>1, <2>3, Zenon
<1> HIDE DEF Told
<1>10. /\ Outcome(s, v, to) /\ seek' = [seek EXCEPT ![s] = to] /\ found' = [found EXCEPT ![s] = v]
       /\ v = "none" /\ call[s] = "wait" => lost'[s]
  BY <1>8, <1>9, Zenon DEF Told
<1>11. QED
  BY <1>1, <1>2, <1>9, <1>10, LookupKeptByAnswer, Zenon

\* The providers of the name are cloned while it is provided.
LEMMA LookupKeptBySnapshot ==
    ASSUME LookupInv, NEW s \in Seekers, SnapshotProviders(s)
    PROVE  LookupInv'
<1> USE DEF LookupInv, SnapshotProviders, Moves, envVars, idVars
<1> DEFINE cloned == {e.provider : e \in {x \in registry : TheName \in x.instances}}
<1>1. Standing' = Standing
  BY StandingKept, Zenon
<1>2. cloned \subseteq Providers
  BY DEF LookupTypeOK
<1>3. cloned # {} => "provider" \in seen[s]
  BY Zenon DEF NewsIsSeen, Standing, Provided, Nothing
<1>4. snapshot' = [snapshot EXCEPT ![s] = cloned]
  BY Zenon
<1> HIDE DEF cloned, SnapshotProviders
<1>5. /\ seek[s] = "fallback" /\ seek' = [seek EXCEPT ![s] = "provide"]
      /\ UNCHANGED <<envVars, idVars, smCallbacks, onReg, tries, polling, slot, found, lost>>
  BY Zenon DEF SnapshotProviders
<1>6. LookupTypeOK'
  BY <1>2, <1>4, <1>5, Zenon DEF LookupTypeOK
<1>7. NewsIsSeen'
  BY <1>1, <1>3, <1>4, <1>5, Zenon DEF NewsIsSeen, LookupTypeOK
<1>8. CallGoesOn' /\ CallbacksWait' /\ StoredIsReturned'
  BY <1>5, Zenon DEF CallGoesOn, CallbacksWait, StoredIsReturned, LookupTypeOK
<1>9. FoundWasThere' /\ AccessorsFollowed' /\ NoneMeansUnreachable'
  BY <1>5, Zenon DEF FoundWasThere, AccessorsFollowed, NoneMeansUnreachable
<1>10. QED
  BY <1>6, <1>7, <1>8, <1>9, Zenon

\* A provider that answers was cloned during this call.
LEMMA LookupKeptByProviders ==
    ASSUME LookupInv, NEW s \in Seekers, CallProviders(s)
    PROVE  LookupInv'
<1>1. /\ seek[s] = "provide" /\ snapshot' = [snapshot EXCEPT ![s] = {}]
      /\ UNCHANGED <<envVars, idVars, smCallbacks, onReg, polling, slot, lost>>
  BY Zenon DEF CallProviders
<1>2. lost' \in [Seekers -> BOOLEAN] /\ \A t \in Seekers : lost[t] => lost'[t]
  BY <1>1, Zenon DEF LookupInv, LookupTypeOK
<1>3. PICK v, to : /\ Outcome(s, v, to) /\ seek' = [seek EXCEPT ![s] = to]
                   /\ found' = [found EXCEPT ![s] = v] /\ (v = "none" => call[s] # "wait")
  <2>1. CASE snapshot[s] # {} /\ Found(s, "provider")
    <3>1. Outcome(s, "provider", Ends(s))
      BY <2>1, LookupNames, Zenon DEF LookupInv, NewsIsSeen, Outcome, Answers
    <3>2. seek' = [seek EXCEPT ![s] = Ends(s)] /\ found' = [found EXCEPT ![s] = "provider"]
      BY <2>1, Zenon DEF Found, Returns
    <3>3. "provider" # "none"
      BY Zenon
    <3>4. QED
      BY <3>1, <3>2, <3>3, Zenon
  <2>2. CASE NotFound(s)
    BY <1>1, <2>2, NotFoundOutcome, Zenon
  <2>3. QED
    BY <2>1, <2>2, Zenon DEF CallProviders
<1>4. QED
  BY <1>1, <1>2, <1>3, LookupKeptByAnswer, Zenon

\* A wait registers its callback, and is told at once of a service that is there.
LEMMA LookupKeptByRegister ==
    ASSUME LookupInv, NEW s \in Seekers, RegisterWaiter(s)
    PROVE  LookupInv'
<1> USE DEF LookupInv, RegisterWaiter, Moves, envVars, idVars
<1>1. Standing' = Standing /\ (smSvc # Nothing => smSvc \in Entries /\ smSvc \in seen[s])
  BY StandingKept, StandingAnswers, LookupNames, Zenon DEF NewsIsSeen, LookupTypeOK, Entries
<1>2. LookupTypeOK'
  BY <1>1 DEF LookupTypeOK
<1>3. NewsIsSeen'
  BY <1>1 DEF NewsIsSeen, LookupTypeOK
<1>4. CallGoesOn'
  BY Zenon DEF CallGoesOn, LookupTypeOK
<1>5. CallbacksWait'
  BY DEF CallbacksWait, CallGoesOn, LookupTypeOK
<1>6. StoredIsReturned'
  BY Zenon DEF StoredIsReturned
<1>7. FoundWasThere' /\ AccessorsFollowed' /\ NoneMeansUnreachable'
  BY Zenon DEF FoundWasThere, AccessorsFollowed, NoneMeansUnreachable
<1>8. QED
  BY <1>2, <1>3, <1>4, <1>5, <1>6, <1>7, Zenon

\* onRegistration fills the slot of the wait it was registered for, or none.
LEMMA LookupKeptByNotice ==
    ASSUME LookupInv, NEW s \in Seekers, WaiterNotified(s)
    PROVE  LookupInv'
<1> USE DEF LookupInv, envVars, idVars
<1>1. PICK m \in onReg : /\ m[1] = s /\ onReg' = onReg \ {m}
                         /\ slot' = IF SlotOf(s, m[2]) THEN [slot EXCEPT ![s] = m[3]] ELSE slot
  BY Zenon DEF WaiterNotified
<1>2. UNCHANGED <<envVars, idVars, smCallbacks, seek, tries, polling, found, snapshot, lost>>
  BY Zenon DEF WaiterNotified
<1>3. m = <<s, m[2], m[3]>> /\ m[2] \in Nat /\ m[3] \in Entries
  BY <1>1 DEF LookupTypeOK
<1>4. m[2] = gen[s] => m[3] \in seen[s]
  BY <1>1, <1>3, Zenon DEF NewsIsSeen
<1>5. Standing' = Standing
  BY <1>2, StandingKept, Zenon
<1>6. LookupTypeOK'
  BY <1>1, <1>2, <1>3, Zenon DEF LookupTypeOK
<1>7. NewsIsSeen'
  BY <1>1, <1>2, <1>3, <1>4, <1>5, Zenon DEF NewsIsSeen, LookupTypeOK, SlotOf
<1>8. CallGoesOn' /\ CallbacksWait' /\ StoredIsReturned'
  BY <1>2, Zenon DEF CallGoesOn, CallbacksWait, StoredIsReturned
<1>9. FoundWasThere' /\ AccessorsFollowed' /\ NoneMeansUnreachable'
  BY <1>1, <1>2, <1>3, LookupNames, Zenon DEF FoundWasThere, AccessorsFollowed, NoneMeansUnreachable, LookupTypeOK
<1>10. QED
  BY <1>6, <1>7, <1>8, <1>9, Zenon

\* A wait ends with what its slot holds, asks again, or withdraws its callback.
LEMMA LookupKeptByWait ==
    ASSUME LookupInv, NEW s \in Seekers, Woken(s) \/ Tick(s) \/ EndWait(s)
    PROVE  LookupInv'
<1> USE DEF LookupInv, envVars, idVars
<1>1. /\ UNCHANGED <<envVars, idVars, onReg, slot, snapshot, lost>>
      /\ \/ /\ seek[s] = "wait" /\ slot[s] # Nothing
            /\ seek' = [seek EXCEPT ![s] = "unregister"] /\ found' = [found EXCEPT ![s] = slot[s]]
            /\ smCallbacks' = smCallbacks
         \/ /\ seek[s] = "wait" /\ seek' = [seek EXCEPT ![s] = "ask"]
            /\ UNCHANGED <<found, smCallbacks>>
         \/ /\ seek[s] = "unregister" /\ seek' = [seek EXCEPT ![s] = "done"]
            /\ found' = found
            /\ smCallbacks' \subseteq smCallbacks
            /\ smUp => smCallbacks' = smCallbacks \ {<<s, gen[s]>>}
  BY Zenon DEF Woken, Tick, EndWait, Moves, Returns, Withdraw
<1>2. Standing' = Standing
  BY <1>1, StandingKept, Zenon
<1>3. LookupTypeOK'
  BY <1>1, Zenon DEF LookupTypeOK, Answers
<1>4. NewsIsSeen'
  BY <1>1, <1>2, Zenon DEF NewsIsSeen, LookupTypeOK
<1>5. CallGoesOn'
  BY <1>1 DEF CallGoesOn, LookupTypeOK
<1>6. CallbacksWait'
  BY <1>1 DEF CallbacksWait, LookupTypeOK
<1>7. StoredIsReturned'
  BY <1>1, Zenon DEF StoredIsReturned
<1>8. FoundWasThere' /\ AccessorsFollowed'
  <2>1. \A t \in Seekers : slot[t] # Nothing => Behind(slot[t]) \in seen[t]
    BY LookupNames, Zenon DEF NewsIsSeen, LookupTypeOK
  <2>2. \A t \in Seekers : found'[t] # found[t] =>
          call[t] = "wait" /\ slot[t] # Nothing /\ found'[t] = slot[t]
    BY <1>1 DEF CallGoesOn, LookupTypeOK
  <2>3. QED
    BY <1>1, <2>1, <2>2, Zenon DEF FoundWasThere, AccessorsFollowed
<1>9. NoneMeansUnreachable'
  <2>1. \A t \in Seekers : found'[t] = "none" => found[t] = "none"
    BY <1>1, LookupNames DEF LookupTypeOK, Answers
  <2>2. QED
    BY <1>1, <2>1, Zenon DEF NoneMeansUnreachable
<1>10. QED
  BY <1>3, <1>4, <1>5, <1>6, <1>7, <1>8, <1>9, Zenon

\* The environment changes what stands behind the name: every call that goes
\* on witnesses it, and a service manager tells the callbacks it holds.
LEMMA LookupKeptByChange ==
    ASSUME LookupInv,
           \/ \E p \in Providers, n \in {TheName, OtherName} : AddProvider(p, {n})
           \/ \E p \in Providers : RemoveProvider(p)
           \/ \E b \in SvcBinders \cup {"accessor"} : RegisterSvc(b)
    PROVE  LookupInv'
<1> USE DEF LookupInv
<1>1. /\ UNCHANGED <<legacy, pool, smUp, smCallbacks, globalSm, smOf, seek, gen, call, slot, found, snapshot, lost>>
      /\ Witnessed
  BY Zenon DEF AddProvider, RemoveProvider, RegisterSvc, seekVars, clientVars
<1>2. /\ smSvc' \in SvcBinders \cup {Nothing, "accessor"}
      /\ registry' \subseteq [instances : SUBSET {TheName, OtherName}, provider : Providers]
  BY DEF AddProvider, RemoveProvider, RegisterSvc, seekVars, clientVars, LookupTypeOK
<1>3. \/ onReg' = onReg
      \/ /\ smUp /\ smSvc' \in Entries
         /\ onReg' = onReg \cup {<<w[1], w[2], smSvc'>> : w \in smCallbacks}
  BY Zenon DEF AddProvider, RemoveProvider, RegisterSvc, seekVars, clientVars, Entries
<1>4. Standing' \subseteq Answers \cup {Nothing} /\ smSvc' \in Standing'
  BY <1>2, Zenon DEF Standing, Answers, Entries
<1>5. /\ seen' \in [Seekers -> SUBSET (Answers \cup {Nothing})]
      /\ \A s \in Seekers : /\ seen[s] \subseteq seen'[s]
                            /\ seek[s] # "done" => Standing' \subseteq seen'[s]
  <2>1. seen' = [s \in Seekers |-> IF seek[s] = "done" THEN seen[s] ELSE seen[s] \cup Standing']
    BY <1>1, Zenon DEF Witnessed
  <2> DEFINE now == Standing'
  <2>2. now \subseteq Answers \cup {Nothing}
    BY <1>4, Zenon
  <2>3. seen' = [s \in Seekers |-> IF seek[s] = "done" THEN seen[s] ELSE seen[s] \cup now]
    BY <2>1, Zenon
  <2> HIDE DEF now
  <2>4. /\ seen' \in [Seekers -> SUBSET (Answers \cup {Nothing})]
        /\ \A s \in Seekers : /\ seen[s] \subseteq seen'[s]
                              /\ seek[s] # "done" => now \subseteq seen'[s]
    BY <2>2, <2>3, Zenon DEF LookupTypeOK
  <2>5. QED
    BY <2>4, Zenon DEF now
<1>6. onReg' \subseteq Seekers \X Nat \X Entries
  BY <1>3 DEF LookupTypeOK
<1>7. LookupTypeOK'
  BY <1>1, <1>2, <1>5, <1>6, Zenon DEF LookupTypeOK
<1>8. NewsIsSeen'
  <2>1. ASSUME NEW s \in Seekers
        PROVE  /\ seek'[s] # "done" => Standing' \ {Nothing} \subseteq seen'[s]
               /\ slot'[s] # Nothing => slot'[s] \in seen'[s]
               /\ snapshot'[s] # {} => seek'[s] = "provide" /\ "provider" \in seen'[s]
    BY <1>1, <1>5, Zenon DEF NewsIsSeen
  <2>2. ASSUME NEW s \in Seekers, NEW g \in Nat, NEW b \in Entries, <<s, g, b>> \in onReg'
        PROVE  g <= gen'[s] /\ (g = gen'[s] => b \in seen'[s])
    <3>1. CASE <<s, g, b>> \in onReg
      BY <1>1, <1>5, <3>1, Zenon DEF NewsIsSeen
    <3>2. CASE <<s, g, b>> \notin onReg
      <4>1. smUp /\ b = smSvc' /\ <<s, g>> \in smCallbacks
        BY <1>3, <2>2, <3>2 DEF LookupTypeOK
      <4>2. g = gen[s] /\ seek[s] # "done"
        BY <4>1, Zenon DEF CallbacksWait
      <4>3. b \in seen'[s]
        BY <1>4, <1>5, <4>1, <4>2, Zenon
      <4>4. QED
        BY <1>1, <4>2, <4>3 DEF LookupTypeOK
    <3>3. QED
      BY <3>1, <3>2, Zenon
  <2>3. QED
    BY <2>1, <2>2, Zenon DEF NewsIsSeen
<1>9. CallGoesOn' /\ CallbacksWait' /\ StoredIsReturned'
  BY <1>1, Zenon DEF CallGoesOn, CallbacksWait, StoredIsReturned
<1>10. FoundWasThere' /\ AccessorsFollowed'
  BY <1>1, <1>5, Zenon DEF FoundWasThere, AccessorsFollowed
<1>11. NoneMeansUnreachable'
  BY <1>1, Zenon DEF NoneMeansUnreachable
<1>12. QED
  BY <1>7, <1>8, <1>9, <1>10, <1>11, Zenon

\* The service goes, or the service manager.
LEMMA LookupKeptByLoss ==
    ASSUME LookupInv, SvcLeaves \/ SmDies
    PROVE  LookupInv'
<1> USE DEF LookupInv
<1>1. /\ UNCHANGED <<clientVars, onReg, seen>> /\ smUp' \in BOOLEAN /\ (smUp' => smUp)
      /\ smSvc' \in {smSvc, Nothing}
  BY Zenon DEF SvcLeaves, SmDies, LookupTypeOK
<1>2. Standing' \ {Nothing} \subseteq Standing
  BY <1>1, Zenon DEF Standing, Provided, clientVars
<1>3. LookupTypeOK'
  BY <1>1, Zenon DEF LookupTypeOK, clientVars
<1>4. NewsIsSeen'
  BY <1>1, <1>2, Zenon DEF NewsIsSeen, clientVars
<1>5. CallGoesOn' /\ CallbacksWait' /\ StoredIsReturned'
  BY <1>1, Zenon DEF CallGoesOn, CallbacksWait, StoredIsReturned, clientVars
<1>6. FoundWasThere' /\ AccessorsFollowed' /\ NoneMeansUnreachable'
  BY <1>1, Zenon DEF FoundWasThere, AccessorsFollowed, NoneMeansUnreachable, clientVars
<1>7. QED
  BY <1>3, <1>4, <1>5, <1>6, Zenon

\* A binder a lookup returns stood behind the name during the call, only a wait
\* that onRegistration woke returns an accessor instead of its root, a wait
\* answers None only without a service manager, no callback of a finished wait
\* stays behind, and all threads share one service manager proxy: for any
\* number of threads, calls, services and providers (hub/mod.rs,
\* servicemanager_16.rs and servicemanager_10.rs, accessor_16.rs).
THEOREM LookupsAreHonest == LookupSpec => []LookupsHonest
<1>1. LookupInv /\ [LookupNext]_lookupVars => LookupInv'
  <2> SUFFICES ASSUME LookupInv, [LookupNext]_lookupVars PROVE LookupInv'
    OBVIOUS
  <2>1. CASE UNCHANGED lookupVars
    <3>1. Standing' = Standing
      BY <2>1, StandingKept, Zenon DEF lookupVars
    <3>2. LookupTypeOK' /\ NewsIsSeen' /\ CallGoesOn'
      BY <2>1, <3>1, Zenon DEF lookupVars, LookupInv, LookupTypeOK, NewsIsSeen, CallGoesOn
    <3>3. /\ CallbacksWait' /\ StoredIsReturned' /\ FoundWasThere' /\ AccessorsFollowed'
          /\ NoneMeansUnreachable'
      BY <2>1, Zenon DEF lookupVars, LookupInv, CallbacksWait, StoredIsReturned, FoundWasThere,
         AccessorsFollowed, NoneMeansUnreachable
    <3>4. QED
      BY <3>2, <3>3, Zenon DEF LookupInv
  <2>2. ASSUME NEW s \in Seekers, BeginSeek(s) \/ SeekStep(s) \/ WaiterNotified(s) PROVE LookupInv'
    BY <2>2, LookupKeptByBegin, LookupKeptByInstall, LookupKeptByAsk, LookupKeptBySnapshot,
       LookupKeptByProviders, LookupKeptByRegister, LookupKeptByNotice, LookupKeptByWait, Zenon DEF SeekStep
  <2>3. QED
    BY <2>1, <2>2, LookupKeptByChange, LookupKeptByLoss, Zenon DEF LookupNext
<1>2. LookupInv => LookupsHonest
  <2> SUFFICES ASSUME LookupInv PROVE LookupsHonest
    BY Zenon
  <2>1. WaitersWithdrawn
    BY DEF LookupInv, CallbacksWait, WaitersWithdrawn
  <2>2. OneServiceManager
    BY Zenon DEF LookupInv, StoredIsReturned, OneServiceManager
  <2>3. QED
    BY <2>1, <2>2, Zenon DEF LookupInv, LookupsHonest
<1>3. QED
  BY <1>1, <1>2, LookupStarts, PTL DEF LookupSpec

-----------------------------------------------------------------------------
(* RpcRefs: the timesSent books balance for any number of sends, objects and *)
(* addresses.  TimesSentInv and OneLiveProxy are inductive on top of the     *)
(* type invariant, and together they give NodeOutlivesProxy.                 *)
(* EventuallyFreed is left to TLC.                                           *)

\* Type correctness of both sides' tables and of every send's stage.
LEMMA TypeInvariant == Spec => []TypeOK
<1> USE RefsAssumption DEF TypeOK, Stages
<1>1. Init => TypeOK
  BY DEF Init
<1>2. TypeOK /\ [Next]_vars => TypeOK'
  <2> SUFFICES ASSUME TypeOK, [Next]_vars PROVE TypeOK'
    BY Zenon
  <2> USE DEF Move, owner, peer
  <2>0. ASSUME NEW a, DecStrong(a)
        PROVE  /\ binder' \in [Addrs -> Objects \cup {Nobody}]
               /\ strong' \in [Addrs -> Int]
               /\ byPtr' \in [Objects -> Addrs \cup {0}]
               /\ addrCounter' \in 0 .. AddrLimit
    BY <2>0 DEF DecStrong
  <2>1. ASSUME NEW s \in Sends, NEW o \in Objects, Resend(s, o) PROVE TypeOK'
    BY <2>1 DEF Resend
  <2>2. ASSUME NEW s \in Sends, NEW o \in Objects, FirstSend(s, o) PROVE TypeOK'
    <3>1. addrCounter < AddrLimit => addrCounter + 1 \in Addrs /\ addrCounter + 1 \in 0 .. AddrLimit
      BY DEF Addrs
    <3>2. QED
      BY <2>2, <3>1 DEF FirstSend
  <2>3. ASSUME NEW s \in Sends, Rollback(s) \/ ApplyDec(s) PROVE TypeOK'
    BY <2>0, <2>3, Zenon DEF Rollback, ApplyDec
  <2>4. ASSUME NEW s \in Sends, Receive(s) PROVE TypeOK'
    <3>1. Alive(table[addr[s]]) /\ table[addr[s]] # Nobody => table[addr[s]] \in Sends
      BY Zenon DEF Alive
    <3>2. QED
      BY <2>4, <3>1 DEF Receive
  <2>5. ASSUME NEW s \in Sends, Transmit(s) \/ Abandon(s) \/ Unread(s) \/ LoseDec(s) PROVE TypeOK'
    BY <2>5, Zenon DEF Transmit, Abandon, Unread, LoseDec
  <2>6. ASSUME NEW s \in Sends, ReturnExcess(s) \/ Release(s) PROVE TypeOK'
    BY <2>6, Zenon DEF ReturnExcess, Release
  <2>7. ASSUME NEW s \in Sends, DropProxy(s) \/ Forget(s) PROVE TypeOK'
    BY <2>7, Zenon DEF DropProxy, Forget
  <2>8. CASE UNCHANGED vars
    BY <2>8, Zenon DEF vars
  <2>9. QED
    BY <2>1, <2>2, <2>3, <2>4, <2>5, <2>6, <2>7, <2>8, Zenon
       DEF Next, Handover, Delivery, Return, Settled
<1>3. QED
  BY <1>1, <1>2, PTL DEF Spec

\* The sends are finitely many, and so their sets have sizes: the facts about
\* cardinalities that the books rest on (SendsCounted proves them).
Counting ==
    \A S \in SUBSET Sends :
        /\ Cardinality(S) \in Nat
        /\ Cardinality(S) = 0 <=> S = {}
        /\ \A s \in Sends \ S : Cardinality(S \cup {s}) = Cardinality(S) + 1
        /\ \A s \in S : Cardinality(S \ {s}) = Cardinality(S) - 1

\* How the number of outstanding references follows their set.
LEMMA OutCount ==
    ASSUME Counting, NEW a \in Addrs, NEW s \in Sends
    PROVE  /\ Cardinality(Out[a]) \in Nat
           /\ Cardinality(Out[a]) = 0 <=> Out[a] = {}
           /\ Cardinality(Out[a]) <= 1 /\ s \in Out[a] => Out[a] = {s}
           /\ Cardinality(Out[a]) > 1 => Out[a] # {s}
           /\ Out'[a] = Out[a] \cup {s} /\ s \notin Out[a]
                => Cardinality(Out'[a]) = Cardinality(Out[a]) + 1
           /\ Out'[a] = Out[a] \ {s} /\ s \in Out[a]
                => Cardinality(Out'[a]) = Cardinality(Out[a]) - 1
<1>1. Out[a] \in SUBSET Sends /\ Out[a] \ {s} \in SUBSET Sends /\ {} \in SUBSET Sends
  BY Zenon DEF Out
<1>2. /\ Cardinality(Out[a]) \in Nat /\ (Cardinality(Out[a]) = 0 <=> Out[a] = {})
      /\ s \notin Out[a] => Cardinality(Out[a] \cup {s}) = Cardinality(Out[a]) + 1
      /\ s \in Out[a] => Cardinality(Out[a] \ {s}) = Cardinality(Out[a]) - 1
  BY <1>1, Zenon DEF Counting
<1>3. Cardinality({}) = 0 /\ Cardinality({} \cup {s}) = Cardinality({}) + 1
  BY <1>1, Zenon DEF Counting
<1>4. Cardinality(Out[a]) <= 1 /\ s \in Out[a] => Out[a] = {s}
  <2> SUFFICES ASSUME Cardinality(Out[a]) <= 1, s \in Out[a] PROVE Out[a] = {s}
    BY Zenon
  <2>1. Cardinality(Out[a] \ {s}) = 0
    BY <1>2
  <2>2. Out[a] \ {s} = {}
    BY <1>1, <2>1, Zenon DEF Counting
  <2>3. QED
    BY <2>2, Zenon
<1>5. Cardinality(Out[a]) > 1 => Out[a] # {s}
  <2>1. {s} = {} \cup {s}
    BY Zenon
  <2>2. QED
    BY <1>3, <2>1
<1>6. QED
  BY <1>2, <1>4, <1>5, Zenon

\* A step that moves a reference from one outstanding stage to another, and
\* leaves the owner's tables alone, keeps the books.
LEMMA BooksUntouched ==
    ASSUME TypeOK, TimesSentInv, UNCHANGED <<owner, addr>>,
           \A s \in Sends : \/ st'[s] = st[s]
                            \/ /\ st[s] \notin {"refused", "done"}
                               /\ st'[s] = "refused" => st[s] = "idle"
                               /\ st'[s] # "refused" => st[s] # "idle"
                               /\ st'[s] \notin {"idle", "done"}
    PROVE  TimesSentInv'
<1>1. Out' = Out
  BY Zenon DEF Out, owner
<1>2. QED
  BY <1>1 DEF TimesSentInv, owner, TypeOK

\* Getting one outstanding reference back keeps the books: cancel_binder_leaving
\* and dec_strong_local.
LEMMA BooksReturn ==
    ASSUME Counting, TypeOK, TimesSentInv, NEW s \in Sends,
           st[s] \notin {"idle", "refused", "done"},
           DecStrong(addr[s]), Move(s, "done"), UNCHANGED addr
    PROVE  TimesSentInv'
<1> DEFINE a == addr[s]
<1>1. a \in Addrs /\ a <= addrCounter /\ s \in Out[a]
  BY DEF TimesSentInv, Out, Addrs, TypeOK
<1>2. Out'[a] = Out[a] \ {s} /\ \A b \in Addrs : b # a => Out'[b] = Out[b]
  BY <1>1 DEF Out, Move, TypeOK
<1>3. binder[a] # Nobody /\ strong[a] = Cardinality(Out[a])
  BY <1>1, Zenon DEF TimesSentInv
<1>4. Cardinality(Out'[a]) = Cardinality(Out[a]) - 1 /\ Cardinality(Out[a]) \in Nat
  BY <1>1, <1>2, OutCount, Zenon
<1>5. addrCounter' = addrCounter
  BY Zenon DEF DecStrong
<1>6. /\ \A b \in Addrs : b > addrCounter' => Out'[b] = {}
      /\ \A t \in Sends : st'[t] \notin {"idle", "refused"} => addr'[t] \in 1 .. addrCounter'
  BY <1>1, <1>2, <1>5 DEF TimesSentInv, Move, TypeOK
<1>7. CASE strong[a] > 1
  <2>1. strong' = [strong EXCEPT ![a] = @ - 1] /\ UNCHANGED <<binder, byPtr>>
    BY <1>1, <1>3, <1>7 DEF DecStrong, TypeOK
  <2>2. Out'[a] # {}
    BY <1>1, <1>2, <1>3, <1>7, OutCount
  <2>3. strong'[a] = Cardinality(Out'[a]) /\ binder'[a] # Nobody
    BY <1>1, <1>3, <1>4, <2>1, Zenon DEF TypeOK
  <2>4. \A b \in Addrs : b # a => strong'[b] = strong[b] /\ binder'[b] = binder[b]
    BY <2>1, Zenon DEF TypeOK
  <2>5. \A b \in Addrs : strong'[b] = Cardinality(Out'[b]) /\ (binder'[b] = Nobody <=> Out'[b] = {})
    <3> TAKE b \in Addrs
    <3>1. CASE b = a
      BY <2>2, <2>3, <3>1, Zenon
    <3>2. CASE b # a
      BY <1>2, <2>4, <3>2 DEF TimesSentInv
    <3>3. QED
      BY <3>1, <3>2, Zenon
  <2>6. QED
    BY <1>6, <2>1, <2>5, Zenon DEF TimesSentInv
<1>8. CASE ~(strong[a] > 1)
  <2>0. strong[a] <= 1
    BY <1>1, <1>8 DEF TypeOK
  <2>1. /\ strong' = [strong EXCEPT ![a] = 0]
        /\ binder' = [binder EXCEPT ![a] = Nobody]
        /\ byPtr' = [o \in Objects |-> IF byPtr[o] = a THEN 0 ELSE byPtr[o]]
    BY <1>1, <1>3, <2>0 DEF DecStrong, TypeOK
  <2>2. Out'[a] = {}
    BY <1>1, <1>2, <1>3, <2>0, OutCount, Zenon
  <2>3. Cardinality(Out'[a]) = 0
    BY <1>1, <2>2, Zenon DEF Counting
  <2>4. \A b \in Addrs : strong'[b] = Cardinality(Out'[b]) /\ (binder'[b] = Nobody <=> Out'[b] = {})
    <3>1. strong'[a] = 0 /\ binder'[a] = Nobody
      BY <1>1, <2>1, Zenon DEF TypeOK
    <3>2. \A b \in Addrs : b # a => strong'[b] = strong[b] /\ binder'[b] = binder[b]
      BY <2>1, Zenon DEF TypeOK
    <3>3. QED
      BY <1>2, <2>2, <2>3, <3>1, <3>2, ZenonT(60) DEF TimesSentInv
  <2>5. \A o \in Objects, b \in Addrs : byPtr'[o] = b <=> binder'[b] = o
    BY <1>1, <2>1, RefsAssumption DEF TimesSentInv, TypeOK, Addrs
  <2>6. QED
    BY <1>6, <2>4, <2>5, Zenon DEF TimesSentInv
<1>9. QED
  BY <1>7, <1>8, Zenon

\* Every critical section and message keeps timesSent equal to the number of
\* references that are out.
LEMMA TimesSentStep ==
    ASSUME Counting, TypeOK, TimesSentInv, [Next]_vars
    PROVE  TimesSentInv'
<1>1. ASSUME NEW s \in Sends, NEW o \in Objects, Resend(s, o) PROVE TimesSentInv'
  <2> DEFINE a == byPtr[o]
  <2>1. a \in Addrs /\ binder[a] = o /\ a <= addrCounter
    <3>1. a \in Addrs /\ binder[a] = o
      BY <1>1 DEF Resend, TypeOK, TimesSentInv
    <3>2. Out[a] # {}
      BY <3>1, RefsAssumption, Zenon DEF TimesSentInv
    <3>3. QED
      BY <3>1, <3>2 DEF TimesSentInv, TypeOK, Addrs
  <2>2. Out'[a] = Out[a] \cup {s} /\ s \notin Out[a] /\ \A b \in Addrs : b # a => Out'[b] = Out[b]
    BY <1>1, <2>1 DEF Resend, Out, Move, TypeOK
  <2>3. Cardinality(Out'[a]) = Cardinality(Out[a]) + 1
    BY <2>1, <2>2, OutCount, Zenon
  <2>4. \A b \in Addrs : strong'[b] = Cardinality(Out'[b]) /\ (binder'[b] = Nobody <=> Out'[b] = {})
    <3>1. strong'[a] = strong[a] + 1 /\ binder' = binder
      BY <1>1, <2>1, Zenon DEF Resend, TypeOK
    <3>2. \A b \in Addrs : b # a => strong'[b] = strong[b]
      BY <1>1, Zenon DEF Resend, TypeOK
    <3>3. binder'[a] # Nobody /\ Out'[a] # {}
      BY <2>1, <2>2, <3>1, RefsAssumption, Zenon
    <3> TAKE b \in Addrs
    <3>4. CASE b = a
      BY <2>1, <2>3, <3>1, <3>3, <3>4, Zenon DEF TimesSentInv
    <3>5. CASE b # a
      BY <2>2, <3>1, <3>2, <3>5 DEF TimesSentInv
    <3>6. QED
      BY <3>4, <3>5, Zenon
  <2>5. \A t \in Sends : st'[t] \notin {"idle", "refused"} => addr'[t] \in 1 .. addrCounter'
    BY <1>1, <2>1 DEF Resend, Move, TimesSentInv, TypeOK, Addrs
  <2>6. \A b \in Addrs : b > addrCounter' => Out'[b] = {}
    BY <1>1, <2>1, <2>2 DEF Resend, TimesSentInv, TypeOK, Addrs
  <2>7. QED
    BY <1>1, <2>4, <2>5, <2>6, Zenon DEF Resend, TimesSentInv
<1>2. ASSUME NEW s \in Sends, NEW o \in Objects, FirstSend(s, o), addrCounter < AddrLimit
      PROVE TimesSentInv'
  <2>p. PICK n \in Nat : n = addrCounter + 1
    BY RefsAssumption DEF TypeOK
  <2>1. n \in Addrs /\ n > addrCounter /\ addrCounter' = n /\ Out[n] = {} /\ binder[n] = Nobody
    BY <1>2, <2>p, RefsAssumption DEF FirstSend, Addrs, TypeOK, TimesSentInv
  <2>0. /\ st[s] = "idle" /\ byPtr[o] = 0
        /\ addr' = [addr EXCEPT ![s] = n] /\ st' = [st EXCEPT ![s] = "leaving"]
        /\ binder' = [binder EXCEPT ![n] = o] /\ strong' = [strong EXCEPT ![n] = 1]
        /\ byPtr' = [byPtr EXCEPT ![o] = n]
    BY <1>2, <2>1, RefsAssumption DEF FirstSend, Move, TypeOK
  <2>2. Out'[n] = {s} /\ \A b \in Addrs : b # n => Out'[b] = Out[b]
    <3>1. \A t \in Sends : t # s /\ addr[t] = n => st[t] \in {"idle", "refused", "done"}
      BY <2>1, Zenon DEF Out
    <3>2. QED
      BY <2>0, <2>1, <3>1 DEF Out, TypeOK
  <2>3. Cardinality(Out'[n]) = 1
    <3>1. Out'[n] = Out[n] \cup {s} /\ s \notin Out[n]
      BY <2>1, <2>2, Zenon
    <3>2. Cardinality(Out[n]) = 0 /\ Cardinality(Out'[n]) = Cardinality(Out[n]) + 1
      BY <2>1, <3>1, OutCount, Zenon
    <3>3. QED
      BY <3>2
  <2>4. \A b \in Addrs : strong'[b] = Cardinality(Out'[b]) /\ (binder'[b] = Nobody <=> Out'[b] = {})
    <3>1. strong'[n] = Cardinality(Out'[n]) /\ (binder'[n] = Nobody <=> Out'[n] = {})
      BY <2>0, <2>1, <2>2, <2>3, RefsAssumption, Zenon DEF TypeOK
    <3>2. \A b \in Addrs : b # n => strong'[b] = strong[b] /\ binder'[b] = binder[b]
      BY <2>0, Zenon DEF TypeOK
    <3>3. QED
      BY <2>2, <3>1, <3>2, Zenon DEF TimesSentInv
  <2>5. \A p \in Objects, b \in Addrs : byPtr'[p] = b <=> binder'[b] = p
    <3>1. \A p \in Objects : byPtr[p] # n
      BY <2>1, RefsAssumption, Zenon DEF TimesSentInv
    <3>2. \A b \in Addrs : binder[b] # o
      BY <2>0 DEF TimesSentInv, Addrs
    <3>3. QED
      BY <2>0, <2>1, <3>1, <3>2 DEF TimesSentInv, TypeOK
  <2>6. \A b \in Addrs : b > addrCounter' => Out'[b] = {}
    BY <2>1, <2>2 DEF TimesSentInv, TypeOK, Addrs
  <2>7. \A t \in Sends : st'[t] \notin {"idle", "refused"} => addr'[t] \in 1 .. addrCounter'
    BY <1>2, <2>1, RefsAssumption DEF FirstSend, TimesSentInv, TypeOK, Move
  <2>8. QED
    BY <2>4, <2>5, <2>6, <2>7, Zenon DEF TimesSentInv
<1>3. ASSUME NEW s \in Sends, NEW o \in Objects, FirstSend(s, o), ~(addrCounter < AddrLimit)
      PROVE TimesSentInv'
  BY <1>3, BooksUntouched, Zenon DEF FirstSend, Move, TypeOK
<1>4. ASSUME NEW s \in Sends, Rollback(s) \/ ApplyDec(s) PROVE TimesSentInv'
  BY <1>4, BooksReturn, Zenon DEF Rollback, ApplyDec
<1>5. ASSUME NEW s \in Sends, Transmit(s) \/ Abandon(s) \/ Unread(s) \/ LoseDec(s) \/ ReturnExcess(s)
      PROVE TimesSentInv'
  BY <1>5, BooksUntouched, Zenon DEF Transmit, Abandon, Unread, LoseDec, ReturnExcess, Move, TypeOK
<1>6. ASSUME NEW s \in Sends, Receive(s) PROVE TimesSentInv'
  BY <1>6, BooksUntouched, Zenon DEF Receive, Move, TypeOK
<1>7. ASSUME NEW s \in Sends, Release(s) \/ Forget(s) PROVE TimesSentInv'
  BY <1>7, BooksUntouched, Zenon DEF Release, Forget
<1>8. ASSUME NEW s \in Sends, DropProxy(s) PROVE TimesSentInv'
  BY <1>8, BooksUntouched, Zenon DEF DropProxy, Move, TypeOK
<1>9. CASE UNCHANGED vars
  BY <1>9, BooksUntouched, Zenon DEF vars, owner
<1>10. QED
  BY <1>1, <1>2, <1>3, <1>4, <1>5, <1>6, <1>7, <1>8, <1>9, Zenon
     DEF Next, Handover, Delivery, Return, Settled

\* A receipt keeps, and a dying proxy cannot disturb, the one live proxy of
\* its address.
LEMMA OneLiveProxyStep ==
    TypeOK /\ TimesSentInv /\ OneLiveProxy /\ [Next]_vars => OneLiveProxy'
<1> SUFFICES ASSUME TypeOK, TimesSentInv, OneLiveProxy, [Next]_vars PROVE OneLiveProxy'
  BY Zenon
<1> USE RefsAssumption DEF Move, owner, peer
<1>0. \A s \in Sends : st[s] \notin {"idle", "refused"} => addr[s] \in Addrs
  BY DEF TimesSentInv, TypeOK, Addrs
<1>1. ASSUME NEW s \in Sends, NEW o \in Objects, Resend(s, o) \/ FirstSend(s, o) PROVE OneLiveProxy'
  <2>1. /\ st[s] = "idle" /\ prox[s] = Nobody /\ s \notin forgetting
        /\ UNCHANGED <<prox, table, forgetting>>
        /\ \A t \in Sends : t # s => st'[t] = st[t] /\ addr'[t] = addr[t]
    BY <1>1 DEF Resend, FirstSend, OneLiveProxy, TypeOK
  <2>2. \A t \in Sends : prox[t] # s
    BY <2>1 DEF OneLiveProxy
  <2>3. \A a \in Addrs : table[a] # s
    BY <2>1 DEF OneLiveProxy
  <2>4. QED
    BY <2>1, <2>2, <2>3 DEF OneLiveProxy, TypeOK
<1>2. ASSUME NEW s \in Sends, Receive(s) PROVE OneLiveProxy'
  BY <1>0, <1>2 DEF Receive, Alive, OneLiveProxy, TypeOK
<1>3. ASSUME NEW s \in Sends, DropProxy(s) PROVE OneLiveProxy'
  BY <1>0, <1>3 DEF DropProxy, Alive, OneLiveProxy, TypeOK
<1>4. ASSUME NEW s \in Sends, Forget(s) PROVE OneLiveProxy'
  BY <1>0, <1>4 DEF Forget, OneLiveProxy, TypeOK
<1>5. ASSUME NEW s \in Sends, Handover(s) PROVE OneLiveProxy'
  BY <1>5 DEF Handover, Transmit, Rollback, Abandon, OneLiveProxy, TypeOK
<1>6. ASSUME NEW s \in Sends, Unread(s) \/ ReturnExcess(s) \/ Release(s) \/ Return(s) PROVE OneLiveProxy'
  BY <1>6 DEF Unread, ReturnExcess, Release, Return, ApplyDec, LoseDec, OneLiveProxy, TypeOK
<1>7. CASE UNCHANGED vars
  BY <1>7, Zenon DEF vars, OneLiveProxy
<1>8. QED
  BY <1>1, <1>2, <1>3, <1>4, <1>5, <1>6, <1>7, Zenon DEF Next, Delivery, Settled

INSTANCE FiniteSetTheorems

\* The sends are finitely many.
LEMMA SendsCounted == Counting
<1> SUFFICES ASSUME NEW S \in SUBSET Sends
             PROVE  /\ Cardinality(S) \in Nat
                    /\ Cardinality(S) = 0 <=> S = {}
                    /\ \A s \in Sends \ S : Cardinality(S \cup {s}) = Cardinality(S) + 1
                    /\ \A s \in S : Cardinality(S \ {s}) = Cardinality(S) - 1
  BY Zenon DEF Counting
<1>1. IsFiniteSet(S)
  BY RefsAssumption, FS_Subset, Zenon
<1>2. Cardinality(S) \in Nat /\ (Cardinality(S) = 0 <=> S = {})
  BY <1>1, FS_CardinalityType, FS_EmptySet, Zenon
<1>3. QED
  BY <1>1, <1>2, FS_AddElement, FS_RemoveElement, Zenon

\* timesSent always counts the references that are out, for every number of
\* sends, objects and addresses.
THEOREM TimesSentCorrect == Spec => []TimesSentInv
<1>1. Init => TimesSentInv
  <2> SUFFICES ASSUME Init PROVE TimesSentInv
    BY Zenon
  <2>1. \A a \in Addrs : Out[a] = {}
    BY Zenon DEF Init, Out
  <2>2. \A a \in Addrs : strong[a] = Cardinality(Out[a]) /\ binder[a] = Nobody
    BY <2>1, FS_EmptySet, Zenon DEF Init
  <2>3. \A o \in Objects, a \in Addrs : byPtr[o] # a /\ binder[a] # o
    BY RefsAssumption DEF Init, Addrs
  <2>4. QED
    BY <2>1, <2>2, <2>3, Zenon DEF Init, TimesSentInv
<1>2. TypeOK /\ TimesSentInv /\ [Next]_vars => TimesSentInv'
  BY SendsCounted, TimesSentStep, Zenon
<1>3. QED
  BY <1>1, <1>2, TypeInvariant, PTL DEF Spec

\* There is never more than one live proxy for an address, and remote_proxies
\* always leads to it.
THEOREM OneLiveProxyCorrect == Spec => []OneLiveProxy
<1>1. Init => OneLiveProxy
  BY Zenon DEF Init, OneLiveProxy
<1>2. QED
  BY <1>1, TypeInvariant, TimesSentCorrect, OneLiveProxyStep, PTL DEF Spec

\* An object stays registered as long as any receiver holds it.
THEOREM NodeKept == Spec => []NodeOutlivesProxy
<1>1. TypeOK /\ TimesSentInv /\ OneLiveProxy => NodeOutlivesProxy
  <2> SUFFICES ASSUME TypeOK, TimesSentInv, OneLiveProxy,
                      NEW s \in Sends, prox[s] # Nobody
               PROVE  binder[addr[s]] # Nobody
    BY Zenon DEF NodeOutlivesProxy
  <2>1. addr[s] \in Addrs
    BY DEF OneLiveProxy, TimesSentInv, TypeOK, Addrs
  <2>2. prox[s] \in Out[addr[s]]
    BY <2>1 DEF OneLiveProxy, Out, TypeOK
  <2>3. QED
    BY <2>1, <2>2, Zenon DEF TimesSentInv
<1>2. QED
  BY <1>1, TypeInvariant, TimesSentCorrect, OneLiveProxyCorrect, PTL

\* All of RefsBalanced, for any number of objects, addresses and sends.
THEOREM BooksBalance == Spec => []RefsBalanced
BY TimesSentCorrect, OneLiveProxyCorrect, NodeKept, PTL DEF RefsBalanced
=============================================================================
