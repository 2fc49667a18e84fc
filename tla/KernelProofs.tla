--------------------------- MODULE KernelProofs ---------------------------
(***************************************************************************)
(* Proofs about the kernel stack: the reference counters of a proxy        *)
(* (RefCounter, with CountInv), the thread pool (ThreadPool, with PoolInv) *)
(* and the proxy counters of a uid (ProxyCount, with UidCountInv), for     *)
(* every set of owners or threads and every bound.  What is to happen      *)
(* eventually is left to TLC.                                              *)
(***************************************************************************)
EXTENDS RefCounter, ThreadPool, ProxyCount, FiniteSetTheorems, TLAPS

(* RefCounter *)

\* The values the counter takes have their types.
LEMMA TypeInvariant == Spec => []TypeOK
<1>1. Init => TypeOK
  BY RefsAssumption DEF Init, TypeOK, Labels
<1>2. TypeOK /\ [Next]_vars => TypeOK'
  <2> SUFFICES ASSUME TypeOK, [Next]_vars PROVE TypeOK'
    BY Zenon
  <2> USE RefsAssumption DEF TypeOK, Labels, Goto
  <2>1. ASSUME NEW r \in Refs, IncAdd(r) PROVE TypeOK'
    BY <2>1 DEF IncAdd
  <2>2. ASSUME NEW r \in Refs, IncSub(r) PROVE TypeOK'
    BY <2>2 DEF IncSub
  <2>3. ASSUME NEW r \in Refs, AttLoad(r) PROVE TypeOK'
    BY <2>3, Zenon DEF AttLoad, AfterRead
  <2>4. ASSUME NEW r \in Refs, AttCas(r) PROVE TypeOK'
    BY <2>4 DEF AttCas, AfterRead
  <2>5. ASSUME NEW r \in Refs, AttStrong(r) PROVE TypeOK'
    BY <2>5 DEF AttStrong
  <2>6. ASSUME NEW r \in Refs, AttSub(r) PROVE TypeOK'
    BY <2>6 DEF AttSub
  <2>7. ASSUME NEW r \in Refs, DecSub(r) PROVE TypeOK'
    BY <2>7 DEF DecSub
  <2>8. ASSUME NEW r \in Refs, DecCas(r) PROVE TypeOK'
    BY <2>8 DEF DecCas
  <2>9. CASE UNCHANGED vars
    BY <2>9, Zenon DEF vars
  <2>10. QED
    BY <2>1, <2>2, <2>3, <2>4, <2>5, <2>6, <2>7, <2>8, <2>9, Zenon DEF Next
<1>3. QED
  BY <1>1, <1>2, PTL DEF Spec

\* The set of counted references is finite and smaller than the sentinel.
LEMMA CountedBounds ==
    /\ IsFiniteSet(Counted)
    /\ Cardinality(Counted) \in Nat
    /\ Cardinality(Counted) < INITIAL_STRONG_VALUE
    /\ Cardinality(Counted) = 0 <=> Counted = {}
<1>1. Counted \subseteq Refs
  BY Zenon DEF Counted
<1>2. IsFiniteSet(Counted) /\ Cardinality(Counted) <= Cardinality(Refs)
  BY <1>1, RefsAssumption, FS_Subset, Zenon
<1>3. QED
  BY <1>2, RefsAssumption, FS_CardinalityType, FS_EmptySet

\* What adding and removing one owner does to the number of references.
LEMMA CountedStep ==
    ASSUME NEW r \in Refs
    PROVE  /\ Counted' = Counted \cup {r} /\ r \notin Counted
                => Cardinality(Counted') = Cardinality(Counted) + 1
           /\ Counted' = Counted \ {r} /\ r \in Counted
                => Cardinality(Counted') = Cardinality(Counted) - 1
  BY CountedBounds, FS_AddElement, FS_RemoveElement

\* Every atomic step of inc, attempt_inc and dec keeps the count equal to the
\* number of references, the sentinel accounted for.
LEMMA CountStep == TypeOK /\ CountInv /\ [Next]_vars => CountInv'
<1> SUFFICES ASSUME TypeOK, CountInv, [Next]_vars PROVE CountInv'
  BY Zenon
<1> DEFINE C == Cardinality(Counted)
<1>0. /\ C \in Nat /\ C < INITIAL_STRONG_VALUE /\ (C = 0 <=> Counted = {})
      /\ INITIAL_STRONG_VALUE \in Nat /\ count \in Int
  BY CountedBounds, RefsAssumption, Zenon DEF TypeOK
<1> DEFINE CursorInv == \A q \in Refs : pc[q] = "att_cas" => curr[q] # INITIAL_STRONG_VALUE
<1>c. CursorInv'
  BY Zenon DEF CountInv, Next, vars, IncAdd, IncSub, AttLoad, AttCas, AttStrong, AttSub, DecSub,
         DecCas, AfterRead, Goto, TypeOK, Labels
<1>1. ASSUME NEW r \in Refs, IncAdd(r) PROVE CountInv'
  <2>1. r \notin Counted /\ Counted' = Counted \cup {r}
    BY <1>1, Zenon DEF IncAdd, Goto, Counted, TypeOK
  <2>2. Cardinality(Counted') = C + 1
    BY <2>1, CountedStep, Zenon
  <2>3. CASE count = INITIAL_STRONG_VALUE
    <3>1. Counted = {}
      BY <1>0, <2>3 DEF CountInv, Clearing, Counted
    <3>2. Clearing' = {r}
      BY <1>1, <2>3, <3>1, Zenon DEF IncAdd, Goto, Clearing, Counted, TypeOK
    <3>3. QED
      BY <1>c, <1>0, <1>1, <2>2, <2>3, <3>1, <3>2 DEF CountInv, IncAdd
  <2>4. CASE count # INITIAL_STRONG_VALUE
    <3>1. Clearing' = Clearing
      BY <1>1, <2>4, Zenon DEF IncAdd, Goto, Clearing, TypeOK
    <3>2. QED
      BY <1>c, <1>0, <1>1, <2>2, <2>4, <3>1 DEF CountInv, IncAdd
  <2>5. QED
    BY <2>3, <2>4, Zenon
<1>2. ASSUME NEW r \in Refs, IncSub(r) \/ AttSub(r) PROVE CountInv'
  <2>1. r \in Clearing /\ r \in Counted /\ Counted' = Counted
    BY <1>2, Zenon DEF IncSub, AttSub, Goto, Clearing, Counted, TypeOK
  <2>2. Clearing = {r} /\ count = INITIAL_STRONG_VALUE + C
    BY <2>1, Zenon DEF CountInv
  <2>3. Clearing' = {}
    BY <1>2, <2>2, Zenon DEF IncSub, AttSub, Goto, Clearing, TypeOK
  <2>4. count' = C /\ C # 0
    BY <1>0, <1>2, <2>1, <2>2 DEF IncSub, AttSub
  <2>5. QED
    BY <1>c, <2>1, <2>3, <2>4, Zenon DEF CountInv
<1>3. ASSUME NEW r \in Refs, AttLoad(r) PROVE CountInv'
  <2>1. Counted' = Counted /\ Clearing' = Clearing
    BY <1>3, Zenon DEF AttLoad, AfterRead, Goto, Clearing, Counted, TypeOK
  <2>2. count' = count /\ \A q \in Refs : pc[q] = "dec_cas" => pc'[q] = "dec_cas"
    BY <1>3, Zenon DEF AttLoad, AfterRead, Goto, TypeOK
  <2>3. QED
    BY <1>c, <2>1, <2>2, Zenon DEF CountInv
<1>4. ASSUME NEW r \in Refs, AttCas(r) \/ AttStrong(r), count # curr[r] PROVE CountInv'
  <2>1. Counted' = Counted /\ Clearing' = Clearing
    BY <1>4, Zenon DEF AttCas, AttStrong, AfterRead, Goto, Clearing, Counted, TypeOK
  <2>2. count' = count /\ \A q \in Refs : pc[q] = "dec_cas" => pc'[q] = "dec_cas"
    BY <1>4, Zenon DEF AttCas, AttStrong, AfterRead, Goto, TypeOK
  <2>3. QED
    BY <1>c, <2>1, <2>2 DEF CountInv
<1>5. ASSUME NEW r \in Refs, AttCas(r) \/ AttStrong(r), count = curr[r] PROVE CountInv'
  <2>1. r \notin Counted /\ Counted' = Counted \cup {r} /\ count' = count + 1
    BY <1>5, Zenon DEF AttCas, AttStrong, Goto, Counted, TypeOK
  <2>2. Cardinality(Counted') = C + 1
    BY <2>1, CountedStep, Zenon
  <2>3. CASE pc'[r] = "att_sub"
    <3>1. count = INITIAL_STRONG_VALUE
      BY <1>5, <2>3, Zenon DEF AttCas, AttStrong, Goto, TypeOK
    <3>2. Counted = {}
      BY <1>0, <3>1 DEF CountInv, Clearing, Counted
    <3>3. Clearing' = {r}
      BY <1>5, <2>3, <3>2, Zenon DEF AttCas, AttStrong, Goto, Clearing, Counted, TypeOK
    <3>4. QED
      BY <1>c, <1>0, <2>1, <2>2, <3>1, <3>2, <3>3 DEF CountInv
  <2>4. CASE pc'[r] # "att_sub"
    <3>1. Clearing' = Clearing
      BY <1>5, <2>4, Zenon DEF AttCas, AttStrong, Goto, Clearing, TypeOK
    <3>2. ~(Counted = {} /\ count = INITIAL_STRONG_VALUE)
      BY <1>5, <2>4, Zenon DEF AttCas, AttStrong, Goto, TypeOK, CountInv
    <3>3. QED
      BY <1>c, <1>0, <2>1, <2>2, <3>1, <3>2 DEF CountInv
  <2>5. QED
    BY <2>3, <2>4, Zenon
<1>6. ASSUME NEW r \in Refs, DecSub(r) PROVE CountInv'
  <2>1. /\ r \in Counted /\ Counted' = Counted \ {r} /\ Clearing' = Clearing
        /\ count' = count - 1
    BY <1>6, Zenon DEF DecSub, Goto, Counted, Clearing, TypeOK
  <2>2. Cardinality(Counted') = C - 1 /\ Counted # {}
    BY <2>1, CountedStep, Zenon
  <2>3. count' = 0 => pc'[r] = "dec_cas"
    BY <1>0, <1>6 DEF DecSub, Goto, TypeOK
  <2>4. QED
    BY <1>c, <1>0, <2>1, <2>2, <2>3 DEF CountInv
<1>7. ASSUME NEW r \in Refs, DecCas(r) PROVE CountInv'
  <2>1. Counted' = Counted /\ Clearing' = Clearing
    BY <1>7, Zenon DEF DecCas, Goto, Clearing, Counted, TypeOK
  <2>2. CASE count = 0
    <3>1. Counted = {}
      BY <1>0, <2>2 DEF CountInv
    <3>2. QED
      BY <1>c, <1>0, <1>7, <2>1, <2>2, <3>1 DEF CountInv, DecCas
  <2>3. CASE count # 0
    BY <1>c, <1>7, <2>1, <2>3, Zenon DEF CountInv, DecCas
  <2>4. QED
    BY <2>2, <2>3, Zenon
<1>8. CASE UNCHANGED vars
  BY <1>8, Zenon DEF vars, CountInv, Counted, Clearing
<1>9. QED
  BY <1>1, <1>2, <1>3, <1>4, <1>5, <1>6, <1>7, <1>8, Zenon DEF Next

\* At every instant the counter is the number of references, plus the sentinel
\* while it is armed or being removed (inc, attempt_inc and dec of
\* ref_counter.rs, for any number of owners below the sentinel).
THEOREM CountCorrect == Spec => []CountInv
<1>1. Init => CountInv
  BY RefsAssumption, FS_EmptySet, FS_CardinalityType DEF Init, CountInv, Counted, Clearing
<1>2. QED
  BY <1>1, TypeInvariant, CountStep, PTL DEF Spec

\* The debug assertions of dec and attempt_inc never fire.
THEOREM UnderflowFree == Spec => []NoUnderflow
<1>1. TypeOK /\ CountInv => NoUnderflow
  <2> SUFFICES ASSUME TypeOK, CountInv PROVE NoUnderflow
    BY Zenon
  <2>1. (\E r \in Refs : pc[r] = "held") => Counted # {}
    BY Zenon DEF Counted
  <2>2. QED
    BY <2>1, CountedBounds, RefsAssumption DEF CountInv, NoUnderflow
<1>2. QED
  BY <1>1, TypeInvariant, CountCorrect, PTL

\* With no owner inside the counter, the sentinel is armed.
THEOREM SentinelRearmed == Spec => []QuiescentIsArmed
<1>1. TypeOK /\ CountInv => QuiescentIsArmed
  <2> SUFFICES ASSUME TypeOK, CountInv, \A r \in Refs : pc[r] = "none"
               PROVE count = INITIAL_STRONG_VALUE
    BY Zenon DEF QuiescentIsArmed
  <2>1. Counted = {} /\ Clearing = {}
    BY Zenon DEF Counted, Clearing
  <2>2. count # 0
    BY Zenon DEF CountInv
  <2>3. QED
    BY <2>1, <2>2, CountedBounds, Zenon DEF CountInv
<1>2. QED
  BY <1>1, TypeInvariant, CountCorrect, PTL

\* attempt_inc fails only when no reference exists.
THEOREM AttemptReliable == Spec => AttemptFailsOnlyUnreferenced
<1> DEFINE A == \A r \in Refs :
      pc[r] \in {"att_cas", "att_strong"} /\ pc'[r] = "none" => Counted = {}
<1>1. TypeOK /\ CountInv /\ [Next]_vars => [A]_vars
  <2> SUFFICES ASSUME TypeOK, CountInv, Next, NEW q \in Refs,
                      pc[q] \in {"att_cas", "att_strong"}, pc'[q] = "none"
               PROVE  Counted = {}
    BY Zenon DEF vars
  <2>1. count <= 0
    BY RefsAssumption, Zenon DEF Next, IncAdd, IncSub, AttLoad, AttCas, AttStrong, AttSub, DecSub,
          DecCas, AfterRead, Goto, TypeOK, Labels
  <2>2. QED
    BY <2>1, CountedBounds, RefsAssumption DEF CountInv, TypeOK
<1>2. QED
  BY <1>1, TypeInvariant, CountCorrect, PTL DEF Spec, AttemptFailsOnlyUnreferenced

\* All of CounterSafe, for any number of owners.
THEOREM CounterCorrect == Spec => CounterSafe
BY CountCorrect, UnderflowFree, SentinelRearmed, AttemptReliable, PTL DEF CounterSafe


-----------------------------------------------------------------------------
(* ThreadPool *)

LooperRec == [at : {"none", "spawned", "joined", "waiting", "busy", "unsent", "leaving", "left", "lost"},
              main : BOOLEAN]

PoolBudgets == [manual : Nat, work : Nat, faults : Nat, refused : BOOLEAN]

PoolTypeOK ==
    /\ poolStarted \in BOOLEAN /\ startCounting \in BOOLEAN
    /\ mainSpawned \in Nat /\ kernelStarted \in Nat /\ currentThreads \in Nat /\ startCalls \in Nat
    /\ looper \in [PoolThreads -> LooperRec]
    /\ inBatch \subseteq PoolThreads /\ counting \subseteq PoolThreads
    /\ book \in [requested : {0, 1}, started : Nat, unasked : BOOLEAN]
    /\ poolBudget \in PoolBudgets

\* The threads BR_SPAWN_LOOPER started that the driver has not heard of.
Unheard == Coming \cup Lost

\* The driver has at most one request open.  Whoever answers it is one thread:
\* the one that read BR_SPAWN_LOOPER or the one it started.
OneOwed ==
    /\ \A t \in inBatch \cup counting : looper[t].at = "busy"
    /\ inBatch \cap counting = {}
    /\ \A t, u \in inBatch \cup Coming : t = u
    /\ inBatch \cup Coming # {} => book.requested = 1
    /\ book.started + book.requested <= MaxLoopers
    /\ ~book.unasked

\* Nobody answers only if a spawn failed, if the thread could not send its
\* registration, or if the request was made before the pool was started.
OwedIsComing ==
    /\ ~LateStart /\ ~poolStarted => \A t \in PoolThreads : looper[t] = Nobody
    /\ ~LateStart /\ ~poolBudget.refused /\ Lost = {} /\ book.requested = 1
          => inBatch \cup Coming # {}

PoolInv ==
    /\ PoolTypeOK /\ OneOwed /\ OwedIsComing
    /\ currentThreads = Cardinality(InPool)
    /\ kernelStarted + Cardinality(counting) = book.started + Cardinality(Unheard)
    /\ mainSpawned <= 1 /\ (startCounting => mainSpawned = 0)
    /\ ~poolStarted => mainSpawned = 0 /\ ~startCounting

\* The three sets that are counted are finite.
LEMMA PoolFinite ==
    ASSUME PoolTypeOK
    PROVE  /\ IsFiniteSet(InPool) /\ Cardinality(InPool) \in Nat
           /\ IsFiniteSet(Unheard) /\ Cardinality(Unheard) \in Nat
           /\ IsFiniteSet(counting) /\ Cardinality(counting) \in Nat
<1>1. InPool \subseteq PoolThreads /\ Unheard \subseteq PoolThreads /\ counting \subseteq PoolThreads
  BY Zenon DEF InPool, Unheard, Coming, Lost, PoolTypeOK
<1>2. QED
  BY <1>1, PoolAssumption, FS_Subset, FS_CardinalityType, Zenon

\* A set changes its count by the one element that joins or leaves it.
LEMMA OneMoves ==
    ASSUME NEW S, IsFiniteSet(S), NEW t
    PROVE  /\ Cardinality(S \cup {t}) = IF t \in S THEN Cardinality(S) ELSE Cardinality(S) + 1
           /\ Cardinality(S \ {t}) = IF t \in S THEN Cardinality(S) - 1 ELSE Cardinality(S)
  BY FS_AddElement, FS_RemoveElement, Zenon

\* Where a thread goes decides the sets.
LEMMA PoolMoved ==
    ASSUME PoolTypeOK, NEW t \in PoolThreads, NEW r \in LooperRec,
           looper' = [looper EXCEPT ![t] = r]
    PROVE  /\ looper' \in [PoolThreads -> LooperRec]
           /\ InPool' = IF r.at \in {"joined", "waiting", "busy", "unsent", "leaving"}
                        THEN InPool \cup {t} ELSE InPool \ {t}
           /\ Coming' = IF ~r.main /\ r.at \in {"spawned", "joined", "unsent"}
                        THEN Coming \cup {t} ELSE Coming \ {t}
           /\ Lost' = IF ~r.main /\ r.at = "lost" THEN Lost \cup {t} ELSE Lost \ {t}
           /\ looper'[t] = r
           /\ \A u \in PoolThreads : u # t => looper'[u] = looper[u]
<1>1. /\ looper'[t] = r
      /\ \A u \in PoolThreads : u # t => looper'[u] = looper[u]
  BY Zenon DEF PoolTypeOK
<1>2. looper' \in [PoolThreads -> LooperRec]
  BY Zenon DEF PoolTypeOK
<1>3. InPool' = IF r.at \in {"joined", "waiting", "busy", "unsent", "leaving"}
                THEN InPool \cup {t} ELSE InPool \ {t}
  BY <1>1, Zenon DEF InPool
<1>4. Coming' = IF ~r.main /\ r.at \in {"spawned", "joined", "unsent"}
                THEN Coming \cup {t} ELSE Coming \ {t}
  BY <1>1, Zenon DEF Coming
<1>5. Lost' = IF ~r.main /\ r.at = "lost" THEN Lost \cup {t} ELSE Lost \ {t}
  BY <1>1, Zenon DEF Lost
<1>6. QED
  BY <1>1, <1>2, <1>3, <1>4, <1>5, Zenon

\* A thread that moves inside join_thread_pool keeps its kind.
LEMMA PoolMoves ==
    ASSUME PoolTypeOK, NEW t \in PoolThreads,
           NEW a \in {"joined", "waiting", "busy", "unsent", "leaving", "left", "lost"}, Moves(t, a)
    PROVE  /\ looper' \in [PoolThreads -> LooperRec]
           /\ InPool' = IF a \in {"left", "lost"} THEN InPool \ {t} ELSE InPool \cup {t}
           /\ Coming' = IF ~looper[t].main /\ a \in {"joined", "unsent"}
                        THEN Coming \cup {t} ELSE Coming \ {t}
           /\ Lost' = IF ~looper[t].main /\ a = "lost" THEN Lost \cup {t} ELSE Lost \ {t}
           /\ looper'[t].at = a
           /\ \A u \in PoolThreads : u # t => looper'[u] = looper[u]
<1> DEFINE r == [looper[t] EXCEPT !.at = a]
<1>1. /\ looper' = [looper EXCEPT ![t] = r] /\ r.at = a /\ r.main = looper[t].main /\ r \in LooperRec
  BY Zenon DEF PoolTypeOK, Moves, LooperRec
<1> HIDE DEF r
<1>2. QED
  BY <1>1, PoolMoved, Zenon

\* The empty pool satisfies the invariant.
LEMMA PoolStart == PoolInit => PoolInv
<1> SUFFICES ASSUME PoolInit PROVE PoolInv
  BY Zenon
<1>1. InPool = {} /\ Coming = {} /\ Lost = {} /\ counting = {}
  BY Zenon DEF PoolInit, InPool, Coming, Lost, Nobody
<1>2. Unheard = {}
  BY <1>1, Zenon DEF Unheard
<1>3. Cardinality(InPool) = 0 /\ Cardinality(Unheard) = 0 /\ Cardinality(counting) = 0
  BY <1>1, <1>2, FS_EmptySet, Zenon
<1>4. PoolTypeOK
  BY PoolAssumption, Zenon DEF PoolInit, PoolTypeOK, Nobody, LooperRec, PoolBudgets
<1>5. OneOwed /\ OwedIsComing
  BY <1>1, PoolAssumption DEF PoolInit, OneOwed, OwedIsComing
<1>6. QED
  BY <1>3, <1>4, <1>5 DEF PoolInit, PoolInv

\* A free thread that starts is in no set but that of the loopers on their way.
LEMMA SpawnsOne ==
    ASSUME PoolInv, NEW main \in BOOLEAN, Spawns(main)
    PROVE  \E u \in PoolThreads :
              /\ looper' \in [PoolThreads -> LooperRec] /\ InPool' = InPool /\ Lost' = Lost
              /\ u \notin InPool \cup Unheard \cup inBatch \cup counting
              /\ Coming' = IF main THEN Coming ELSE Coming \cup {u}
              /\ \A v \in inBatch \cup counting : looper'[v] = looper[v]
<1>1. PICK u \in PoolThreads :
          looper[u] = Nobody /\ looper' = [looper EXCEPT ![u] = [at |-> "spawned", main |-> main]]
  BY Zenon DEF Spawns
<1>2. u \notin InPool \cup Unheard \cup inBatch \cup counting
  BY <1>1 DEF InPool, Coming, Lost, Unheard, Nobody, OneOwed, PoolInv
<1> DEFINE r == [at |-> "spawned", main |-> main]
<1>3. r \in LooperRec /\ r.at = "spawned" /\ r.main = main
  BY Zenon DEF LooperRec
<1>4. looper' = [looper EXCEPT ![u] = r]
  BY <1>1, Zenon
<1> HIDE DEF r
<1>5. /\ looper' \in [PoolThreads -> LooperRec] /\ InPool' = InPool \ {u} /\ Lost' = Lost \ {u}
      /\ Coming' = IF main THEN Coming \ {u} ELSE Coming \cup {u}
      /\ \A v \in PoolThreads : v # u => looper'[v] = looper[v]
  BY <1>3, <1>4, PoolMoved, Zenon DEF PoolInv
<1>6. Coming' = IF main THEN Coming ELSE Coming \cup {u}
  BY <1>2, <1>5 DEF Unheard
<1>7. InPool' = InPool /\ Lost' = Lost
  BY <1>2, <1>5 DEF Unheard
<1>8. \A v \in inBatch \cup counting : looper'[v] = looper[v]
  BY <1>2, <1>5 DEF PoolInv, PoolTypeOK
<1>9. QED
  BY <1>2, <1>5, <1>6, <1>7, <1>8, Zenon

\* start_thread_pool starts at most one thread, and it does not register.
LEMMA PoolKeptByStart == ASSUME PoolInv, StartThreadPool PROVE PoolInv'
<1> USE DEF PoolInv
<1>0. /\ poolStarted' = TRUE /\ startCalls' = startCalls + 1
      /\ UNCHANGED <<mainSpawned, kernelStarted, currentThreads, inBatch, counting, book>>
  BY Zenon DEF StartThreadPool
<1>1. /\ looper' \in [PoolThreads -> LooperRec] /\ InPool' = InPool /\ Lost' = Lost /\ Coming' = Coming
      /\ \A v \in inBatch \cup counting : looper'[v] = looper[v]
  <2>1. CASE Spawns(TRUE)
    BY <2>1, SpawnsOne, Zenon
  <2>2. CASE looper' = looper
    BY <2>2, Zenon DEF InPool, Lost, Coming, PoolTypeOK
  <2>3. QED
    BY <2>1, <2>2, Zenon DEF StartThreadPool, SpawnFails
<1>2. poolBudget' \in PoolBudgets /\ poolBudget'.refused = poolBudget.refused
  <2>1. CASE SpawnFails(TRUE)
    <3>1. (poolBudget.refused \/ ~TRUE) = poolBudget.refused
      BY Zenon DEF PoolTypeOK, PoolBudgets
    <3>2. poolBudget' = [poolBudget EXCEPT !.faults = poolBudget.faults - 1, !.refused = poolBudget.refused]
      BY <2>1, <3>1, Zenon DEF SpawnFails
    <3>3. poolBudget.faults - 1 \in Nat
      BY <2>1 DEF SpawnFails, PoolTypeOK, PoolBudgets
    <3>4. QED
      BY <3>2, <3>3, Zenon DEF PoolTypeOK, PoolBudgets
  <2>2. CASE poolBudget' = poolBudget
    BY <2>2, Zenon DEF PoolTypeOK
  <2>3. QED
    BY <2>1, <2>2, Zenon DEF StartThreadPool, Spawns
<1>3. startCounting' = startCounting \/ (startCounting' = TRUE /\ ~poolStarted)
  BY Zenon DEF StartThreadPool, Starts
<1>4. PoolTypeOK'
  <2>1. startCalls' \in Nat
    BY <1>0 DEF PoolTypeOK
  <2>2. QED
    BY <1>0, <1>1, <1>2, <1>3, <2>1, Zenon DEF PoolTypeOK
<1>5. OneOwed'
  BY <1>0, <1>1, Zenon DEF OneOwed
<1>6. OwedIsComing'
  BY <1>0, <1>1, <1>2, Zenon DEF OwedIsComing
<1>7. Unheard' = Unheard
  BY <1>1, Zenon DEF Unheard
<1>8. mainSpawned' <= 1 /\ (startCounting' => mainSpawned' = 0)
  <2>1. startCounting' => mainSpawned = 0
    BY <1>3, Zenon
  <2>2. QED
    BY <1>0, <2>1, Zenon
<1>9. QED
  BY <1>0, <1>1, <1>4, <1>5, <1>6, <1>7, <1>8, Zenon

\* The caller counts the one thread it started.
LEMMA PoolKeptByCountMain == ASSUME PoolInv, CountMain PROVE PoolInv'
<1> USE DEF PoolInv, CountMain
<1>1. InPool' = InPool /\ Lost' = Lost /\ Coming' = Coming /\ Unheard' = Unheard
  BY Zenon DEF InPool, Lost, Coming, Unheard
<1>2. PoolTypeOK'
  <2>1. mainSpawned' \in Nat
    BY DEF PoolTypeOK
  <2>2. QED
    BY <2>1, Zenon DEF PoolTypeOK
<1>3. OneOwed' /\ OwedIsComing'
  BY <1>1, Zenon DEF OneOwed, OwedIsComing
<1>4. mainSpawned' = 1 /\ poolStarted
  BY DEF PoolTypeOK
<1>5. QED
  BY <1>1, <1>2, <1>3, <1>4

\* A user thread that joins counts for no set before it is in the pool.
LEMMA PoolKeptByManual == ASSUME PoolInv, NEW t \in PoolThreads, JoinManually(t) PROVE PoolInv'
<1> USE DEF PoolInv, JoinManually
<1>1. t \notin InPool \cup Unheard \cup inBatch \cup counting
  BY DEF InPool, Coming, Lost, Unheard, Nobody, OneOwed
<1> DEFINE r == [at |-> "spawned", main |-> TRUE]
<1>2. r \in LooperRec /\ r.at = "spawned" /\ r.main /\ looper' = [looper EXCEPT ![t] = r]
  BY Zenon DEF LooperRec
<1> HIDE DEF r
<1>3. /\ looper' \in [PoolThreads -> LooperRec]
      /\ InPool' = InPool \ {t} /\ Coming' = Coming \ {t} /\ Lost' = Lost \ {t}
      /\ \A u \in PoolThreads : u # t => looper'[u] = looper[u]
  BY <1>2, PoolMoved, Zenon
<1>4. InPool' = InPool /\ Coming' = Coming /\ Lost' = Lost /\ Unheard' = Unheard
  BY <1>1, <1>3 DEF Unheard
<1>5. poolBudget' \in PoolBudgets /\ poolBudget'.refused = poolBudget.refused
  BY DEF PoolTypeOK, PoolBudgets
<1>6. PoolTypeOK'
  BY <1>3, <1>5, Zenon DEF PoolTypeOK
<1>7. OneOwed'
  BY <1>1, <1>3, <1>4, Zenon DEF OneOwed, PoolTypeOK
<1>8. OwedIsComing'
  BY <1>4, <1>5, Zenon DEF OwedIsComing, PoolTypeOK
<1>9. QED
  BY <1>4, <1>6, <1>7, <1>8, Zenon

\* A thread in join_thread_pool exists only once the pool was started, or in a
\* process that starts it late.
LEMMA PoolHasBegun ==
    ASSUME PoolInv, NEW t \in PoolThreads, looper[t].at # "none"
    PROVE  poolStarted \/ LateStart
  BY DEF PoolInv, OwedIsComing, Nobody, PoolTypeOK

\* A thread enters the pool; if it is to register, it still is.
LEMMA PoolKeptByJoin == ASSUME PoolInv, NEW t \in PoolThreads, Join(t) PROVE PoolInv'
<1> USE DEF PoolInv, Join
<1>1. t \notin InPool \cup inBatch \cup counting /\ t \notin Lost /\ (t \in Coming <=> ~looper[t].main)
  BY Zenon DEF InPool, OneOwed, Coming, Lost
<1>2. /\ looper' \in [PoolThreads -> LooperRec]
      /\ InPool' = InPool \cup {t} /\ Lost' = Lost \ {t}
      /\ Coming' = IF ~looper[t].main THEN Coming \cup {t} ELSE Coming \ {t}
      /\ \A u \in PoolThreads : u # t => looper'[u] = looper[u]
  BY PoolMoves
<1>3. Coming' = Coming /\ Lost' = Lost /\ Unheard' = Unheard
  BY <1>1, <1>2 DEF Unheard
<1>4. PoolTypeOK'
  BY <1>2 DEF PoolTypeOK
<1>5. OneOwed'
  BY <1>1, <1>2, <1>3, Zenon DEF OneOwed, PoolTypeOK
<1>6. poolStarted \/ LateStart
  BY PoolHasBegun
<1>7. OwedIsComing'
  BY <1>3, <1>6, Zenon DEF OwedIsComing
<1>8. Cardinality(InPool') = Cardinality(InPool) + 1
  BY <1>1, <1>2, OneMoves, PoolFinite, Zenon
<1>9. QED
  BY <1>3, <1>4, <1>5, <1>7, <1>8, Zenon

\* A registration of the one thread the driver waits for: it was asked for, and
\* it leaves the driver's loopers within the maximum.
LEMMA RegisteredAsAsked ==
    ASSUME PoolInv, NEW t \in Coming
    PROVE  /\ Registered(book) \in [requested : {0, 1}, started : Nat, unasked : BOOLEAN]
           /\ Registered(book).requested = 0 /\ Registered(book).started = book.started + 1
           /\ ~Registered(book).unasked
           /\ book.requested = 1 /\ inBatch \cup Coming = {t}
<1>1. book.requested = 1 /\ inBatch \cup Coming = {t} /\ ~book.unasked
  BY Zenon DEF PoolInv, OneOwed
<1>2. (book.unasked \/ book.requested = 0) = FALSE
  BY <1>1
<1>3. Registered(book) = [requested |-> 0, started |-> book.started + 1, unasked |-> FALSE]
  <2>1. (IF book.requested = 0 THEN 0 ELSE book.requested - 1) = 0
    BY <1>1
  <2>2. QED
    BY <1>2, <2>1, Zenon DEF Registered
<1>4. QED
  BY <1>1, <1>3 DEF PoolInv, PoolTypeOK

\* Its count moves from the loopers on their way to those the driver knows.
LEMMA PoolKeptByRegistration ==
    ASSUME PoolInv, NEW t \in PoolThreads, t \in Coming, t \notin counting,
           book' = Registered(book), Coming' = Coming \ {t}, Lost' = Lost,
           looper' \in [PoolThreads -> LooperRec], \A u \in PoolThreads : u # t => looper'[u] = looper[u],
           UNCHANGED <<poolStarted, inBatch, counting>>
    PROVE  /\ book' \in [requested : {0, 1}, started : Nat, unasked : BOOLEAN]
           /\ OneOwed' /\ OwedIsComing'
           /\ kernelStarted + Cardinality(counting') = book'.started + Cardinality(Unheard')
<1> USE DEF PoolInv
<1>1. /\ book' \in [requested : {0, 1}, started : Nat, unasked : BOOLEAN]
      /\ book'.requested = 0 /\ book'.started = book.started + 1 /\ ~book'.unasked
      /\ book.requested = 1 /\ inBatch \cup Coming = {t}
  BY RegisteredAsAsked, Zenon
<1>2. inBatch' \cup Coming' = {} /\ Unheard' = Unheard \ {t} /\ t \in Unheard /\ inBatch = {}
  <2>1. t \notin Lost /\ t \notin inBatch
    BY DEF Lost, Coming, OneOwed
  <2>2. QED
    BY <1>1, <2>1 DEF Unheard
<1>3. OneOwed'
  BY <1>1, <1>2, PoolAssumption DEF OneOwed, PoolTypeOK
<1>4. poolStarted \/ LateStart
  BY PoolHasBegun DEF Coming
<1>5. OwedIsComing'
  BY <1>1, <1>4 DEF OwedIsComing
<1>6. Cardinality(Unheard') = Cardinality(Unheard) - 1
  BY <1>2, OneMoves, PoolFinite, Zenon
<1>7. QED
  BY <1>1, <1>3, <1>5, <1>6, PoolFinite DEF PoolTypeOK

\* The first talk registers a looper that was asked for and no other.
LEMMA PoolKeptByTalk == ASSUME PoolInv, NEW t \in PoolThreads, FirstTalk(t) PROVE PoolInv'
<1> USE DEF PoolInv, Registers
<1>0. /\ looper[t].at = "joined" /\ Moves(t, "waiting")
      /\ UNCHANGED <<poolStarted, mainSpawned, kernelStarted, currentThreads, inBatch, counting,
                     startCounting, poolBudget, startCalls>>
  BY Zenon DEF FirstTalk
<1>1. t \in InPool /\ t \notin inBatch \cup counting /\ t \notin Lost /\ (t \in Coming <=> ~looper[t].main)
  BY <1>0, Zenon DEF InPool, OneOwed, Coming, Lost
<1>2. /\ looper' \in [PoolThreads -> LooperRec]
      /\ InPool' = InPool \cup {t} /\ Coming' = Coming \ {t} /\ Lost' = Lost \ {t}
      /\ \A u \in PoolThreads : u # t => looper'[u] = looper[u]
  BY <1>0, PoolMoves
<1>3. InPool' = InPool /\ Lost' = Lost
  BY <1>1, <1>2, Zenon
<1>4. CASE looper[t].main
  <2>1. Coming' = Coming /\ book' = book /\ Unheard' = Unheard
    BY <1>1, <1>2, <1>3, <1>4 DEF FirstTalk, Unheard
  <2>2. PoolTypeOK'
    BY <1>0, <1>2, <2>1, Zenon DEF PoolTypeOK
  <2>3. OneOwed'
    BY <1>0, <1>1, <1>2, <2>1, Zenon DEF OneOwed, PoolTypeOK
  <2>4. poolStarted \/ LateStart
    BY <1>0, PoolHasBegun
  <2>5. OwedIsComing'
    BY <1>0, <1>3, <2>1, <2>4, Zenon DEF OwedIsComing
  <2>6. QED
    BY <1>0, <1>3, <2>1, <2>2, <2>3, <2>5, Zenon
<1>5. CASE ~looper[t].main
  <2>1. book' = Registered(book)
    BY <1>5, Zenon DEF FirstTalk
  <2>2. /\ book' \in [requested : {0, 1}, started : Nat, unasked : BOOLEAN]
        /\ OneOwed' /\ OwedIsComing'
        /\ kernelStarted + Cardinality(counting') = book'.started + Cardinality(Unheard')
    BY <1>0, <1>1, <1>2, <1>3, <1>5, <2>1, PoolKeptByRegistration
  <2>3. PoolTypeOK'
    BY <1>0, <1>2, <2>2, Zenon DEF PoolTypeOK
  <2>4. QED
    BY <1>0, <1>3, <2>2, <2>3, Zenon
<1>6. QED
  BY <1>4, <1>5, Zenon

\* The driver asks only when nothing is open and there is room.
LEMMA PoolKeptByWork == ASSUME PoolInv, NEW t \in PoolThreads, TakeWork(t) PROVE PoolInv'
<1> USE DEF PoolInv, TakeWork
<1> DEFINE ask == /\ book.requested = 0 /\ book.started < MaxLoopers
                  /\ \A u \in PoolThreads \ {t} : looper[u].at # "waiting"
<1>1. t \in InPool /\ t \notin inBatch \cup counting /\ t \notin Coming /\ t \notin Lost
  BY Zenon DEF InPool, OneOwed, Coming, Lost
<1>2. /\ looper' \in [PoolThreads -> LooperRec] /\ looper'[t].at = "busy"
      /\ InPool' = InPool \cup {t} /\ Coming' = Coming \ {t} /\ Lost' = Lost \ {t}
      /\ \A u \in PoolThreads : u # t => looper'[u] = looper[u]
  BY PoolMoves
<1>3. InPool' = InPool /\ Coming' = Coming /\ Lost' = Lost /\ Unheard' = Unheard
  BY <1>1, <1>2 DEF Unheard
<1>4. poolStarted \/ LateStart
  BY PoolHasBegun
<1>5. poolBudget' \in PoolBudgets /\ poolBudget'.refused = poolBudget.refused
  BY DEF PoolTypeOK, PoolBudgets
<1>6. CASE ask
  <2>1. /\ book' \in [requested : {0, 1}, started : Nat, unasked : BOOLEAN]
        /\ book'.requested = 1 /\ book'.started = book.started /\ book'.unasked = book.unasked
    BY <1>6, Zenon DEF PoolTypeOK
  <2>2. inBatch' = inBatch \cup {t} /\ inBatch \cup Coming = {}
    BY <1>6 DEF OneOwed
  <2>3. PoolTypeOK'
    BY <1>2, <1>5, <2>1, <2>2, Zenon DEF PoolTypeOK
  <2>4. OneOwed'
    BY <1>1, <1>2, <1>3, <1>6, <2>1, <2>2, PoolAssumption DEF OneOwed, PoolTypeOK
  <2>5. OwedIsComing'
    BY <1>4, <1>5, <2>2, Zenon DEF OwedIsComing
  <2>6. QED
    BY <1>3, <2>1, <2>3, <2>4, <2>5, Zenon
<1>7. CASE ~ask
  <2>1. book' = book /\ inBatch' = inBatch
    BY <1>7, Zenon
  <2>2. PoolTypeOK'
    BY <1>2, <1>5, <2>1, Zenon DEF PoolTypeOK
  <2>3. OneOwed'
    BY <1>1, <1>2, <1>3, <2>1 DEF OneOwed, PoolTypeOK
  <2>4. OwedIsComing'
    BY <1>3, <1>4, <1>5, <2>1, Zenon DEF OwedIsComing
  <2>5. QED
    BY <1>3, <2>1, <2>2, <2>3, <2>4, Zenon
<1>8. QED
  BY <1>6, <1>7, Zenon

\* Executing BR_SPAWN_LOOPER hands the request over to the thread it starts; the
\* spawner has yet to count it.
LEMMA PoolKeptBySpawn == ASSUME PoolInv, NEW t \in PoolThreads, SpawnLooper(t) PROVE PoolInv'
<1> USE DEF PoolInv
<1>1. /\ t \in inBatch /\ inBatch' = inBatch \ {t}
      /\ UNCHANGED <<poolStarted, mainSpawned, kernelStarted, currentThreads, startCounting, book,
                     startCalls>>
  BY Zenon DEF SpawnLooper
<1>2. inBatch \cup Coming = {t} /\ t \notin Coming /\ book.requested = 1 /\ t \notin counting
  BY <1>1, Zenon DEF OneOwed, Coming
<1>3. inBatch' = {} /\ Coming = {}
  BY <1>1, <1>2, Zenon
<1>4. poolStarted \/ LateStart
  BY <1>1, PoolHasBegun DEF OneOwed
<1>5. CASE Spawns(FALSE) /\ counting' = counting \cup {t}
  <2>1. PICK u \in PoolThreads :
            /\ looper' \in [PoolThreads -> LooperRec] /\ InPool' = InPool /\ Lost' = Lost
            /\ u \notin InPool \cup Unheard \cup inBatch \cup counting
            /\ Coming' = Coming \cup {u}
            /\ \A v \in inBatch \cup counting : looper'[v] = looper[v]
    BY <1>5, SpawnsOne, Zenon
  <2>2. Coming' = {u} /\ Unheard' = Unheard \cup {u} /\ u \notin Unheard
    BY <1>3, <2>1 DEF Unheard
  <2>3. poolBudget' = poolBudget
    BY <1>5, Zenon DEF Spawns
  <2>4. PoolTypeOK'
    BY <1>1, <1>5, <2>1, <2>3, Zenon DEF PoolTypeOK
  <2>5. OneOwed'
    BY <1>1, <1>2, <1>3, <1>5, <2>1, <2>2, Zenon DEF OneOwed
  <2>6. OwedIsComing'
    BY <1>1, <1>4, <2>2, Zenon DEF OwedIsComing
  <2>7. Cardinality(Unheard') = Cardinality(Unheard) + 1 /\ Cardinality(counting') = Cardinality(counting) + 1
    BY <1>2, <1>5, <2>2, OneMoves, PoolFinite, Zenon
  <2>8. QED
    BY <1>1, <2>1, <2>4, <2>5, <2>6, <2>7, PoolFinite DEF PoolTypeOK
<1>6. CASE UNCHANGED <<looper, counting>>
  <2>1. InPool' = InPool /\ Coming' = Coming /\ Lost' = Lost /\ Unheard' = Unheard
    BY <1>6, Zenon DEF InPool, Coming, Lost, Unheard
  <2>2. /\ poolBudget' \in PoolBudgets
        /\ poolBudget'.refused \/ ~poolStarted
    <3>1. CASE SpawnFails(FALSE)
      <4>1. (poolBudget.refused \/ ~FALSE) = TRUE
        BY Zenon
      <4>2. poolBudget' = [poolBudget EXCEPT !.faults = poolBudget.faults - 1, !.refused = TRUE]
        BY <3>1, <4>1, Zenon DEF SpawnFails
      <4>3. poolBudget.faults - 1 \in Nat
        BY <3>1 DEF SpawnFails, PoolTypeOK, PoolBudgets
      <4>4. QED
        BY <4>2, <4>3, Zenon DEF PoolTypeOK, PoolBudgets
    <3>2. CASE poolBudget' = poolBudget /\ ~poolStarted
      BY <3>2, Zenon DEF PoolTypeOK
    <3>3. CASE Spawns(FALSE) /\ counting' = counting \cup {t}
      BY <1>2, <1>6, <3>3, Zenon
    <3>4. QED
      BY <3>1, <3>2, <3>3, Zenon DEF SpawnLooper, SpawnsNow
  <2>3. PoolTypeOK'
    BY <1>1, <1>6, <2>2, Zenon DEF PoolTypeOK
  <2>4. OneOwed'
    BY <1>1, <1>3, <1>6, <2>1, Zenon DEF OneOwed
  <2>5. OwedIsComing'
    BY <1>1, <1>4, <2>2, Zenon DEF OwedIsComing
  <2>6. QED
    BY <1>1, <1>6, <2>1, <2>3, <2>4, <2>5, Zenon
<1>7. QED
  BY <1>5, <1>6, Zenon DEF SpawnLooper, SpawnFails, CountsFailed

\* The count of a spawn moves to the counter.
LEMMA PoolKeptByCount == ASSUME PoolInv, NEW t \in PoolThreads, CountLooper(t) PROVE PoolInv'
<1> USE DEF PoolInv, CountLooper
<1>1. InPool' = InPool /\ Lost' = Lost /\ Coming' = Coming /\ Unheard' = Unheard
  BY Zenon DEF InPool, Lost, Coming, Unheard
<1>2. PoolTypeOK'
  BY DEF PoolTypeOK
<1>3. OneOwed'
  BY <1>1, Zenon DEF OneOwed
<1>4. OwedIsComing'
  BY <1>1, Zenon DEF OwedIsComing
<1>5. Cardinality(counting') = Cardinality(counting) - 1
  BY OneMoves, PoolFinite, Zenon
<1>6. QED
  BY <1>1, <1>2, <1>3, <1>4, <1>5, PoolFinite DEF PoolTypeOK

\* A thread that has executed its batch waits again.
LEMMA PoolKeptByDone == ASSUME PoolInv, NEW t \in PoolThreads, WorkDone(t) PROVE PoolInv'
<1> USE DEF PoolInv, WorkDone
<1>1. t \in InPool /\ t \notin Coming /\ t \notin Lost
  BY Zenon DEF InPool, Coming, Lost
<1>2. /\ looper' \in [PoolThreads -> LooperRec]
      /\ InPool' = InPool \cup {t} /\ Coming' = Coming \ {t} /\ Lost' = Lost \ {t}
      /\ \A u \in PoolThreads : u # t => looper'[u] = looper[u]
  BY PoolMoves
<1>3. InPool' = InPool /\ Coming' = Coming /\ Lost' = Lost /\ Unheard' = Unheard
  BY <1>1, <1>2 DEF Unheard
<1>4. poolStarted \/ LateStart
  BY PoolHasBegun
<1>5. PoolTypeOK'
  BY <1>2, Zenon DEF PoolTypeOK
<1>6. OneOwed'
  BY <1>2, <1>3, Zenon DEF OneOwed, PoolTypeOK
<1>7. OwedIsComing'
  BY <1>3, <1>4, Zenon DEF OwedIsComing
<1>8. QED
  BY <1>3, <1>5, <1>6, <1>7, Zenon

\* A thread that leaves its loop before its first talk keeps the registration in
\* its queue: it is still on its way.
LEMMA PoolKeptByBreak == ASSUME PoolInv, NEW t \in PoolThreads, LeaveLoop(t) PROVE PoolInv'
<1> USE DEF PoolInv, LeaveLoop
<1>1. /\ t \in InPool /\ t \notin Lost
      /\ t \in Coming <=> ~looper[t].main /\ looper[t].at = "joined"
  BY Zenon DEF InPool, Coming, Lost
<1>2. /\ looper' \in [PoolThreads -> LooperRec]
      /\ InPool' = InPool \cup {t} /\ Lost' = Lost \ {t}
      /\ Coming' = IF ~looper[t].main /\ looper[t].at = "joined" THEN Coming \cup {t} ELSE Coming \ {t}
      /\ \A u \in PoolThreads : u # t => looper'[u] = looper[u]
  <2>1. CASE looper[t].at = "joined"
    BY <2>1, PoolMoves
  <2>2. CASE looper[t].at # "joined"
    BY <2>2, PoolMoves
  <2>3. QED
    BY <2>1, <2>2, Zenon
<1>3. InPool' = InPool /\ Coming' = Coming /\ Lost' = Lost /\ Unheard' = Unheard
  BY <1>1, <1>2 DEF Unheard
<1>4. poolStarted \/ LateStart
  BY PoolHasBegun
<1>5. poolBudget' \in PoolBudgets /\ poolBudget'.refused = poolBudget.refused
  BY DEF PoolTypeOK, PoolBudgets
<1>6. PoolTypeOK'
  BY <1>2, <1>5, Zenon DEF PoolTypeOK
<1>7. OneOwed'
  BY <1>2, <1>3, Zenon DEF OneOwed, PoolTypeOK
<1>8. OwedIsComing'
  BY <1>3, <1>4, <1>5, Zenon DEF OwedIsComing
<1>9. QED
  BY <1>3, <1>6, <1>7, <1>8, Zenon

\* A thread that leaves is counted down, whether its last talk went through and
\* registered it or not.
LEMMA PoolKeptByLeave == ASSUME PoolInv, NEW t \in PoolThreads, LeavePool(t) PROVE PoolInv'
<1> USE DEF PoolInv, Registers
<1>0. /\ looper[t].at \in {"unsent", "leaving"} /\ currentThreads' = currentThreads - 1
      /\ UNCHANGED <<poolStarted, mainSpawned, kernelStarted, inBatch, counting, startCounting, startCalls>>
  BY Zenon DEF LeavePool, Leaves
<1>1. /\ t \in InPool /\ t \notin Lost /\ t \notin inBatch \cup counting
      /\ t \in Coming <=> ~looper[t].main /\ looper[t].at = "unsent"
  BY <1>0, Zenon DEF InPool, Coming, Lost, OneOwed
<1>2. poolStarted \/ LateStart
  BY <1>0, PoolHasBegun
<1>3. ASSUME InPool' = InPool \ {t}
      PROVE  currentThreads' \in Nat /\ currentThreads' = Cardinality(InPool')
  <2>1. Cardinality(InPool') = Cardinality(InPool) - 1
    BY <1>1, <1>3, OneMoves, PoolFinite, Zenon
  <2>2. Cardinality(InPool') \in Nat
    BY <1>3, PoolFinite, FS_Subset, FS_CardinalityType, Zenon
  <2>3. QED
    BY <1>0, <2>1, <2>2, Zenon
<1>4. CASE /\ book' = IF looper[t].at = "unsent" /\ Registers(t) THEN Registered(book) ELSE book
           /\ Moves(t, "left") /\ UNCHANGED poolBudget
  <2>1. /\ looper' \in [PoolThreads -> LooperRec]
        /\ InPool' = InPool \ {t} /\ Coming' = Coming \ {t} /\ Lost' = Lost \ {t}
        /\ \A u \in PoolThreads : u # t => looper'[u] = looper[u]
    BY <1>4, PoolMoves
  <2>2. Lost' = Lost
    BY <1>1, <2>1, Zenon
  <2>3. CASE t \in Coming
    <3>1. book' = Registered(book)
      BY <1>1, <1>4, <2>3, Zenon
    <3>2. /\ book' \in [requested : {0, 1}, started : Nat, unasked : BOOLEAN]
          /\ OneOwed' /\ OwedIsComing'
          /\ kernelStarted + Cardinality(counting') = book'.started + Cardinality(Unheard')
      BY <1>0, <1>1, <2>1, <2>2, <2>3, <3>1, PoolKeptByRegistration
    <3>3. PoolTypeOK'
      BY <1>0, <1>3, <1>4, <2>1, <3>2, Zenon DEF PoolTypeOK
    <3>4. QED
      BY <1>0, <1>3, <2>1, <3>2, <3>3, Zenon
  <2>4. CASE t \notin Coming
    <3>1. Coming' = Coming /\ book' = book /\ Unheard' = Unheard
      BY <1>1, <1>4, <2>1, <2>2, <2>4, Zenon DEF Unheard
    <3>2. PoolTypeOK'
      BY <1>0, <1>3, <1>4, <2>1, <3>1, Zenon DEF PoolTypeOK
    <3>3. OneOwed'
      BY <1>0, <1>1, <2>1, <3>1, Zenon DEF OneOwed, PoolTypeOK
    <3>4. OwedIsComing'
      BY <1>0, <1>2, <1>4, <2>2, <3>1, Zenon DEF OwedIsComing
    <3>5. QED
      BY <1>0, <1>3, <2>1, <3>1, <3>2, <3>3, <3>4, Zenon
  <2>5. QED
    BY <2>3, <2>4, Zenon
<1>5. CASE /\ poolBudget.faults > 0 /\ poolBudget' = [poolBudget EXCEPT !.faults = @ - 1]
           /\ Moves(t, IF looper[t].at = "unsent" THEN "lost" ELSE "left") /\ UNCHANGED book
  <2>1. poolBudget' \in PoolBudgets /\ poolBudget'.refused = poolBudget.refused
    BY <1>5 DEF PoolTypeOK, PoolBudgets
  <2>2. /\ looper' \in [PoolThreads -> LooperRec]
        /\ InPool' = InPool \ {t} /\ Coming' = Coming \ {t}
        /\ Lost' = IF t \in Coming THEN Lost \cup {t} ELSE Lost \ {t}
        /\ \A u \in PoolThreads : u # t => looper'[u] = looper[u]
    <3>1. CASE looper[t].at = "unsent"
      BY <1>1, <1>5, <3>1, PoolMoves
    <3>2. CASE looper[t].at = "leaving"
      BY <1>1, <1>5, <3>2, PoolMoves
    <3>3. QED
      BY <1>0, <3>1, <3>2, Zenon
  <2>3. Unheard' = Unheard
    BY <1>1, <2>2 DEF Unheard
  <2>4. PoolTypeOK'
    BY <1>0, <1>3, <1>5, <2>1, <2>2, Zenon DEF PoolTypeOK
  <2>5. OneOwed'
    BY <1>0, <1>1, <1>5, <2>2, Zenon DEF OneOwed, PoolTypeOK
  <2>6. OwedIsComing'
    BY <1>0, <1>1, <1>2, <1>5, <2>1, <2>2 DEF OwedIsComing
  <2>7. QED
    BY <1>0, <1>3, <1>5, <2>2, <2>3, <2>4, <2>5, <2>6, Zenon
<1>6. QED
  BY <1>4, <1>5, Zenon DEF LeavePool

\* Every step of the pool's threads keeps the invariant.
LEMMA PoolInductive == PoolSpec => []PoolInv
<1>1. PoolInv /\ [PoolNext]_poolVars => PoolInv'
  <2> SUFFICES ASSUME PoolInv, [PoolNext]_poolVars PROVE PoolInv'
    OBVIOUS
  <2>1. CASE UNCHANGED poolVars
    BY <2>1, Zenon DEF poolVars, PoolInv, PoolTypeOK, OneOwed, OwedIsComing, InPool, Coming, Lost, Unheard
  <2>2. QED
    BY <2>1, PoolKeptByStart, PoolKeptByCountMain, PoolKeptByManual, PoolKeptByJoin, PoolKeptByTalk,
       PoolKeptByWork, PoolKeptBySpawn, PoolKeptByCount, PoolKeptByDone, PoolKeptByBreak,
       PoolKeptByLeave, Zenon DEF PoolNext
<1>2. QED
  BY <1>1, PoolStart, PTL DEF PoolSpec

\* current_threads, main_thread_spawned and kernel_started_threads count the
\* threads they stand for, and the driver gets no BC_REGISTER_LOOPER it did not
\* ask for nor more than max_threads of them, whenever start_thread_pool and
\* join_thread_pool are called and wherever a thread leaves the pool.
THEOREM PoolCounted == PoolSpec => [](CurrentThreadsExact /\ RegisteredOnRequest /\ SpawnsCounted)
<1>1. PoolInv => CurrentThreadsExact /\ RegisteredOnRequest /\ SpawnsCounted
  BY PoolAssumption
  DEF PoolInv, OneOwed, PoolTypeOK, CurrentThreadsExact, RegisteredOnRequest, SpawnsCounted, Unheard
<1>2. QED
  BY <1>1, PoolInductive, PTL

\* In a process that calls start_thread_pool before any thread joins, the pool
\* is also as large as the driver asked for: a BR_SPAWN_LOOPER is lost only with
\* a spawn that failed or a thread that could not register.
THEOREM PoolAsAsked == ~LateStart => (PoolSpec => []PoolAsRequested)
<1> SUFFICES ASSUME ~LateStart PROVE PoolSpec => []PoolAsRequested
  BY Zenon
<1>1. PoolInv => PoolAsRequested
  <2> SUFFICES ASSUME PoolInv PROVE PoolAsRequested
    BY Zenon
  <2>1. CurrentThreadsExact /\ RegisteredOnRequest /\ SpawnsCounted
    BY PoolAssumption
    DEF PoolInv, OneOwed, PoolTypeOK, CurrentThreadsExact, RegisteredOnRequest, SpawnsCounted, Unheard
  <2>2. NoLostRequest
    BY DEF PoolInv, OwedIsComing, PoolTypeOK, NoLostRequest
  <2>3. QED
    BY <2>1, <2>2, Zenon DEF PoolAsRequested
<1>2. QED
  BY <1>1, PoolInductive, PTL

-----------------------------------------------------------------------------
(* ProxyCount *)

CountTypeOK ==
    /\ proxyCount \in Int /\ byUid \in BOOLEAN /\ hook \in BOOLEAN
    /\ uidEntry \in [count : Nat, warning : BOOLEAN, limit : BOOLEAN]
    /\ tracked \in [ProxyKinds -> Nat]
    /\ creator \in [CountThreads -> {"idle", "create", "count", "built", "unlocked"}]
    /\ cacheLock \in CountThreads \cup {"free"}
    /\ pending \in [CountThreads -> Seq({"warning", "limit"})]
    /\ heldAtFire \in BOOLEAN /\ wiped \in BOOLEAN
    /\ wasLow \in [{"warning", "limit"} -> BOOLEAN]
    /\ togglesLeft \in Nat

\* The thread that is creating a proxy has the cache lock.
LockHeld ==
    \A t \in CountThreads : creator[t] \in {"create", "count", "built"} <=> cacheLock = t

\* An event that is armed has seen the count low since it was last raised.
ArmedWasLow ==
    /\ ~uidEntry.warning => wasLow["warning"]
    /\ ~uidEntry.limit => wasLow["limit"]

UidCountInv ==
    /\ CountTypeOK /\ LockHeld /\ ArmedWasLow
    /\ UidCountExact /\ CallbackOutsideLock

\* Nothing is created, locked, counted or raised at the start.
LEMMA CountStart == CountInit => UidCountInv
<1> SUFFICES ASSUME CountInit PROVE UidCountInv
  OBVIOUS
<1> USE DEF CountInit
<1>0. tracked \in [ProxyKinds -> Nat] /\ tracked["counted"] = 0 /\ uidEntry.count = 0
  BY Zenon DEF ProxyKinds, NoUidEntry
<1>1. uidEntry \in [count : Nat, warning : BOOLEAN, limit : BOOLEAN]
  BY Zenon DEF NoUidEntry
<1>2. CountTypeOK
  <2>1. wasLow \in [{"warning", "limit"} -> BOOLEAN]
    BY Zenon
  <2>2. pending \in [CountThreads -> Seq({"warning", "limit"})]
    OBVIOUS
  <2>3. /\ creator \in [CountThreads -> {"idle", "create", "count", "built", "unlocked"}]
        /\ cacheLock \in CountThreads \cup {"free"} /\ togglesLeft \in Nat /\ proxyCount \in Int
    BY CountAssumption
  <2>4. byUid \in BOOLEAN /\ hook \in BOOLEAN /\ heldAtFire \in BOOLEAN /\ wiped \in BOOLEAN
    BY Zenon
  <2>5. QED
    BY <1>0, <1>1, <2>1, <2>2, <2>3, <2>4, Zenon DEF CountTypeOK
<1>3. LockHeld
  BY CountAssumption, Zenon DEF LockHeld
<1>4. ArmedWasLow
  BY Zenon DEF ArmedWasLow
<1>5. UidCountExact /\ CallbackOutsideLock
  BY <1>0 DEF UidCountExact, CallbackOutsideLock
<1>6. QED
  BY <1>2, <1>3, <1>4, <1>5, Zenon DEF UidCountInv

\* A thread enters or leaves slow_path_p3 with the lock, which nobody shares.
LEMMA CountKeptByLock ==
    ASSUME UidCountInv, NEW t \in CountThreads, EnterCreate(t) \/ Unlock(t)
    PROVE  UidCountInv'
<1> USE DEF UidCountInv, EnterCreate, Unlock, Proceeds
<1>1. CountTypeOK'
  BY Zenon DEF CountTypeOK
<1>2. LockHeld'
  BY CountAssumption, ZenonT(60) DEF LockHeld, CountTypeOK
<1>3. ArmedWasLow' /\ UidCountExact' /\ CallbackOutsideLock'
  BY DEF ArmedWasLow, UidCountExact, CallbackOutsideLock
<1>4. QED
  BY <1>1, <1>2, <1>3, Zenon

\* Raising the global count touches no entry of a user.
LEMMA CountKeptByGlobal ==
    ASSUME UidCountInv, NEW t \in CountThreads, BumpGlobal(t)
    PROVE  UidCountInv'
<1> USE DEF UidCountInv, BumpGlobal, Proceeds
<1>1. tracked' \in [ProxyKinds -> Nat] /\ tracked'["counted"] = tracked["counted"]
  BY DEF CountTypeOK, ProxyKinds
<1>2. CountTypeOK'
  BY <1>1 DEF CountTypeOK
<1>3. LockHeld'
  BY Zenon DEF LockHeld, CountTypeOK
<1>4. ArmedWasLow' /\ CallbackOutsideLock'
  BY Zenon DEF ArmedWasLow, CallbackOutsideLock
<1>5. UidCountExact'
  BY <1>1, Zenon DEF UidCountExact
<1>6. QED
  BY <1>2, <1>3, <1>4, <1>5, Zenon

\* Changing the count of an entry leaves its debounce flags.
LEMMA EntryWithCount ==
    ASSUME NEW e \in [count : Nat, warning : BOOLEAN, limit : BOOLEAN], NEW n \in Nat
    PROVE  [e EXCEPT !.count = n] = [count |-> n, warning |-> e.warning, limit |-> e.limit]
OBVIOUS

\* The count of an entry, whatever its flags.
LEMMA CountOf ==
    ASSUME NEW r, NEW n, NEW w, NEW l, r = [count |-> n, warning |-> w, limit |-> l]
    PROVE  r.count = n
BY Zenon

\* What is queued for the guard is at most the one event that is due.
LEMMA OneMore ==
    ASSUME NEW S, NEW E \in SUBSET S
    PROVE  (IF E = {} THEN <<>> ELSE <<CHOOSE e \in E : TRUE>>) \in Seq(S)
<1>1. CASE E = {}
  BY <1>1
<1>2. CASE E # {}
  <2>1. PICK c : c \in S /\ c = (CHOOSE e \in E : TRUE)
    BY <1>2, Zenon
  <2>2. <<c>> \in Seq(S)
    BY <2>1
  <2>3. QED
    BY <1>2, <2>1, <2>2, Zenon
<1>3. QED
  BY <1>1, <1>2, Zenon

\* The entry and the proxies that count in it go up together; an event that is
\* raised is no longer armed.
LEMMA CountKeptByUid ==
    ASSUME UidCountInv, NEW t \in CountThreads, BumpUid(t)
    PROVE  /\ UidCountInv'
           /\ \A event \in {"warning", "limit"} :
                uidEntry'[event] /\ ~uidEntry[event] => wasLow[event]
<1> USE DEF UidCountInv
<1> DEFINE e == [uidEntry EXCEPT !.count = @ + 1]
           raised == EventOf(e)
           given == IF hook THEN raised ELSE {}
<1>1. e \in [count : Nat, warning : BOOLEAN, limit : BOOLEAN]
      /\ e.count = uidEntry.count + 1 /\ e.warning = uidEntry.warning /\ e.limit = uidEntry.limit
  <2>1. uidEntry \in [count : Nat, warning : BOOLEAN, limit : BOOLEAN] /\ uidEntry.count + 1 \in Nat
    BY DEF CountTypeOK
  <2>2. e = [count |-> uidEntry.count + 1, warning |-> uidEntry.warning, limit |-> uidEntry.limit]
    BY <2>1, EntryWithCount, Zenon
  <2> HIDE DEF e
  <2>3. QED
    BY <2>1, <2>2, Zenon
<1>2. /\ uidEntry' = [e EXCEPT !.warning = @ \/ "warning" \in raised, !.limit = @ \/ "limit" \in raised]
      /\ Defer(t, given)
      /\ wasLow' = [event \in DOMAIN wasLow |-> wasLow[event] /\ event \notin raised]
      /\ tracked' = [tracked EXCEPT !["counted"] = @ + 1]
      /\ Proceeds(t, "count", "built")
      /\ UNCHANGED <<proxyCount, byUid, hook, cacheLock, wiped, togglesLeft>>
  BY Zenon DEF BumpUid
<1>3. raised \in SUBSET {"warning", "limit"}
  BY Zenon DEF EventOf
<1>4. given \in SUBSET {"warning", "limit"}
  BY <1>3, Zenon
<1> HIDE DEF e, raised, given
<1>5. uidEntry' = [count |-> uidEntry.count + 1,
                   warning |-> (uidEntry.warning \/ "warning" \in raised),
                   limit |-> (uidEntry.limit \/ "limit" \in raised)]
  BY <1>1, <1>2, Zenon
<1>6. uidEntry' \in [count : Nat, warning : BOOLEAN, limit : BOOLEAN]
  BY <1>5 DEF CountTypeOK
<1>7. tracked' \in [ProxyKinds -> Nat] /\ tracked'["counted"] = tracked["counted"] + 1
  BY <1>2 DEF CountTypeOK, ProxyKinds
<1>8. /\ wasLow' \in [{"warning", "limit"} -> BOOLEAN]
      /\ wasLow'["warning"] = (wasLow["warning"] /\ "warning" \notin raised)
      /\ wasLow'["limit"] = (wasLow["limit"] /\ "limit" \notin raised)
  BY <1>2, Zenon DEF CountTypeOK
<1>9. pending' \in [CountThreads -> Seq({"warning", "limit"})]
  <2>1. PICK more : more \in Seq({"warning", "limit"}) /\ pending' = [pending EXCEPT ![t] = @ \o more]
    <3> DEFINE more == IF given = {} THEN <<>> ELSE <<CHOOSE ev \in given : TRUE>>
    <3>1. pending' = [pending EXCEPT ![t] = @ \o more]
      BY <1>2, Zenon DEF Defer
    <3>2. more \in Seq({"warning", "limit"})
      BY <1>4, OneMore, Zenon
    <3>3. QED
      BY <3>1, <3>2, Zenon
  <2>2. pending \in [CountThreads -> Seq({"warning", "limit"})]
    BY Zenon DEF CountTypeOK
  <2>3. QED
    BY <2>1, <2>2
<1>10. heldAtFire' = heldAtFire
  BY <1>2, Zenon DEF Defer
<1>11. creator' = [creator EXCEPT ![t] = "built"] /\ creator[t] = "count"
  BY <1>2, Zenon DEF Proceeds
<1>12. CountTypeOK'
  BY <1>2, <1>6, <1>7, <1>8, <1>9, <1>10, <1>11, Zenon DEF CountTypeOK
<1>13. LockHeld'
  BY <1>2, <1>11, Zenon DEF LockHeld, CountTypeOK
<1>14. ArmedWasLow'
  BY <1>5, <1>8, Zenon DEF ArmedWasLow
<1>15. UidCountExact' /\ CallbackOutsideLock'
  <2>1. uidEntry'.count = uidEntry.count + 1
    BY <1>5, CountOf, Zenon
  <2>2. uidEntry.count \in Nat /\ tracked["counted"] \in Nat
    BY Zenon DEF CountTypeOK, ProxyKinds
  <2>3. QED
    BY <1>2, <1>7, <1>10, <2>1, <2>2 DEF UidCountExact, CallbackOutsideLock
<1>16. \A event \in {"warning", "limit"} : ~uidEntry[event] => wasLow[event]
  BY Zenon DEF ArmedWasLow
<1>17. QED
  BY <1>12, <1>13, <1>14, <1>15, <1>16, Zenon

\* The guard fires what it kept once its thread has given the lock back.
LEMMA CountKeptByGuard ==
    ASSUME UidCountInv, NEW t \in CountThreads, GuardDrops(t)
    PROVE  UidCountInv'
<1> USE DEF UidCountInv, GuardDrops, Proceeds
<1>1. cacheLock # t
  BY Zenon DEF LockHeld
<1>2. heldAtFire' = FALSE
  BY <1>1, Zenon DEF CallbackOutsideLock
<1>3. CountTypeOK'
  BY <1>2 DEF CountTypeOK
<1>4. LockHeld'
  BY Zenon DEF LockHeld, CountTypeOK
<1>5. ArmedWasLow' /\ UidCountExact'
  BY Zenon DEF ArmedWasLow, UidCountExact
<1>6. QED
  BY <1>2, <1>3, <1>4, <1>5, Zenon DEF CallbackOutsideLock

\* An entry that goes down arms its events only at low.
LEMMA LowerArms ==
    ASSUME NEW e \in [count : Nat, warning : BOOLEAN, limit : BOOLEAN]
    PROVE  /\ Lower(e) \in [count : Nat, warning : BOOLEAN, limit : BOOLEAN]
           /\ Lower(e).count = IF e.count = 0 THEN 0 ELSE e.count - 1
           /\ Lower(e).count <= CountLow \/ Lower(e) = [e EXCEPT !.count = e.count - 1]
<1> DEFINE d == [e EXCEPT !.count = @ - 1]
<1>1. CASE e.count <= 1
  BY <1>1, CountAssumption DEF Lower, NoUidEntry
<1>2. CASE e.count > 1
  <2>1. /\ d = [count |-> e.count - 1, warning |-> e.warning, limit |-> e.limit]
        /\ e.count - 1 \in Nat
        /\ d \in [count : Nat, warning : BOOLEAN, limit : BOOLEAN]
    BY <1>2
  <2>2. Lower(e) = Rearm(d)
    BY <1>2 DEF Lower
  <2> HIDE DEF d
  <2>3. CASE d.count <= CountLow
    <3>1. Rearm(d) = [count |-> d.count, warning |-> FALSE, limit |-> FALSE]
      BY <2>1, <2>3, Zenon DEF Rearm
    <3>2. d.count = e.count - 1 /\ d.count \in Nat
      BY <2>1, CountOf, Zenon
    <3>3. Rearm(d).count = d.count
      BY <3>1, CountOf, Zenon
    <3>4. Rearm(d) \in [count : Nat, warning : BOOLEAN, limit : BOOLEAN]
      BY <3>1, <3>2
    <3>5. e.count # 0
      BY <1>2
    <3>6. QED
      BY <2>2, <2>3, <3>2, <3>3, <3>4, <3>5, Zenon
  <2>4. CASE ~(d.count <= CountLow)
    <3>1. Lower(e) = d
      BY <2>2, <2>4, Zenon DEF Rearm
    <3>2. d = [e EXCEPT !.count = e.count - 1]
      BY Zenon DEF d
    <3>3. Lower(e) \in [count : Nat, warning : BOOLEAN, limit : BOOLEAN]
          /\ Lower(e) = [e EXCEPT !.count = e.count - 1]
      BY <2>1, <3>1, <3>2, Zenon
    <3>4. Lower(e).count = e.count - 1
      <4>1. d.count = e.count - 1
        BY <2>1, CountOf, Zenon
      <4>2. QED
        BY <3>1, <4>1, Zenon
    <3>5. e.count # 0
      BY <1>2
    <3>6. QED
      BY <3>3, <3>4, <3>5, Zenon
  <2>5. QED
    BY <2>3, <2>4, Zenon
<1>3. QED
  BY <1>1, <1>2

\* A dropped proxy lowers the entry exactly when it counted there.
LEMMA CountKeptByForget ==
    ASSUME UidCountInv, NEW kind \in ProxyKinds, ForgetProxy(kind)
    PROVE  /\ UidCountInv'
           /\ \A event \in {"warning", "limit"} :
                uidEntry'[event] /\ ~uidEntry[event] => wasLow[event]
<1> USE DEF UidCountInv
<1>1. /\ tracked[kind] > 0 /\ tracked' = [tracked EXCEPT ![kind] = @ - 1]
      /\ proxyCount' = proxyCount - 1
      /\ uidEntry' = IF kind = "counted" THEN Lower(uidEntry) ELSE uidEntry
      /\ wasLow' = [event \in DOMAIN wasLow |-> wasLow[event] \/ uidEntry'.count <= CountLow]
      /\ UNCHANGED <<byUid, hook, creator, cacheLock, pending, heldAtFire, wiped, togglesLeft>>
  BY Zenon DEF ForgetProxy, CountedProxy
<1>2. uidEntry \in [count : Nat, warning : BOOLEAN, limit : BOOLEAN]
  BY Zenon DEF CountTypeOK
<1>3. uidEntry' \in [count : Nat, warning : BOOLEAN, limit : BOOLEAN]
  BY <1>1, <1>2, LowerArms, Zenon
<1>4. /\ wasLow' \in [{"warning", "limit"} -> BOOLEAN]
      /\ wasLow'["warning"] = (wasLow["warning"] \/ uidEntry'.count <= CountLow)
      /\ wasLow'["limit"] = (wasLow["limit"] \/ uidEntry'.count <= CountLow)
  BY <1>1, Zenon DEF CountTypeOK
<1>5. tracked' \in [ProxyKinds -> Nat]
  BY <1>1 DEF CountTypeOK
<1>6. CountTypeOK'
  BY <1>1, <1>3, <1>4, <1>5 DEF CountTypeOK
<1>7. LockHeld' /\ CallbackOutsideLock'
  BY <1>1, Zenon DEF LockHeld, CallbackOutsideLock
<1>8. uidEntry'.count <= CountLow
      \/ (uidEntry'.warning = uidEntry.warning /\ uidEntry'.limit = uidEntry.limit)
  BY <1>1, <1>2, LowerArms, Zenon
<1>9. ArmedWasLow'
  BY <1>4, <1>8, Zenon DEF ArmedWasLow
<1>10. UidCountExact'
  <2>1. CASE kind = "counted"
    <3>1. tracked'["counted"] = tracked["counted"] - 1 /\ tracked["counted"] > 0
      BY <1>1, <2>1, Zenon DEF CountTypeOK, ProxyKinds
    <3>2. uidEntry'.count = IF uidEntry.count = 0 THEN 0 ELSE uidEntry.count - 1
      BY <1>1, <1>2, <2>1, LowerArms, Zenon
    <3>3. QED
      BY <1>1, <1>2, <3>1, <3>2 DEF UidCountExact, CountTypeOK, ProxyKinds
  <2>2. CASE kind = "plain"
    <3>1. tracked'["counted"] = tracked["counted"] /\ uidEntry' = uidEntry
      BY <1>1, <2>2, Zenon DEF CountTypeOK, ProxyKinds
    <3>2. QED
      BY <1>1, <3>1, Zenon DEF UidCountExact
  <2>3. QED
    BY <2>1, <2>2, Zenon DEF ProxyKinds
<1>11. \A event \in {"warning", "limit"} : ~uidEntry[event] => wasLow[event]
  BY Zenon DEF ArmedWasLow
<1>12. QED
  BY <1>6, <1>7, <1>9, <1>10, <1>11, Zenon

\* Changing a setting keeps the entry, and clearing the entries arms both events.
LEMMA CountKeptBySettings ==
    ASSUME UidCountInv, EnableCountByUid \/ SetEventCallback \/ ClearCountByUid
    PROVE  UidCountInv'
<1> USE DEF UidCountInv
<1>1. togglesLeft' \in Nat /\ UNCHANGED <<proxyCount, tracked, creator, cacheLock, pending, heldAtFire>>
  BY DEF EnableCountByUid, SetEventCallback, ClearCountByUid, Toggle, CountTypeOK
<1>2. byUid' \in BOOLEAN /\ hook' \in BOOLEAN
  BY Zenon DEF EnableCountByUid, SetEventCallback, ClearCountByUid, CountTypeOK
<1>3. LockHeld' /\ CallbackOutsideLock'
  BY <1>1, Zenon DEF LockHeld, CallbackOutsideLock
<1>4. CASE UNCHANGED <<uidEntry, wasLow, wiped>>
  <2>1. CountTypeOK'
    BY <1>1, <1>2, <1>4, Zenon DEF CountTypeOK
  <2>2. ArmedWasLow' /\ UidCountExact'
    BY <1>1, <1>4, Zenon DEF ArmedWasLow, UidCountExact
  <2>3. QED
    BY <1>3, <2>1, <2>2, Zenon
<1>5. CASE ClearCountByUid
  <2>1. uidEntry' = NoUidEntry /\ wiped' = TRUE
    BY <1>5, Zenon DEF ClearCountByUid
  <2>2. /\ wasLow' \in [{"warning", "limit"} -> BOOLEAN]
        /\ wasLow'["warning"] = TRUE /\ wasLow'["limit"] = TRUE
    BY <1>5, Zenon DEF ClearCountByUid, CountTypeOK
  <2>3. uidEntry' \in [count : Nat, warning : BOOLEAN, limit : BOOLEAN] /\ uidEntry'.count = 0
    BY <2>1, Zenon DEF NoUidEntry
  <2>4. CountTypeOK'
    BY <1>1, <1>2, <2>1, <2>2, <2>3, Zenon DEF CountTypeOK
  <2>5. ArmedWasLow'
    BY <2>2, Zenon DEF ArmedWasLow
  <2>6. UidCountExact'
    BY <1>1, <2>1, <2>3 DEF UidCountExact, CountTypeOK, ProxyKinds
  <2>7. QED
    BY <1>3, <2>4, <2>5, <2>6, Zenon
<1>6. QED
  BY <1>4, <1>5, Zenon DEF EnableCountByUid, SetEventCallback, ClearCountByUid

\* A proxy lowers its user's entry exactly when its creation raised it, no
\* event is raised twice without the count having been low in between, and no
\* callback runs under the cache lock: for any number of threads, any
\* watermarks and any changes of the settings (on_proxy_create, on_proxy_drop,
\* CallbackDeferGuard).
THEOREM CountingCorrect == CountSpec => CountingSafe
<1> DEFINE Debounced == \A event \in {"warning", "limit"} :
                          uidEntry'[event] /\ ~uidEntry[event] => wasLow[event]
<1>1. UidCountInv /\ [CountNext]_countVars => UidCountInv' /\ [Debounced]_countVars
  <2> SUFFICES ASSUME UidCountInv, [CountNext]_countVars PROVE UidCountInv' /\ [Debounced]_countVars
    BY Zenon
  <2>1. CASE UNCHANGED countVars
    BY <2>1, Zenon DEF countVars, UidCountInv, CountTypeOK, LockHeld, ArmedWasLow, UidCountExact,
       CallbackOutsideLock
  <2>2. CASE UNCHANGED uidEntry \/ uidEntry' = NoUidEntry
    <3>1. Debounced
      BY <2>2 DEF NoUidEntry
    <3>2. QED
      BY <2>1, <3>1, CountKeptByLock, CountKeptByGlobal, CountKeptByUid, CountKeptByGuard,
         CountKeptByForget, CountKeptBySettings, Zenon DEF CountNext
  <2>3. QED
    BY <2>1, <2>2, CountKeptByLock, CountKeptByGlobal, CountKeptByUid, CountKeptByGuard,
       CountKeptByForget, CountKeptBySettings, Zenon
    DEF CountNext, EnterCreate, Unlock, BumpGlobal, GuardDrops, EnableCountByUid, SetEventCallback, ClearCountByUid
<1>2. UidCountInv => UidCountExact /\ CallbackOutsideLock
  BY Zenon DEF UidCountInv
<1>3. QED
  BY <1>1, <1>2, CountStart, PTL DEF CountSpec, CountingSafe, EventsDebounced
=============================================================================
