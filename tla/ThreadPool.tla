---------------------------- MODULE ThreadPool ----------------------------
(***************************************************************************)
(* The kernel thread pool (process_state.rs start_thread_pool and          *)
(* spawn_pooled_thread, thread_state.rs join_thread_pool) against the      *)
(* driver's own book of requested and registered loopers.                  *)
(***************************************************************************)
EXTENDS Naturals, FiniteSets

CONSTANTS PoolThreads,     \* threads that may ever exist
          MaxLoopers,      \* max_threads, as the driver was told
          LateStart,       \* whether a thread joins before start_thread_pool
          PoolFaults       \* bound: spawns, commands and ioctls that fail

ASSUME PoolAssumption ==
    IsFiniteSet(PoolThreads) /\ MaxLoopers \in Nat /\ LateStart \in BOOLEAN /\ PoolFaults \in Nat

VARIABLES poolStarted,     \* thread_pool_started
          mainSpawned,     \* main_thread_spawned
          kernelStarted,   \* kernel_started_threads
          currentThreads,  \* current_threads
          looper,          \* where every thread is
          inBatch,         \* threads whose BR_SPAWN_LOOPER is not yet executed
          counting,        \* threads that have spawned one and not yet counted it
          startCounting,   \* the same of the caller of start_thread_pool
          book,            \* the driver's requested_threads[_started] (external)
          startCalls,
          poolBudget

poolVars == <<poolStarted, mainSpawned, kernelStarted, currentThreads, looper, inBatch,
              counting, startCounting, book, startCalls, poolBudget>>

Nobody == [at |-> "none", main |-> FALSE]
InPool == {t \in PoolThreads :
              looper[t].at \in {"joined", "waiting", "busy", "unsent", "leaving"}}
Moves(t, at) == looper' = [looper EXCEPT ![t].at = at]

\* Loopers the driver asked for: those it will hear of, and those that left
\* with their BC_REGISTER_LOOPER unsent.
Coming == {t \in PoolThreads : ~looper[t].main /\ looper[t].at \in {"spawned", "joined", "unsent"}}
Lost == {t \in PoolThreads : ~looper[t].main /\ looper[t].at = "lost"}

----------------------------------------------------------------------------
\* thread::Builder::spawn of join_thread_pool(is_main): a free thread, or a
\* failure that is only logged.
Spawns(main) ==
    /\ \E u \in PoolThreads :
          looper[u] = Nobody /\ looper' = [looper EXCEPT ![u] = [at |-> "spawned", main |-> main]]
    /\ UNCHANGED poolBudget

SpawnFails(main) ==
    /\ poolBudget.faults > 0
    /\ poolBudget' = [poolBudget EXCEPT !.faults = @ - 1, !.refused = @ \/ ~main]
    /\ UNCHANGED looper

Starts == ~poolStarted

\* start_thread_pool: the compare-exchange admits one caller, who counts the
\* thread after it was spawned.
StartThreadPool ==
    /\ startCalls < 2
    /\ poolStarted' = TRUE
    /\ \/ Starts /\ Spawns(TRUE) /\ startCounting' = TRUE
       \/ Starts /\ SpawnFails(TRUE) /\ UNCHANGED startCounting
       \/ ~Starts /\ UNCHANGED <<looper, poolBudget, startCounting>>
    /\ startCalls' = startCalls + 1
    /\ UNCHANGED <<mainSpawned, kernelStarted, currentThreads, inBatch, counting, book>>

CountMain ==
    /\ startCounting
    /\ startCounting' = FALSE
    /\ mainSpawned' = mainSpawned + 1
    /\ UNCHANGED <<poolStarted, kernelStarted, currentThreads, looper, inBatch, counting, book,
                   poolBudget, startCalls>>

\* A user thread calls ProcessState::join_thread_pool.
JoinManually(t) ==
    /\ looper[t] = Nobody /\ (poolStarted \/ LateStart) /\ poolBudget.manual > 0
    /\ looper' = [looper EXCEPT ![t] = [at |-> "spawned", main |-> TRUE]]
    /\ poolBudget' = [poolBudget EXCEPT !.manual = @ - 1]
    /\ UNCHANGED <<poolStarted, mainSpawned, kernelStarted, currentThreads, inBatch, counting,
                   startCounting, book, startCalls>>

\* join_thread_pool: count, then BC_ENTER_LOOPER or BC_REGISTER_LOOPER is
\* queued for the first talk with the driver.
Join(t) ==
    /\ looper[t].at = "spawned"
    /\ currentThreads' = currentThreads + 1
    /\ Moves(t, "joined")
    /\ UNCHANGED <<poolStarted, mainSpawned, kernelStarted, inBatch, counting, startCounting, book,
                   poolBudget, startCalls>>

\* Fault model: every thread registers.
RegistersAlways(t) == TRUE
Registers(t) == ~looper[t].main

\* BC_REGISTER_LOOPER at the driver (external).
Registered(b) ==
    [requested |-> IF b.requested = 0 THEN 0 ELSE b.requested - 1,
     started |-> b.started + 1,
     unasked |-> b.unasked \/ b.requested = 0]

\* The first ioctl takes the queued command with it and waits for work.
FirstTalk(t) ==
    /\ looper[t].at = "joined"
    /\ book' = IF Registers(t) THEN Registered(book) ELSE book
    /\ Moves(t, "waiting")
    /\ UNCHANGED <<poolStarted, mainSpawned, kernelStarted, currentThreads, inBatch, counting,
                   startCounting, poolBudget, startCalls>>

\* The driver gives a waiting thread work; the last idle one is told to
\* spawn a looper first.
TakeWork(t) ==
    LET ask == /\ book.requested = 0 /\ book.started < MaxLoopers
               /\ \A u \in PoolThreads \ {t} : looper[u].at # "waiting"
    IN
    /\ looper[t].at = "waiting" /\ poolBudget.work > 0
    /\ book' = IF ask THEN [book EXCEPT !.requested = 1] ELSE book
    /\ inBatch' = IF ask THEN inBatch \cup {t} ELSE inBatch
    /\ Moves(t, "busy")
    /\ poolBudget' = [poolBudget EXCEPT !.work = @ - 1]
    /\ UNCHANGED <<poolStarted, mainSpawned, kernelStarted, currentThreads, counting, startCounting,
                   startCalls>>

\* Fault model: the count of the process decides instead of the driver.
SpawnsIfRoom == poolStarted /\ currentThreads < MaxLoopers
SpawnsNow == poolStarted

\* Fault model: the spawn is counted whether it succeeded or not.
CountsAny(t) == counting' = counting \cup {t}
\* Only a spawn that succeeded is counted.
CountsFailed(t) == UNCHANGED counting

\* BR_SPAWN_LOOPER: spawn_pooled_thread(false), nothing before the start.
SpawnLooper(t) ==
    /\ t \in inBatch
    /\ inBatch' = inBatch \ {t}
    /\ \/ SpawnsNow /\ Spawns(FALSE) /\ counting' = counting \cup {t}
       \/ SpawnsNow /\ SpawnFails(FALSE) /\ CountsFailed(t)
       \/ ~SpawnsNow /\ UNCHANGED <<looper, poolBudget, counting>>
    /\ UNCHANGED <<poolStarted, mainSpawned, kernelStarted, currentThreads, startCounting, book,
                   startCalls>>

\* The new thread may have registered and worked by now.
CountLooper(t) ==
    /\ t \in counting
    /\ counting' = counting \ {t}
    /\ kernelStarted' = kernelStarted + 1
    /\ UNCHANGED <<poolStarted, mainSpawned, currentThreads, looper, inBatch, startCounting, book,
                   poolBudget, startCalls>>

WorkDone(t) ==
    /\ looper[t].at = "busy" /\ t \notin inBatch \cup counting
    /\ Moves(t, "waiting")
    /\ UNCHANGED <<poolStarted, mainSpawned, kernelStarted, currentThreads, inBatch, counting,
                   startCounting, book, poolBudget, startCalls>>

\* get_and_execute_command failed: BR_FINISHED, a command's error, or an ioctl
\* error, on which the driver has taken nothing of what was queued.
LeaveLoop(t) ==
    /\ looper[t].at \in {"joined", "waiting", "busy"} /\ t \notin inBatch \cup counting
    /\ poolBudget.faults > 0
    /\ Moves(t, IF looper[t].at = "joined" THEN "unsent" ELSE "leaving")
    /\ poolBudget' = [poolBudget EXCEPT !.faults = @ - 1]
    /\ UNCHANGED <<poolStarted, mainSpawned, kernelStarted, currentThreads, inBatch, counting,
                   startCounting, book, startCalls>>

\* Fault model: an early return skips the decrement.
LeavesCounted(n) == n
Leaves(n) == n - 1

\* BC_EXIT_LOOPER goes out behind what is still queued, or that ioctl fails as
\* well; the guard counts the thread down either way.
LeavePool(t) ==
    /\ looper[t].at \in {"unsent", "leaving"}
    /\ currentThreads' = Leaves(currentThreads)
    /\ \/ /\ book' = IF looper[t].at = "unsent" /\ Registers(t) THEN Registered(book) ELSE book
          /\ Moves(t, "left")
          /\ UNCHANGED poolBudget
       \/ /\ poolBudget.faults > 0
          /\ poolBudget' = [poolBudget EXCEPT !.faults = @ - 1]
          /\ Moves(t, IF looper[t].at = "unsent" THEN "lost" ELSE "left")
          /\ UNCHANGED book
    /\ UNCHANGED <<poolStarted, mainSpawned, kernelStarted, inBatch, counting, startCounting, startCalls>>

----------------------------------------------------------------------------
PoolInit ==
    /\ poolStarted = FALSE /\ mainSpawned = 0 /\ kernelStarted = 0 /\ currentThreads = 0
    /\ looper = [t \in PoolThreads |-> Nobody]
    /\ inBatch = {} /\ counting = {} /\ startCounting = FALSE /\ startCalls = 0
    /\ book = [requested |-> 0, started |-> 0, unasked |-> FALSE]
    /\ poolBudget = [manual |-> 1, work |-> 4, faults |-> PoolFaults, refused |-> FALSE]

PoolNext ==
    \/ StartThreadPool \/ CountMain
    \/ \E t \in PoolThreads :
          \/ JoinManually(t) \/ Join(t) \/ FirstTalk(t) \/ TakeWork(t) \/ SpawnLooper(t)
          \/ CountLooper(t) \/ WorkDone(t) \/ LeaveLoop(t) \/ LeavePool(t)

PoolSpec == PoolInit /\ [][PoolNext]_poolVars

----------------------------------------------------------------------------
(* Properties                                                              *)

\* current_threads is the number of threads in the pool, although threads
\* leave it on three kinds of error.
CurrentThreadsExact == currentThreads = Cardinality(InPool)

\* "BC_REGISTER_LOOPER is emitted only from the BR_SPAWN_LOOPER handler (1:1
\* with a kernel request)" (spawn_pooled_thread): the driver never sees a
\* registration it did not ask for, so its loopers stay within max_threads;
\* also when the command waits in the queue of a thread that leaves.
RegisteredOnRequest == ~book.unasked /\ book.started <= MaxLoopers

\* The counters tests rely on: start_thread_pool spawns one thread for the
\* life of the process, and every thread a BR_SPAWN_LOOPER started, counted or
\* about to be, is registered, on its way, or left on its first ioctl: a
\* failed spawn does not desync them.
SpawnsCounted ==
    /\ mainSpawned <= 1 /\ (startCounting => mainSpawned = 0)
    /\ kernelStarted + Cardinality(counting) = book.started + Cardinality(Coming \cup Lost)

\* "AOSP's late-startThreadPool desync TODO can't arise here"
\* (spawn_pooled_thread): a request the driver waits for is in a batch some
\* thread will execute, or has its thread on the way; only a spawn that failed
\* or a thread that could not send its registration leaves it unanswered.
NoLostRequest ==
    poolStarted /\ book.requested > 0 =>
        inBatch \cup Coming # {} \/ poolBudget.refused \/ Lost # {}

\* The pool is as large as the driver believes: its counters are those of the
\* threads in it and every request gets its thread (start_thread_pool,
\* spawn_pooled_thread, join_thread_pool).
PoolAsRequested == CurrentThreadsExact /\ RegisteredOnRequest /\ SpawnsCounted /\ NoLostRequest
============================================================================
