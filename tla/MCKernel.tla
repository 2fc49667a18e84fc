------------------------------ MODULE MCKernel ------------------------------
(* The kernel stack on small instances: the counter of a native binder, the   *)
(* cache of proxies, the published natives, the calls and callers of one       *)
(* thread, the thread pool and the proxy counters.  These parts share no       *)
(* state; a behaviour explores the one it starts with, and the others rest.    *)
EXTENDS RefCounter, HandleCache, PublishedNatives, KernelCalls, ThreadPool, ProxyCount

\* A sender that is not known, and one that is.
KcSenders == {-1, 2}

VARIABLE part
kernelVars == <<part, vars, cacheVars, pubVars, callVars, poolVars, countVars>>

KernelInit ==
    /\ part \in {"counter", "cache", "published", "calls", "pool", "count"}
    /\ Init /\ CacheInit /\ PubInit /\ PoolInit /\ CountInit
    /\ \E r \in IF part = "calls" THEN Restrictions ELSE {"none"} : CallsStart(r)

Rest(p) ==
    /\ UNCHANGED part
    /\ p # "counter" => UNCHANGED vars
    /\ p # "cache" => UNCHANGED cacheVars
    /\ p # "published" => UNCHANGED pubVars
    /\ p # "calls" => UNCHANGED callVars
    /\ p # "pool" => UNCHANGED poolVars
    /\ p # "count" => UNCHANGED countVars

KernelNext ==
    \/ part = "counter" /\ Next /\ Rest(part)
    \/ part = "cache" /\ CacheNext /\ Rest(part)
    \/ part = "published" /\ PubNext /\ Rest(part)
    \/ part = "calls" /\ CallsNext /\ Rest(part)
    \/ part = "pool" /\ PoolNext /\ Rest(part)
    \/ part = "count" /\ CountNext /\ Rest(part)

KernelSpec ==
    KernelInit /\ [][KernelNext]_kernelVars /\ WF_callVars(part = "calls" /\ CallsMove)
=============================================================================
