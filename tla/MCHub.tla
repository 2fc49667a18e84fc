-------------------------------- MODULE MCHub -------------------------------
(* Finding objects and keeping them, on small instances: the service manager,  *)
(* the threads that look services up, lazily managed services, and the         *)
(* references of an RPC session.  These parts share no state; a behaviour      *)
(* explores the one it starts with, and the others rest.                       *)
EXTENDS ServiceManager, ServiceLookup, LazyRegistrar, RpcRefs

CONSTANTS p1, p2, b1, b2, r1, c1

McUid == [p \in {p1, p2} |-> 1]
McProc == [b \in {b1, b2, r1, c1} |-> IF b \in {b1, c1} THEN p1 ELSE p2]
McRegistrants == [b \in {b1, b2} |-> {McProc[b]}]

VARIABLE part
mcVars == <<part, smVars, lookupVars, lazyVars, vars>>

McInit ==
    /\ part \in {"manager", "lookup", "lazy", "refs"}
    /\ HubInit /\ LazyInit /\ Init
    /\ \E old, threads \in IF part = "lookup" THEN BOOLEAN ELSE {FALSE} : LookupStart(old, threads)

Rest(p) ==
    /\ UNCHANGED part
    /\ p # "manager" => UNCHANGED smVars
    /\ p # "lookup" => UNCHANGED lookupVars
    /\ p # "lazy" => UNCHANGED lazyVars
    /\ p # "refs" => UNCHANGED vars

McNext ==
    \/ part = "manager" /\ HubNext /\ Rest(part)
    \/ part = "lookup" /\ LookupNext /\ Rest(part)
    \/ part = "lazy" /\ LazyNext /\ Rest(part)
    \/ part = "refs" /\ Next /\ Rest(part)

\* The fairness of LookupSpec and of FairSpec, for the behaviours in which the
\* seekers and the session run.
McSpec ==
    /\ McInit /\ [][McNext]_mcVars
    /\ \A s \in Seekers : WF_lookupVars(part = "lookup" /\ SeekStep(s))
    /\ \A s \in Sends :
         /\ WF_vars(part = "refs" /\ Handover(s)) /\ WF_vars(part = "refs" /\ Delivery(s))
         /\ WF_vars(part = "refs" /\ ReturnExcess(s)) /\ WF_vars(part = "refs" /\ Release(s))
         /\ WF_vars(part = "refs" /\ DropProxy(s)) /\ WF_vars(part = "refs" /\ Forget(s))
         /\ WF_vars(part = "refs" /\ Return(s))
=============================================================================
