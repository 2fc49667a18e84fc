------------------------------ MODULE MCCalls -------------------------------
(* Calls over a session, on small instances: the threads that compete for its  *)
(* connections, and the calls nested on one connection, twice: with outer      *)
(* calls of the client only, and with everything mixed.  A behaviour explores  *)
(* the part it starts with; the others are over or have not begun.             *)
EXTENDS ConnPool, NestedCalls

CONSTANTS c1, w1, w2, w3, reaper

McBudget == [t \in {c1, w1, w2, w3, reaper} |-> IF t \in {c1, w1} THEN 1 ELSE 0]

\* Both ends initiate, every call may nest and time out, one is a oneway.
CONSTANTS MixedCalls, MixedOneway
VARIABLES mStack, mInbox, mOpen, mSt, mGot
Mixed == INSTANCE NestedCalls WITH
    Calls <- MixedCalls, Oneway <- MixedOneway, Initiators <- Ends,
    Outer <- MixedCalls, Inner <- MixedCalls, Timed <- MixedCalls,
    stack <- mStack, inbox <- mInbox, open <- mOpen, st <- mSt, got <- mGot
mixedVars == <<mStack, mInbox, mOpen, mSt, mGot>>

VARIABLE part
mcVars == <<part, poolVars, vars, mixedVars>>

PoolOver ==
    /\ slots = {} /\ nextId = 2 /\ closed = {1} /\ live = 0 /\ queue = 0
    /\ excl = [s \in Ids |-> NoThread] /\ lock = NoThread
    /\ driving = [t \in Threads |-> <<>>] /\ guards = [t \in Threads |-> <<>>]
    /\ pc = [t \in Threads |-> IF t \in Workers THEN "done" ELSE "idle"]
    /\ then = [t \in Threads |-> "idle"]
    /\ mine = [w \in Workers |-> IF w = Founder THEN 1 ELSE 0]
    /\ left = Budget

McInit ==
    /\ part \in {"pool", "nested", "mixed"}
    /\ IF part = "pool" THEN PoolInit ELSE PoolOver
    /\ Init /\ Mixed!Init

Rest(p) ==
    /\ UNCHANGED part
    /\ p # "pool" => UNCHANGED poolVars
    /\ p # "nested" => UNCHANGED vars
    /\ p # "mixed" => UNCHANGED mixedVars

\* Nobody has to call, so nested calls may stop; the pool must never be stuck.
McNext ==
    \/ part = "pool" /\ PoolNext /\ Rest(part)
    \/ part = "nested" /\ Next /\ Rest(part)
    \/ part = "mixed" /\ Mixed!Next /\ Rest(part)
    \/ part # "pool" /\ UNCHANGED mcVars

\* FairSpec's fairness, for the behaviours in which calls nest.
McSpec ==
    /\ McInit /\ [][McNext]_mcVars /\ PoolFairness
    /\ WF_vars(part = "nested" /\ Worker)
    /\ \A e \in Ends : WF_vars(part = "nested" /\ ~Hangs(e) /\ Step(e))

\* AnsweredOnce and RetiredIsIdle where replies cross, come late or belong to
\* calls of handlers that nobody waits for.
MixedAnswersKept == Mixed!AnswersKept
=============================================================================
