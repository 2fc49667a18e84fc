------------------------------ MODULE RpcNode ------------------------------
(***************************************************************************)
(* One object of an RPC session seen from both ends: the reference books of *)
(* RpcRefs together with the oneway calls of OnewayOrder that go through    *)
(* the proxies.  The two meet in three places:                              *)
(*   - a call is made through a SIBinder, which its thread borrows until    *)
(*     the frame is out, and is addressed to the node of that object;       *)
(*   - the node's async_todo is dropped with the node;                      *)
(*   - forget_remote_if removes the send counter along with the table entry.*)
(* The model follows one address of one object.                             *)
(***************************************************************************)
EXTENDS Integers, FiniteSets, Sequences

CONSTANTS Sends, Object, Calls, Conns, TodoLimit, None

VARIABLES binder, strong, byPtr, addrCounter, st, addr, prox, table, forgetting
VARIABLES counter, stage, num, conn, wire, up, next, todo, work
VARIABLES by,     \* by[c]: the receipt whose SIBinder call c was made with
          via,    \* via[c]: the proxy behind it
          resets  \* how often forget_remote_if removed the send counter
refs  == <<binder, strong, byPtr, addrCounter, st, addr, prox, table, forgetting>>
calls == <<counter, stage, num, conn, wire, up, next, todo, work>>
vars  == <<refs, calls, by, via, resets>>

Addr == 1
NodeExists == binder[Addr] # None

Refs  == INSTANCE RpcRefs WITH Objects <- {Object}, AddrLimit <- 1, Nobody <- None
Order == INSTANCE OnewayOrder WITH node <- NodeExists

Init ==
    /\ Refs!Init /\ Order!NoCalls
    /\ by = [c \in Calls |-> None]
    /\ via = [c \in Calls |-> None]
    /\ resets = 0

\* A thread calls through the SIBinder it got from receipt s.
Call(c, k, s) ==
    /\ prox[s] # None
    /\ by' = [by EXCEPT ![c] = s]
    /\ via' = [via EXCEPT ![c] = prox[s]]
    /\ UNCHANGED <<refs, resets>>
    /\ Order!Reserve(c, k)

CallStep == UNCHANGED <<refs, by, via, resets>> /\ Order!Progress

\* The borrow checker keeps a SIBinder while a call through it is being sent.
Borrowed(s) == \E c \in Calls : conn[c] # None /\ by[c] = s

\* forget_remote_if took the table entry, and with it the send counter.
Forgotten == table[Addr] # None /\ table'[Addr] = None

RefStep ==
    /\ Refs!Next
    /\ \A s \in Sends : Borrowed(s) => prox'[s] = prox[s]
    /\ counter' = IF Forgotten THEN 0 ELSE counter
    /\ resets' = IF Forgotten THEN resets + 1 ELSE resets
    /\ todo' = IF NodeExists' THEN todo ELSE {}
    /\ Order!MoveAll(todo \ todo', "unknown")
    /\ UNCHANGED <<num, conn, wire, up, next, work, by, via>>

Next ==
    \/ \E c \in Calls, k \in Conns, s \in Sends : Call(c, k, s)
    \/ CallStep
    \/ RefStep

Spec == Init /\ [][Next]_vars

-----------------------------------------------------------------------------
(* Properties *)

Dropped(p) == st[p] \in {"dec", "done", "lost"}

\* A oneway finds its object as long as the caller keeps the proxy it called
\* through, on whichever connection it and the other side's DEC_STRONGs
\* travel; and its number is only behind the receiver if some proxy of the
\* object was dropped.
DiscardNeedsDrop ==
    \A c \in Calls : /\ stage[c] = "unknown" => Dropped(via[c])
                     /\ stage[c] = "stale" => \E d \in Calls : via[d] # None /\ Dropped(via[d])

\* What remote_send_async_counters promises of a dropped and re-resolved proxy
\* ("degrades to a single best-effort oneway drop on the peer's
\* Drop(StaleAsyncNumber) arm"): each removal of the counter costs at most one
\* call.
SingleStaleDrop == Cardinality({c \in Calls : stage[c] = "stale"}) <= resets
=============================================================================
