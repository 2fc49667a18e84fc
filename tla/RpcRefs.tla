------------------------------ MODULE RpcRefs ------------------------------
(***************************************************************************)
(* The reference books of an RPC session: timesSent on the side that owns   *)
(* an object (RpcState::local_nodes in rsbinder/src/rpc/state.rs) against    *)
(* the one deduplicated RpcProxy per address on the side that received it.   *)
(*                                                                         *)
(* A member of Sends is one object put into an outgoing parcel.  It bumps    *)
(* timesSent once, and from there is followed until one DEC_STRONG for it    *)
(* has been applied: through the wire, read_binder and the proxy that owns   *)
(* it.  The proxy minted by a receipt is named after that receipt.  Several  *)
(* connections carry the traffic, so nothing is delivered in order.          *)
(*                                                                         *)
(* Each action is one critical section of the state lock, or one message.    *)
(* read_binder first looks for the address among its own local nodes; the    *)
(* two sides number disjoint address subspaces, so that lookup misses here.  *)
(***************************************************************************)
EXTENDS Integers, FiniteSets

CONSTANTS Sends,      \* the receipts: one object in one outgoing parcel
          Objects,    \* the local objects that may be sent
          AddrLimit,  \* u32::MAX in on_binder_leaving: the last address handed out
          Nobody      \* no node, no proxy

ASSUME RefsAssumption ==
    IsFiniteSet(Sends) /\ AddrLimit \in Nat /\ Nobody \notin Sends \cup Objects

Addrs == 1 .. AddrLimit

VARIABLES binder,      \* local_nodes[a].binder; Nobody: no node at a
          strong,      \* local_nodes[a].strong
          byPtr,       \* local_by_ptr[o], 0 when absent
          addrCounter, \* addr_counter
          st,          \* st[s]: where the reference of send s is
          addr,        \* addr[s]: the address it was sent under
          prox,        \* prox[s]: the proxy the receiver's SIBinder holds
          table,       \* remote_proxies[a]: the proxy the Weak points to
          forgetting   \* proxies between their DEC_STRONG and forget_remote_if
vars == <<binder, strong, byPtr, addrCounter, st, addr, prox, table, forgetting>>
owner == <<binder, strong, byPtr, addrCounter>>
peer  == <<prox, table, forgetting>>

Init ==
    /\ binder = [a \in Addrs |-> Nobody]
    /\ strong = [a \in Addrs |-> 0]
    /\ byPtr = [o \in Objects |-> 0]
    /\ addrCounter = 0
    /\ st = [s \in Sends |-> "idle"]
    /\ addr = [s \in Sends |-> 0]
    /\ prox = [s \in Sends |-> Nobody]
    /\ table = [a \in Addrs |-> Nobody]
    /\ forgetting = {}

Move(s, to) == st' = [st EXCEPT ![s] = to]

-----------------------------------------------------------------------------
(* The owner: write_binder, the send and its rollback *)

\* Fault model: a re-send returns the address without bumping timesSent.
ResendFault(s, o) ==
    /\ st[s] = "idle" /\ byPtr[o] # 0
    /\ addr' = [addr EXCEPT ![s] = byPtr[o]]
    /\ Move(s, "leaving")
    /\ UNCHANGED <<owner, peer>>

\* on_binder_leaving for an object that already has a node.
Resend(s, o) ==
    /\ st[s] = "idle" /\ byPtr[o] # 0
    /\ strong' = [strong EXCEPT ![byPtr[o]] = @ + 1]
    /\ addr' = [addr EXCEPT ![s] = byPtr[o]]
    /\ Move(s, "leaving")
    /\ UNCHANGED <<binder, byPtr, addrCounter, peer>>

\* on_binder_leaving for a new object: a fresh address, or FailedTransaction
\* once the counter is exhausted.
FirstSend(s, o) ==
    /\ st[s] = "idle" /\ byPtr[o] = 0
    /\ \/ /\ addrCounter >= AddrLimit
          /\ Move(s, "refused")
          /\ UNCHANGED <<owner, addr, peer>>
       \/ /\ addrCounter < AddrLimit
          /\ addrCounter' = addrCounter + 1
          /\ binder' = [binder EXCEPT ![addrCounter'] = o]
          /\ strong' = [strong EXCEPT ![addrCounter'] = 1]
          /\ byPtr' = [byPtr EXCEPT ![o] = addrCounter']
          /\ addr' = [addr EXCEPT ![s] = addrCounter']
          /\ Move(s, "leaving")
          /\ UNCHANGED peer

\* cancel_binder_leaving and dec_strong_local: one reference less, and the
\* node, with its local_by_ptr entry, goes with the last one.
DecStrong(a) ==
    /\ UNCHANGED addrCounter
    /\ \/ /\ binder[a] = Nobody
          /\ UNCHANGED <<binder, strong, byPtr>>
       \/ /\ binder[a] # Nobody /\ strong[a] > 1
          /\ strong' = [strong EXCEPT ![a] = @ - 1]
          /\ UNCHANGED <<binder, byPtr>>
       \/ /\ binder[a] # Nobody /\ strong[a] <= 1
          /\ strong' = [strong EXCEPT ![a] = 0]
          /\ binder' = [binder EXCEPT ![a] = Nobody]
          /\ byPtr' = [o \in Objects |-> IF byPtr[o] = a THEN 0 ELSE byPtr[o]]

\* The parcel was sent.
Transmit(s) ==
    /\ st[s] = "leaving"
    /\ Move(s, "sent")
    /\ UNCHANGED <<owner, addr, peer>>

\* Encoding or sending the parcel failed: rollback_outgoing.
Rollback(s) ==
    /\ st[s] = "leaving"
    /\ DecStrong(addr[s])
    /\ Move(s, "done")
    /\ UNCHANGED <<addr, peer>>

\* The parcel was dropped without reaching the send: a later argument failed
\* to serialise, or find_conn returned an error.  Nothing rolls it back.
Abandon(s) ==
    /\ st[s] = "leaving"
    /\ Move(s, "lost")
    /\ UNCHANGED <<owner, addr, peer>>

-----------------------------------------------------------------------------
(* The receiver: read_binder, and the drop of the proxy *)

Alive(p) == \E s \in Sends : prox[s] = p

\* Fault model: a duplicate receipt owes the sender nothing.
ReceiveFault(s) ==
    /\ st[s] = "sent"
    /\ LET a == addr[s]
           live == table[a] # Nobody /\ Alive(table[a])
           p == IF live THEN table[a] ELSE s
       IN /\ prox' = [prox EXCEPT ![s] = p]
          /\ table' = [table EXCEPT ![a] = p]
          /\ Move(s, IF live THEN "done" ELSE "proxy")
    /\ UNCHANGED <<owner, addr, forgetting>>

\* remote_proxy: a live Weak is reused and the receipt is excess; a dead or
\* missing one is replaced by a new proxy, which owns the reference.
Receive(s) ==
    /\ st[s] = "sent"
    /\ LET a == addr[s]
           live == table[a] # Nobody /\ Alive(table[a])
       IN \/ /\ live
             /\ prox' = [prox EXCEPT ![s] = table[a]]
             /\ Move(s, "excess")
             /\ UNCHANGED table
          \/ /\ ~live
             /\ prox' = [prox EXCEPT ![s] = s]
             /\ table' = [table EXCEPT ![a] = s]
             /\ Move(s, "proxy")
    /\ UNCHANGED <<owner, addr, forgetting>>

\* The excess DEC_STRONG read_binder sends outside the lock.
ReturnExcess(s) ==
    /\ st[s] = "excess"
    /\ Move(s, "dec")
    /\ UNCHANGED <<owner, addr, peer>>

\* The parcel was dropped without the object being read from it.
Unread(s) ==
    /\ st[s] = "sent"
    /\ Move(s, "lost")
    /\ UNCHANGED <<owner, addr, peer>>

\* The receiver drops the SIBinder it got from receipt s.
Release(s) ==
    /\ prox[s] # Nobody
    /\ prox' = [prox EXCEPT ![s] = Nobody]
    /\ UNCHANGED <<owner, st, addr, table, forgetting>>

\* RpcProxy::drop, first half: the last SIBinder of proxy p is gone and its
\* DEC_STRONG is queued.
DropProxy(p) ==
    /\ st[p] = "proxy" /\ ~Alive(p)
    /\ Move(p, "dec")
    /\ forgetting' = forgetting \cup {p}
    /\ UNCHANGED <<owner, addr, prox, table>>

\* Fault model: forget_remote_if without the identity check.
ForgetFault(p) ==
    /\ p \in forgetting
    /\ forgetting' = forgetting \ {p}
    /\ table' = [table EXCEPT ![addr[p]] = Nobody]
    /\ UNCHANGED <<owner, st, addr, prox>>

\* RpcProxy::drop, second half: forget_remote_if.
Forget(p) ==
    /\ p \in forgetting
    /\ forgetting' = forgetting \ {p}
    /\ table' = [table EXCEPT ![addr[p]] = IF @ = p THEN Nobody ELSE @]
    /\ UNCHANGED <<owner, st, addr, prox>>

-----------------------------------------------------------------------------
(* DEC_STRONG on its way back *)

\* The owner applies an inbound DEC_STRONG: dec_strong_local.
ApplyDec(s) ==
    /\ st[s] = "dec"
    /\ DecStrong(addr[s])
    /\ Move(s, "done")
    /\ UNCHANGED <<addr, peer>>

\* A DEC_STRONG is best effort: it is lost with the connection it was on.
LoseDec(s) ==
    /\ st[s] = "dec"
    /\ Move(s, "lost")
    /\ UNCHANGED <<owner, addr, peer>>

-----------------------------------------------------------------------------
Handover(s) == Transmit(s) \/ Rollback(s) \/ Abandon(s)
Delivery(s) == Receive(s) \/ Unread(s)
Return(s)   == ApplyDec(s) \/ LoseDec(s)

\* Every send ran its course.
Settled ==
    /\ \A s \in Sends : st[s] \in {"done", "lost", "refused"} /\ prox[s] = Nobody
    /\ forgetting = {}
    /\ UNCHANGED vars

Next ==
    \/ \E s \in Sends, o \in Objects : Resend(s, o) \/ FirstSend(s, o)
    \/ \E s \in Sends : \/ Handover(s) \/ Delivery(s) \/ ReturnExcess(s)
                        \/ Release(s) \/ DropProxy(s) \/ Forget(s) \/ Return(s)
    \/ Settled

Spec == Init /\ [][Next]_vars

\* The threads that hold a parcel, a frame or a dying proxy go on, and the
\* receiver drops every SIBinder in the end.  Nobody has to send anything.
Fairness ==
    \A s \in Sends :
        /\ WF_vars(Handover(s)) /\ WF_vars(Delivery(s)) /\ WF_vars(ReturnExcess(s))
        /\ WF_vars(Release(s)) /\ WF_vars(DropProxy(s))
        /\ WF_vars(Forget(s)) /\ WF_vars(Return(s))

FairSpec == Spec /\ Fairness

-----------------------------------------------------------------------------
(* Properties *)

Stages == {"idle", "refused", "leaving", "sent", "excess", "proxy", "dec", "done", "lost"}

TypeOK ==
    /\ binder \in [Addrs -> Objects \cup {Nobody}]
    /\ strong \in [Addrs -> Int]
    /\ byPtr \in [Objects -> Addrs \cup {0}]
    /\ addrCounter \in 0 .. AddrLimit
    /\ st \in [Sends -> Stages]
    /\ addr \in [Sends -> Addrs \cup {0}]
    /\ prox \in [Sends -> Sends \cup {Nobody}]
    /\ table \in [Addrs -> Sends \cup {Nobody}]
    /\ forgetting \subseteq Sends

\* The sends under address a whose reference the owner has not got back.
Out == [a \in Addrs |-> {s \in Sends : addr[s] = a /\ st[s] \notin {"idle", "refused", "done"}}]

\* timesSent is the number of references that are still out, a node exists
\* exactly while there is one, and local_by_ptr is the inverse of local_nodes:
\* the books of on_binder_leaving, cancel_binder_leaving and dec_strong_local
\* net to one DEC_STRONG per send.
TimesSentInv ==
    /\ \A a \in Addrs : /\ strong[a] = Cardinality(Out[a])
                        /\ binder[a] = Nobody <=> Out[a] = {}
    /\ \A o \in Objects, a \in Addrs : byPtr[o] = a <=> binder[a] = o
    /\ \A a \in Addrs : a > addrCounter => Out[a] = {}
    /\ \A s \in Sends : st[s] \notin {"idle", "refused"} => addr[s] \in 1 .. addrCounter

\* The node of an object outlives every SIBinder a receiver holds for it, so a
\* call through a live proxy never meets DeadObject, whichever connection its
\* sibling receipts and their DEC_STRONGs take.
NodeOutlivesProxy ==
    \A s \in Sends : prox[s] # Nobody => binder[addr[s]] # Nobody

\* Exactly one live proxy per address, the one remote_proxies leads to, and it
\* still owes its DEC_STRONG (forget_remote_if's doc: "exactly one live proxy
\* => exactly one DEC_STRONG"), also while its dead predecessor is forgotten.
OneLiveProxy ==
    /\ \A s \in Sends : prox[s] # Nobody =>
          /\ table[addr[s]] = prox[s]
          /\ st[prox[s]] = "proxy" /\ addr[prox[s]] = addr[s]
          /\ st[s] \in {"excess", "proxy", "dec", "done", "lost"}
    /\ \A p \in forgetting : st[p] \in {"dec", "done", "lost"}
    /\ \A a \in Addrs : table[a] # Nobody =>
          addr[table[a]] = a /\ st[table[a]] \in {"proxy", "dec", "done", "lost"}

\* The books of both ends agree on every object: what is out is counted, what
\* is held exists, and one proxy stands for it (on_binder_leaving,
\* dec_strong_local and forget_remote_if of state.rs).
RefsBalanced == TimesSentInv /\ NodeOutlivesProxy /\ OneLiveProxy

\* Once the receiver has dropped what it got, nothing keeps an object: unless
\* a reference was lost on the way, every node is freed and every entry of
\* remote_proxies is gone.
EventuallyFreed ==
    [](\A s \in Sends : st[s] # "lost")
        => <>[](\A a \in Addrs : binder[a] = Nobody /\ table[a] = Nobody)
=============================================================================
