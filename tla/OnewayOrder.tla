---------------------------- MODULE OnewayOrder ----------------------------
(***************************************************************************)
(* Oneway calls to one remote object over a session with several            *)
(* connections (rsbinder/src/rpc/state.rs, session.rs).  The sender stamps   *)
(* each call with an async_number and puts it on whichever connection it     *)
(* claimed; the receiver has one worker per connection, and the node's       *)
(* next_async_number and async_todo heap restore the order.                  *)
(*                                                                         *)
(* A member of Calls is one oneway transaction and the thread that makes it. *)
(* Each action is one critical section of a state lock or one frame.  The    *)
(* sender holds its connection from the reservation to the send.  A number   *)
(* is a natural: no session makes 2^64 calls.                                *)
(***************************************************************************)
EXTENDS Integers, FiniteSets, Sequences

CONSTANTS Calls,      \* the oneway transactions
          Conns,      \* the connections of the session
          TodoLimit,  \* ASYNC_TODO_TERMINATE_LEVEL
          None        \* no call, no connection

ASSUME OrderAssumption ==
    IsFiniteSet(Calls) /\ TodoLimit \in Nat \ {0} /\ None \notin Calls \cup Conns

VARIABLES counter,  \* remote_send_async_counters[addr]; an absent entry reads 0
          stage,    \* stage[c]: where call c is
          num,      \* num[c]: its async_number
          conn,     \* conn[c]: the connection its thread holds
          wire,     \* wire[k]: frames on connection k, oldest first
          up,       \* up[k]: connection k is open
          node,     \* local_nodes[addr] exists
          next,     \* its next_async_number
          todo,     \* its async_todo
          work      \* work[k]: the call worker k was given, None when it reads
vars == <<counter, stage, num, conn, wire, up, node, next, todo, work>>
sender   == <<counter, num, conn>>
receiver == <<node, next, todo>>

\* No call was made yet.
NoCalls ==
    /\ counter = 0
    /\ stage = [c \in Calls |-> "new"]
    /\ num = [c \in Calls |-> 0]
    /\ conn = [c \in Calls |-> None]
    /\ wire = [k \in Conns |-> <<>>]
    /\ up = [k \in Conns |-> TRUE]
    /\ next = 0
    /\ todo = {}
    /\ work = [k \in Conns |-> None]

Init == NoCalls /\ node = TRUE

\* All calls of S go to one stage.
MoveAll(S, to) == stage' = [c \in Calls |-> IF c \in S THEN to ELSE stage[c]]
Move(c, to) == MoveAll({c}, to)

-----------------------------------------------------------------------------
(* The sender: client_transact with FLAG_ONEWAY *)

\* find_conn gave connection k; next_send_async_number stamps the call.
Reserve(c, k) ==
    /\ stage[c] = "new"
    /\ \A d \in Calls : conn[d] # k
    /\ num' = [num EXCEPT ![c] = counter]
    /\ counter' = counter + 1
    /\ conn' = [conn EXCEPT ![c] = k]
    /\ Move(c, "reserved")
    /\ UNCHANGED <<wire, up, receiver, work>>

\* The frame is written and the connection given back.
SendOk(c) ==
    /\ stage[c] = "reserved" /\ up[conn[c]]
    /\ wire' = [wire EXCEPT ![conn[c]] = Append(@, c)]
    /\ conn' = [conn EXCEPT ![c] = None]
    /\ Move(c, "wire")
    /\ UNCHANGED <<counter, num, up, receiver, work>>

\* Fault model: the reservation of a failed send is not rolled back.
SendFailKeepFault(c) ==
    /\ stage[c] = "reserved"
    /\ conn' = [conn EXCEPT ![c] = None]
    /\ Move(c, "failed")
    /\ UNCHANGED <<counter, num, wire, up, receiver, work>>

\* Fault model: the rollback does not ask whether a later number is out.
SendFailBlindFault(c) ==
    /\ stage[c] = "reserved"
    /\ conn' = [conn EXCEPT ![c] = None]
    /\ counter' = num[c]
    /\ Move(c, "failed")
    /\ UNCHANGED <<num, wire, up, receiver, work>>

\* Encoding or sending failed: cancel_send_async_number takes the number back
\* unless a later one has been reserved, and otherwise leaves a gap.
SendFail(c) ==
    /\ stage[c] = "reserved"
    /\ conn' = [conn EXCEPT ![c] = None]
    /\ \/ /\ counter = num[c] + 1
          /\ counter' = num[c]
          /\ Move(c, "failed")
       \/ /\ counter # num[c] + 1
          /\ Move(c, "gap")
          /\ UNCHANGED counter
    /\ UNCHANGED <<num, wire, up, receiver, work>>

-----------------------------------------------------------------------------
(* The receiver: dispatch_oneway_ordered on the worker of connection k *)

OnWire(k) == {c \in Calls : \E i \in 1 .. Len(wire[k]) : wire[k][i] = c}

\* The frame at the head of connection k, read by its idle worker.
Reads(k, c) ==
    /\ work[k] = None /\ wire[k] # <<>> /\ c = Head(wire[k])
    /\ wire' = [wire EXCEPT ![k] = Tail(@)]

\* Fault model: a call ahead of its turn is dispatched as well.
DispatchFault(k, c) ==
    /\ Reads(k, c)
    /\ node /\ num[c] >= next
    /\ work' = [work EXCEPT ![k] = c]
    /\ Move(c, "gated")
    /\ UNCHANGED <<sender, up, receiver>>

\* dispatch_async_or_enqueue: Dispatch.  The counter advances only later.
Dispatch(k, c) ==
    /\ Reads(k, c)
    /\ node /\ num[c] = next
    /\ work' = [work EXCEPT ![k] = c]
    /\ Move(c, "gated")
    /\ UNCHANGED <<sender, up, receiver>>

\* Fault model: the backlog is not bounded.
ParkFault(k, c) ==
    /\ Reads(k, c)
    /\ node /\ num[c] > next
    /\ todo' = todo \cup {c}
    /\ Move(c, "parked")
    /\ UNCHANGED <<sender, up, node, next, work>>

\* Enqueued.
Park(k, c) ==
    /\ Reads(k, c)
    /\ node /\ num[c] > next
    /\ Cardinality(todo) + 1 < TodoLimit
    /\ todo' = todo \cup {c}
    /\ Move(c, "parked")
    /\ UNCHANGED <<sender, up, node, next, work>>

\* Terminate: the backlog is flushed and the connection torn down.
Terminate(k) ==
    /\ work[k] = None /\ wire[k] # <<>>
    /\ LET c == Head(wire[k])
       IN /\ node /\ num[c] > next
          /\ Cardinality(todo) + 1 >= TodoLimit
          /\ MoveAll(todo \cup OnWire(k), "lost")
    /\ todo' = {}
    /\ wire' = [wire EXCEPT ![k] = <<>>]
    /\ up' = [up EXCEPT ![k] = FALSE]
    /\ UNCHANGED <<sender, node, next, work>>

\* Drop(UnknownAddress) and Drop(StaleAsyncNumber).
Discard(k, c) ==
    /\ Reads(k, c)
    /\ \/ ~node /\ Move(c, "unknown")
       \/ node /\ num[c] < next /\ Move(c, "stale")
    /\ UNCHANGED <<sender, up, receiver, work>>

\* execute_dispatched: the target is looked up again, then its handler runs.
Execute(k) ==
    /\ work[k] # None /\ stage[work[k]] = "gated"
    /\ Move(work[k], IF node THEN "running" ELSE "unknown")
    /\ UNCHANGED <<sender, wire, up, receiver, work>>

\* What advance_and_pop_async leaves of the backlog at counter n: the stale
\* entries are dropped, and the one due is handed to the worker.
Due(n) == {c \in todo : num[c] = n}

Advance(k) ==
    /\ work[k] # None /\ stage[work[k]] \in {"running", "unknown"}
    /\ LET ended == IF stage[work[k]] = "running" THEN "ran" ELSE "unknown"
       IN \/ /\ ~node
             /\ work' = [work EXCEPT ![k] = None]
             /\ Move(work[k], ended)
             /\ UNCHANGED receiver
          \/ /\ node /\ Due(next + 1) = {}
             /\ next' = next + 1
             /\ todo' = {c \in todo : num[c] >= next'}
             /\ work' = [work EXCEPT ![k] = None]
             /\ stage' = [c \in Calls |-> IF c = work[k] THEN ended
                                          ELSE IF c \in todo \ todo' THEN "stale"
                                          ELSE stage[c]]
             /\ UNCHANGED node
          \/ \E d \in Due(next + 1) :
             /\ node
             /\ next' = next + 1
             /\ todo' = {c \in todo : num[c] >= next'} \ {d}
             /\ work' = [work EXCEPT ![k] = d]
             /\ stage' = [c \in Calls |-> IF c = work[k] THEN ended
                                          ELSE IF c = d THEN "gated"
                                          ELSE IF c \in todo \ todo' THEN "stale"
                                          ELSE stage[c]]
             /\ UNCHANGED node
    /\ UNCHANGED <<sender, wire, up>>

\* A connection breaks: what is on it is lost.
Break(k) ==
    /\ up[k]
    /\ up' = [up EXCEPT ![k] = FALSE]
    /\ wire' = [wire EXCEPT ![k] = <<>>]
    /\ MoveAll(OnWire(k), "lost")
    /\ UNCHANGED <<sender, receiver, work>>

\* dec_strong_local took the node's last reference: the node goes, and its
\* backlog with it.  The frame may overtake calls sent on other connections, so
\* the release comes at any time (RpcNode has the references).
ReleaseNode ==
    /\ node /\ node' = FALSE
    /\ todo' = {}
    /\ MoveAll(todo, "unknown")
    /\ UNCHANGED <<sender, wire, up, next, work>>

-----------------------------------------------------------------------------
Receive(k) ==
    \/ \E c \in Calls : Dispatch(k, c) \/ Park(k, c) \/ Discard(k, c)
    \/ Terminate(k)

Work(k) == Receive(k) \/ Execute(k) \/ Advance(k)

\* Everything that does not start a call or touch the node's references.
Progress ==
    \/ \E c \in Calls : SendOk(c) \/ SendFail(c)
    \/ \E k \in Conns : Work(k) \/ Break(k)

Next == (\E c \in Calls, k \in Conns : Reserve(c, k)) \/ Progress \/ ReleaseNode

Spec == Init /\ [][Next]_vars

\* A thread that reserved a number goes on to send; a worker reads its open
\* connection and returns from every handler.
Fairness ==
    /\ \A c \in Calls : WF_vars(SendOk(c) \/ SendFail(c))
    /\ \A k \in Conns : WF_vars(Work(k))

FairSpec == Spec /\ Fairness

-----------------------------------------------------------------------------
(* Properties *)

Stages == {"new", "reserved", "wire", "parked", "gated", "running", "ran",
           "failed", "gap", "stale", "unknown", "lost"}

TypeOK ==
    /\ counter \in Int /\ next \in Int /\ node \in BOOLEAN
    /\ stage \in [Calls -> Stages]
    /\ num \in [Calls -> Int]
    /\ conn \in [Calls -> Conns \cup {None}]
    /\ wire \in [Conns -> Seq(Calls)]
    /\ up \in [Conns -> BOOLEAN]
    /\ todo \subseteq Calls
    /\ work \in [Conns -> Calls \cup {None}]

Pending   == {c \in Calls : stage[c] \in {"reserved", "wire", "parked"}}
Executing == {c \in Calls : stage[c] \in {"gated", "running"}}
Executed  == {c \in Calls : stage[c] = "ran"}

\* The numbers in use are distinct and below the send counter, and none of
\* them is behind the receiver, whatever sends failed and rolled their number
\* back concurrently: nothing that was sent is ever dropped as stale.
NumbersInv ==
    /\ \A c, d \in Pending \cup Executing \cup Executed : c # d => num[c] # num[d]
    /\ \A c \in Pending : next <= num[c] /\ num[c] < counter
    /\ \A c \in Executed : num[c] < counter /\ (node => num[c] < next)
    /\ next <= counter
    /\ \A c \in Calls : stage[c] # "stale"

\* Calls to one object run one at a time and in the order they were numbered,
\* although every connection has a worker of its own: the running call is
\* ahead of everything that is still on its way.
SerialInOrder ==
    /\ \A c, d \in Executing : c = d
    /\ \A c \in Executing : num[c] = next /\ next < counter
                            /\ \A d \in Pending : num[c] < num[d]

Fifo == INSTANCE OnewayFifo
            WITH ticket <- num, waiting <- Pending, serving <- Executing, served <- Executed

\* The numbering, the parking and the workers together implement a first-in
\* first-out line per object.
ImplementsFifo == Fifo!FifoSpec

\* At most TodoLimit entries of a node are ever parked ("This bounds a node to
\* at most this many parked entries at any instant").
BacklogBounded == Cardinality(todo) < TodoLimit

\* Numbers, order and backlog hold together.
OrderKept == NumbersInv /\ SerialInOrder /\ BacklogBounded

\* Every call that got a number runs, also when other sends failed and were
\* rolled back, unless a number was left as a gap, a connection was lost or the
\* node was released: the line is empty again and again.
EventuallyRun ==
    []<>(\/ \A c \in Calls : stage[c] \in {"new", "ran", "failed"}
         \/ ~node
         \/ \E c \in Calls : stage[c] \in {"gap", "lost"})
=============================================================================
