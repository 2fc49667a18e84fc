----------------------------- MODULE RpcServer -----------------------------
(***************************************************************************)
(* The RPC server (rsbinder/src/rpc/server.rs): the accept loop with its    *)
(* admission bound, one worker thread per accepted connection, the registry *)
(* of session ids, the two ways a connection joins a session that exists,   *)
(* and the deadlines a connection carries from phase to phase.              *)
(*                                                                         *)
(* A session is named by the connection that founded it.  Its lifecycle     *)
(* word is its live count (SessionLifecycle has the compare-exchange        *)
(* loops), its pool the set of connections that have a slot (ConnPool has   *)
(* who drives them).  The registry holds Weak references: a session can be  *)
(* resolved while some worker still holds its Arc.                          *)
(***************************************************************************)
EXTENDS Integers, FiniteSets, Sequences

CONSTANTS MaxClients,      \* bound: how many connections clients open
          MaxConnections,  \* set_max_connections
          MaxThreads,      \* set_max_threads
          IdleTimeout,     \* whether set_idle_timeout was called
          SrvFaults        \* bound: failed spawns, failed accepts and rejections;
                           \* a failure comes in place of the last client

\* set_max_threads and set_max_connections raise a 0 to 1.
ASSUME ServerAssumption ==
    /\ MaxClients \in Nat /\ SrvFaults \in Nat
    /\ MaxConnections \in Nat \ {0} /\ MaxThreads \in Nat \ {0}
    /\ IdleTimeout \in BOOLEAN

SrvConns == 1 .. MaxClients
SrvNone == 0

VARIABLES a13,         \* whether set_android13plus was called
          shutdown,    \* the shutdown flag
          loop,        \* where the accept loop stands
          backlog,     \* the kernel's listen backlog
          at,          \* at[c]: where connection c's worker stands
          silent,      \* the peers that never say a first word
          readBy,      \* readBy[c]: the transport's read deadline
          writeBy,     \* writeBy[c]: its write deadline
          sess,        \* sess[c]: the session whose Arc c's worker holds
          registry,    \* sessions, the ids only
          liveConns,   \* liveConns[s]: the lifecycle's live count
          slotsOf,     \* slotsOf[s]: the connections with a slot in s's pool
          attached,    \* attached_count
          registered,  \* session_registered
          rejected,    \* rejected_unknown_id
          overlap,     \* history: most attaches of s at once past the cap check
          faultsLeft
srvLoop == <<shutdown, loop, backlog>>
srvConn == <<silent, readBy, writeBy>>
srvSess == <<sess, registry, liveConns, slotsOf, overlap>>
srvCount == <<attached, registered, rejected>>
srvVars == <<a13, srvLoop, at, srvConn, srvSess, srvCount, faultsLeft>>

ServerStart(android13, running) ==
    /\ a13 = android13
    /\ shutdown = ~running /\ loop = (IF running THEN "poll" ELSE "ended") /\ backlog = <<>>
    /\ at = [c \in SrvConns |-> "out"]
    /\ silent = {}
    /\ readBy = [c \in SrvConns |-> "none"] /\ writeBy = [c \in SrvConns |-> "none"]
    /\ sess = [c \in SrvConns |-> SrvNone]
    /\ registry = {}
    /\ liveConns = [c \in SrvConns |-> 0]
    /\ slotsOf = [c \in SrvConns |-> {}]
    /\ attached = 0 /\ registered = 0 /\ rejected = 0
    /\ overlap = [c \in SrvConns |-> 0]
    /\ faultsLeft = SrvFaults

ServerInit == \E android13 \in BOOLEAN : ServerStart(android13, TRUE)

To(c, label) == at' = [at EXCEPT ![c] = label]
Fault == faultsLeft > 0 /\ at[MaxClients] = "out" /\ faultsLeft' = faultsLeft - 1

\* The workers whose thread has not finished: what is left of `workers` after
\* live_worker_count has reaped it.
Workers == {c \in SrvConns : at[c] \notin {"out", "backlog", "dropped", "done", "gone"}}

\* Somebody holds an Arc of session s: a Weak of it can be upgraded.
ArcAlive(s) == \E c \in SrvConns : sess[c] = s

-----------------------------------------------------------------------------
(* run: the accept loop *)

\* The clients are alike: they come in the order of their numbers.
Connect(c) ==
    /\ at[c] = "out" /\ loop \notin {"ended", "failed"}
    /\ \A d \in 1 .. c - 1 : at[d] # "out"
    /\ c = MaxClients => faultsLeft = SrvFaults
    /\ To(c, "backlog") /\ backlog' = Append(backlog, c)
    /\ UNCHANGED <<a13, shutdown, loop, srvConn, srvSess, srvCount, faultsLeft>>

\* Fault model: the bound is compared one too late.
HasRoomLate(handles) == Cardinality(handles) <= MaxConnections

HasRoom(handles) == Cardinality(handles) < MaxConnections

\* Fault model: a full server waits for room before it reads the flag.
RunPollFullFirst ==
    /\ loop = "poll" /\ HasRoom(Workers)
    /\ loop' = IF shutdown THEN "ended" ELSE "accept"
    /\ UNCHANGED <<a13, shutdown, backlog, at, srvConn, srvSess, srvCount, faultsLeft>>

\* The head of the loop: the shutdown flag, then the admission bound; a full
\* server goes round and reads the flag again.
RunPoll ==
    /\ loop = "poll"
    /\ \/ shutdown /\ loop' = "ended"
       \/ ~shutdown /\ HasRoom(Workers) /\ loop' = "accept"
    /\ UNCHANGED <<a13, shutdown, backlog, at, srvConn, srvSess, srvCount, faultsLeft>>

\* accept_raw and serve_connection_raw: the worker is spawned and its handle
\* kept, or the spawn fails and the connection is dropped; with an empty backlog
\* the loop goes round.
RunAccept ==
    /\ loop = "accept" /\ loop' = "poll"
    /\ \/ /\ backlog = <<>>
          /\ UNCHANGED <<backlog, at, faultsLeft>>
       \/ /\ backlog # <<>> /\ backlog' = Tail(backlog)
          /\ \/ To(Head(backlog), "accepted") /\ UNCHANGED faultsLeft
             \/ To(Head(backlog), "dropped") /\ Fault
    /\ UNCHANGED <<a13, shutdown, srvConn, srvSess, srvCount>>

\* A transient accept error, or one that backs off, continues the loop; a fatal
\* one ends it with an error.
RunAcceptFails ==
    /\ loop = "accept" /\ Fault
    /\ loop' \in {"poll", "failed"}
    /\ UNCHANGED <<a13, shutdown, backlog, at, srvConn, srvSess, srvCount>>

Shutdown ==
    /\ ~shutdown /\ shutdown' = TRUE
    /\ UNCHANGED <<a13, loop, backlog, at, srvConn, srvSess, srvCount, faultsLeft>>

-----------------------------------------------------------------------------
(* The worker up to the serve loop *)

\* Both directions of the transport get the deadline d.
Deadlines(c, d) == readBy' = [readBy EXCEPT ![c] = d] /\ writeBy' = [writeBy EXCEPT ![c] = d]

\* The transport is dropped.
Close(c) == Deadlines(c, "none") /\ silent' = silent \ {c}

\* Fault model: the admission deadline is armed on the read side of sockets
\* that speak first only, that is, not at all here.
ArmHandshakeNever(c) == UNCHANGED <<readBy, writeBy>>

ArmHandshake(c) == Deadlines(c, "handshake")

\* prepare_for_worker, the wrap of the stream and the authorizer: the worker
\* ends, or the admission deadline is armed and the profile decides what the
\* first bytes are.  The r34 session is made before any byte is read.
Admitted(c) ==
    /\ at[c] = "accepted"
    /\ \/ Fault /\ To(c, "gone") /\ UNCHANGED <<srvConn, sess, liveConns, slotsOf>>
       \/ /\ ArmHandshake(c)
          /\ silent' \in {silent, silent \cup {c}}
          /\ To(c, IF a13 THEN "handshake" ELSE "first")
          /\ IF a13 THEN UNCHANGED <<sess, liveConns, slotsOf>>
             ELSE /\ sess' = [sess EXCEPT ![c] = c]
                  /\ liveConns' = [liveConns EXCEPT ![c] = 1]
                  /\ slotsOf' = [slotsOf EXCEPT ![c] = {c}]
          /\ UNCHANGED faultsLeft
    /\ UNCHANGED <<a13, srvLoop, registry, overlap, srvCount>>

\* The read or the write of the handshake runs into its deadline, or the peer's
\* header is refused: the worker ends.
HandshakeFails(c) ==
    /\ at[c] = "handshake"
    /\ \/ c \in silent /\ readBy[c] = "handshake" /\ UNCHANGED faultsLeft
       \/ c \notin silent /\ Fault
    /\ To(c, "gone") /\ Close(c)
    /\ UNCHANGED <<a13, srvLoop, srvSess, srvCount>>

\* Fault model: the admission deadline is left in place.
ArmServeNever(c) == UNCHANGED <<readBy, writeBy>>

\* arm_serve_timeouts.
ArmServe(c) == Deadlines(c, IF IdleTimeout THEN "idle" ELSE "none")

\* Fault model: the refusal is not counted.
RejectUncounted(c) == UNCHANGED rejected /\ To(c, "done")

Reject(c) == rejected' = rejected + 1 /\ To(c, "done")

\* An empty id: from_android13plus makes the session.
AcceptNew(c) ==
    /\ at[c] = "handshake" /\ c \notin silent
    /\ ArmServe(c)
    /\ sess' = [sess EXCEPT ![c] = c]
    /\ liveConns' = [liveConns EXCEPT ![c] = 1]
    /\ slotsOf' = [slotsOf EXCEPT ![c] = {c}]
    /\ To(c, "register")
    /\ UNCHANGED <<a13, srvLoop, silent, registry, overlap, srvCount, faultsLeft>>

\* Fault model: entries whose founding connection is gone are pruned.
PruneFounded(ids) == {s \in ids : sess[s] = s}

\* Fault model: nothing is pruned.
PruneNone(ids) == ids

Prune(ids) == {s \in ids : ArcAlive(s)}

\* register_session, then configure_session: nobody knows the id before the
\* serve loop has answered for it.
RegisterSession(c) ==
    /\ at[c] = "register"
    /\ registry' = Prune(registry) \cup {c}
    /\ registered' = registered + 1
    /\ To(c, "serve")
    /\ UNCHANGED <<a13, srvLoop, srvConn, sess, liveConns, slotsOf, overlap, attached, rejected, faultsLeft>>

\* resolve_session.
Resolve(s) == s \in registry /\ ArcAlive(s)

\* A non-empty id, for a connection that is served or for a callback slot.  It
\* may be that of any session registered so far, whoever still serves it, or of
\* none: when it resolves and the negotiated version is the session's, the
\* worker holds the session from now on, else the connection is rejected.
AcceptEcho(c) ==
    /\ at[c] = "handshake" /\ c \notin silent
    /\ ArmServe(c)
    /\ \/ \E s \in SrvConns :
             /\ Resolve(s)
             /\ sess' = [sess EXCEPT ![c] = s]
             /\ at' \in {[at EXCEPT ![c] = "cap"], [at EXCEPT ![c] = "cb_live"]}
             /\ UNCHANGED rejected
       \/ Reject(c) /\ UNCHANGED sess
    /\ UNCHANGED <<a13, srvLoop, silent, registry, liveConns, slotsOf, overlap, attached, registered, faultsLeft>>

-----------------------------------------------------------------------------
(* The two attach arms *)

Leave(c) == sess' = [sess EXCEPT ![c] = SrvNone]

\* Fault model: the cap is compared one too late.
BelowCapLate(n) == n <= MaxThreads

BelowCap(n) == n < MaxThreads

Attaching(s) == {c \in SrvConns : sess[c] = s /\ at[c] \in {"bump", "push"}}
MaxOf(m, n) == IF m < n THEN n ELSE m

\* The shutdown gate, then slot_count against max_threads_value in a critical
\* section of its own.
CapCheck(c) ==
    /\ at[c] = "cap"
    /\ \/ /\ ~shutdown /\ BelowCap(Cardinality(slotsOf[sess[c]]))
          /\ To(c, "bump")
          /\ overlap' = [overlap EXCEPT ![sess[c]] = MaxOf(@, Cardinality(Attaching(sess[c])) + 1)]
          /\ UNCHANGED <<sess, rejected>>
       \/ /\ shutdown \/ ~BelowCap(Cardinality(slotsOf[sess[c]]))
          /\ Reject(c) /\ Leave(c) /\ UNCHANGED overlap
    /\ UNCHANGED <<a13, srvLoop, srvConn, registry, liveConns, slotsOf, attached, registered, faultsLeft>>

\* Fault model: the connection is counted whatever the lifecycle says.
MayBumpAlways(s) == TRUE

MayBump(s) == liveConns[s] > 0

\* Fault model: the connection is not counted in.
BumpUncounted(c) ==
    /\ at[c] = "bump"
    /\ To(c, "push")
    /\ UNCHANGED <<a13, srvLoop, srvConn, srvSess, srvCount, faultsLeft>>

\* add_incoming_slot: try_bump_live_conns, then the slot.
Bump(c) ==
    /\ at[c] = "bump"
    /\ \/ /\ MayBump(sess[c])
          /\ liveConns' = [liveConns EXCEPT ![sess[c]] = @ + 1]
          /\ To(c, "push") /\ UNCHANGED <<sess, rejected>>
       \/ ~MayBump(sess[c]) /\ Reject(c) /\ Leave(c) /\ UNCHANGED liveConns
    /\ UNCHANGED <<a13, srvLoop, srvConn, registry, slotsOf, overlap, attached, registered, faultsLeft>>

\* The slot is in the pool before attached_count moves.
Push(c) ==
    /\ at[c] = "push"
    /\ slotsOf' = [slotsOf EXCEPT ![sess[c]] = @ \cup {c}]
    /\ attached' = attached + 1
    /\ To(c, "serve")
    /\ UNCHANGED <<a13, srvLoop, srvConn, sess, registry, liveConns, overlap, registered, rejected, faultsLeft>>

\* The same gate, and add_callback_slot's lifecycle snapshot.
CallbackLive(c) ==
    /\ at[c] = "cb_live"
    /\ \/ ~shutdown /\ liveConns[sess[c]] > 0 /\ To(c, "cb_push") /\ UNCHANGED <<sess, rejected>>
       \/ (shutdown \/ liveConns[sess[c]] = 0) /\ Reject(c) /\ Leave(c)
    /\ UNCHANGED <<a13, srvLoop, srvConn, registry, liveConns, slotsOf, overlap, attached, registered, faultsLeft>>

CallbackRoom(s) == Cardinality(slotsOf[s]) < 2 * MaxThreads

\* ... and the capped push, check and push in one critical section; the slot
\* outlives the worker.
CallbackPush(c) ==
    /\ at[c] = "cb_push"
    /\ IF CallbackRoom(sess[c])
       THEN /\ slotsOf' = [slotsOf EXCEPT ![sess[c]] = @ \cup {c}]
            /\ To(c, "done") /\ UNCHANGED rejected
       ELSE Reject(c) /\ UNCHANGED slotsOf
    /\ Leave(c)
    /\ UNCHANGED <<a13, srvLoop, srvConn, registry, liveConns, overlap, attached, registered, faultsLeft>>

-----------------------------------------------------------------------------
(* Serving *)

\* clear_slot_read_timeout.
LiftFirst(c) == readBy' = [readBy EXCEPT ![c] = "none"] /\ UNCHANGED writeBy

\* The first frame of an r34 connection.
FirstFrame(c) ==
    /\ at[c] = "first" /\ c \notin silent
    /\ LiftFirst(c)
    /\ To(c, "serve")
    /\ UNCHANGED <<a13, srvLoop, silent, srvSess, srvCount, faultsLeft>>

\* The peer closes, or the deadline of the wait runs out: serve_once_on_slot ends
\* the loop and drop_connection counts the connection out (with the obituaries
\* on the last one).
ServeEnds(c) ==
    /\ \/ at[c] = "serve"
       \/ at[c] = "first" /\ (c \notin silent \/ readBy[c] # "none")
    /\ liveConns' = [liveConns EXCEPT ![sess[c]] = @ - 1]
    /\ To(c, "retire")
    /\ UNCHANGED <<a13, srvLoop, srvConn, sess, registry, slotsOf, overlap, srvCount, faultsLeft>>

\* remove_slot, and the worker's Arc goes with its stack.
RetireSlot(c) ==
    /\ at[c] = "retire"
    /\ slotsOf' = [slotsOf EXCEPT ![sess[c]] = @ \ {c}]
    /\ Leave(c) /\ To(c, "done") /\ Close(c)
    /\ UNCHANGED <<a13, srvLoop, registry, liveConns, overlap, srvCount, faultsLeft>>

-----------------------------------------------------------------------------
RunStep == RunPoll \/ RunAccept
WorkerStep(c) ==
    \/ Admitted(c) \/ HandshakeFails(c) \/ AcceptNew(c) \/ RegisterSession(c)
    \/ CapCheck(c) \/ Bump(c) \/ Push(c)
    \/ CallbackLive(c) \/ CallbackPush(c)
    \/ RetireSlot(c)

ServerNext ==
    \/ RunStep \/ RunAcceptFails \/ Shutdown
    \/ \E c \in SrvConns : Connect(c) \/ WorkerStep(c) \/ AcceptEcho(c) \/ FirstFrame(c) \/ ServeEnds(c)

\* The accept loop keeps polling, a worker runs on, and an armed deadline
\* expires.  Nothing makes a peer speak or close: it may stay silent, or idle
\* for ever once it is served.
ServerFairness ==
    /\ WF_srvVars(RunStep)
    /\ \A c \in SrvConns :
         /\ WF_srvVars(WorkerStep(c))
         /\ WF_srvVars(readBy[c] # "none" /\ ServeEnds(c))

ServerSpec == ServerInit /\ [][ServerNext]_srvVars /\ ServerFairness

-----------------------------------------------------------------------------
(* Properties *)

\* set_max_connections: never more connection workers than the bound, although
\* finished handles linger in `workers` and clients keep arriving.
WorkersBounded == Cardinality(Workers) <= MaxConnections

\* The live count of a session is the number of its connections between their
\* count and their departure, and whoever serves does so on a session that is
\* alive and in whose pool its slot is.
ServedSessionsLive ==
    \A c \in SrvConns :
        /\ liveConns[c] = Cardinality({d \in SrvConns : sess[d] = c
                                          /\ at[d] \in {"register", "first", "serve", "push"}})
        /\ at[c] \in {"first", "serve"} => liveConns[sess[c]] > 0 /\ c \in slotsOf[sess[c]]

\* A session comes to life once, with its founder: no attach resurrects it,
\* whatever happens between resolve_session and add_incoming_slot.
NeverRevived ==
    [][\A s \in SrvConns : liveConns[s] = 0 /\ liveConns'[s] > 0
                             => sess[s] = SrvNone /\ sess'[s] = s]_srvVars

\* The race the attach arm documents: the connections a session serves pass
\* max_threads by at most one less than the attaches that were between the cap
\* check and their slot at one time, although callback slots fill the same pool
\* and the founder may be gone.
OvershootBounded ==
    \A s \in SrvConns : liveConns[s] > 0 =>
        Cardinality({c \in slotsOf[s] : sess[c] = s}) <= MaxThreads + MaxOf(overlap[s] - 1, 0)

\* Pruning loses no session: while any of its connections is alive, a session
\* whose id was handed out still resolves, also after its founder has left.
LiveSessionResolves ==
    \A s \in SrvConns : a13 /\ liveConns[s] > 0 /\ at[s] # "register" => s \in registry

\* ... and the map is bounded by the sessions alive, not by all there ever were:
\* no dead Weak survives a register_session.
RegistryPruned == [][registered' > registered => \A s \in registry' : ArcAlive(s)]_srvVars

\* Every connection that got through the handshake is accounted for exactly once:
\* as a session, as an attach, as a rejection, or by the callback slot it left.
EchoesCounted ==
    a13 => registered + attached + rejected
             + Cardinality({c \in SrvConns : at[c] = "done" /\ \E s \in SrvConns \ {c} : c \in slotsOf[s]})
           = Cardinality({c \in SrvConns : at[c] \in {"serve", "retire", "done"}})

\* set_handshake_timeout bounds the first contact: past it no read carries the
\* admission deadline any more, and up to it every read does.
ReadDeadlineLifted ==
    \A c \in SrvConns :
        /\ at[c] = "serve" => readBy[c] = IF a13 /\ IdleTimeout THEN "idle" ELSE "none"
        /\ at[c] \in {"handshake", "first"} => readBy[c] = "handshake"

\* Whatever workers, attaches and departures interleave: the bounds hold, whoever
\* serves is counted in a live session, live sessions stay registered and dead
\* ones do not, and every connection is accounted for.
ServerSafe ==
    /\ [](WorkersBounded /\ ServedSessionsLive /\ OvershootBounded
          /\ LiveSessionResolves /\ EchoesCounted /\ ReadDeadlineLifted)
    /\ NeverRevived /\ RegistryPruned

\* With the handshake and the idle deadline a bounded android-13+ server is not
\* wedged by peers that connect and say nothing, nor by peers that fall silent
\* later: its backlog drains, or the loop has ended.
BacklogDrains == a13 /\ IdleTimeout => []<>(backlog = <<>> \/ loop \in {"ended", "failed"})

\* shutdown() ends the accept loop, also when the server is full of peers that
\* never leave.
ShutdownEnds == []<>(shutdown => loop \in {"ended", "failed"})
=============================================================================
