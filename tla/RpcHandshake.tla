---------------------------- MODULE RpcHandshake ----------------------------
(***************************************************************************)
(* How an RPC client and an RPC server agree on a session: the r34 wire,    *)
(* the android-13+ handshake of wire_android13.rs on every connection, the  *)
(* special transactions of session.rs (GET_MAX_THREADS, GET_SESSION_ID,     *)
(* GET_FD_MODE) and the fan-out that attaches more connections to the       *)
(* session.  One client thread runs the set-up functions; one server worker *)
(* per connection runs the accept path and the serve loop.                  *)
(*                                                                         *)
(* A connection is a pair of token streams.  A token carries the wire       *)
(* version it was encoded for; what the bytes look like is RpcCodec's       *)
(* matter, how they are framed RpcFraming's, and the admission of workers   *)
(* RpcServer's.                                                             *)
(***************************************************************************)
EXTENDS Integers, Sequences, FiniteSets

CONSTANTS Offers,        \* the max_version values clients and servers set
          Implemented,   \* the versions with_version accepts
          Entries,       \* how the client sets up, a subset of
                         \* {"r34", "a13", "aosp", "fd"}
          MaxConns,      \* bound on connections (local_max_outgoing, max_threads)
          MaxHsCalls,    \* bound on calls after the set-up
          MaxUpsets,     \* bound on set_android13plus calls on a live server
                         \* and on connections that die, together
          LateFdMode     \* does the client call negotiate_fd_transport after
                         \* the fan-out?

\* max_version is a u32, and a version the wire implements is one.
ASSUME HsAssumption ==
    /\ Offers \subseteq Nat /\ Implemented \subseteq Nat
    /\ Entries \subseteq {"r34", "a13", "aosp", "fd"}
    /\ MaxConns \in Nat \ {0} /\ MaxHsCalls \in Nat /\ MaxUpsets \in Nat
    /\ LateFdMode \in BOOLEAN

VARIABLES setup,    \* the configuration of both ends (constant in a behaviour)
          cli,      \* the client thread's label
          cur,      \* the connection it is setting up
          want,     \* outgoing connections it goes for
          cver,     \* its session's version
          cfd,      \* its fd_mode is Unix
          pool,     \* its outgoing slots
          on,       \* the slot its call went out on
          armed,    \* a handshake deadline is set on its transport
          why,      \* why the set-up failed
          inc,      \* inc[c]: c was opened with the INCOMING option
          up, down, \* up[c], down[c]: tokens under way
          dead,     \* connections closed by either end
          srv,      \* srv[c]: the label of c's worker
          offer,    \* offer[c]: the wire_max_version its worker read
          smax,     \* the server's wire_max_version
          sver,     \* the server session's version
          sfd,      \* its fd_mode is Unix
          slots,    \* its slots
          rmode,    \* rmode[c]: the fd_mode c's worker is receiving in
          decoded,  \* history: <<encoded for, decoded as>> of every message
          lost,     \* history: a descriptor was sent and not received
          calls, reconfigs, faults

cliVars == <<cli, cur, want, cver, cfd, pool, on, armed, why>>
hsSrvVars == <<srv, offer, sver, sfd, slots, rmode>>
netVars == <<inc, up, down, dead>>
hsVars == <<setup, cliVars, hsSrvVars, netVars, smax, decoded, lost, calls, reconfigs, faults>>

HsConns == 1 .. 2 * MaxConns
R34Wire == -1           \* wire_version() is None: the r34 profile
NoVersion == -2

Setups == [entry : Entries, max : Offers, local : 1 .. MaxConns, unix : BOOLEAN,
           threads : 1 .. MaxConns, fdUnix : BOOLEAN]

\* The client at `label`, the ends configured as s, the server's maximum m.
HsStart(s, m, label) ==
    /\ setup = s /\ smax = m /\ cli = label /\ cur = 1 /\ want = 1
    /\ cver = NoVersion /\ cfd = FALSE /\ pool = {} /\ on = 1 /\ armed = FALSE /\ why = "none"
    /\ inc = [c \in HsConns |-> FALSE]
    /\ up = [c \in HsConns |-> <<>>] /\ down = [c \in HsConns |-> <<>>]
    /\ dead = {}
    /\ srv = [c \in HsConns |-> "idle"]
    /\ offer = [c \in HsConns |-> NoVersion]
    /\ sver = NoVersion /\ sfd = FALSE /\ slots = {}
    /\ rmode = [c \in HsConns |-> FALSE]
    /\ decoded = {} /\ lost = FALSE
    /\ calls = 0 /\ reconfigs = 0 /\ faults = 0

HsInit == \E s \in Setups, m \in Offers :
    /\ s.entry \in {"r34", "fd"} => s.local = 1
    /\ s.entry \in {"r34", "fd"} => ~s.unix
    /\ HsStart(s, m, "connect")

Least(a, b) == IF a <= b THEN a ELSE b
Most(a, b) == IF a >= b THEN a ELSE b

SendUp(c, toks) == up' = [up EXCEPT ![c] = @ \o toks]
SendDown(c, toks) == down' = [down EXCEPT ![c] = @ \o toks]
TakeUp(c) == up' = [up EXCEPT ![c] = Tail(@)]
TakeDown(c) == down' = [down EXCEPT ![c] = Tail(@)]

-----------------------------------------------------------------------------
(* The client *)

\* An error return of the set-up: the session and its connections are dropped.
HsFail(reason) ==
    /\ cli' = "failed"
    /\ why' = reason
    /\ dead' = dead \union 1 .. cur
    /\ pool' = {}

\* The r34 wire has no handshake.
ConnectR34 ==
    /\ cli = "connect" /\ setup.entry = "r34"
    /\ cli' = "ready" /\ cver' = R34Wire /\ pool' = {1}
    /\ srv' = [srv EXCEPT ![1] = "recv"]
    /\ sver' = R34Wire /\ slots' = {1}
    /\ UNCHANGED <<setup, cur, want, cfd, on, armed, why, netVars, offer, sfd, rmode, smax, decoded,
                   lost, calls, reconfigs, faults>>

Founding == cur = 1

\* add_outgoing caps an attach at the session's version.
Offered == IF Founding THEN setup.max ELSE Least(setup.max, cver)

\* Where client_connect_with_id waits after its writes.
AfterHello(incoming) ==
    IF incoming THEN "read_init" ELSE IF Founding THEN "read_resp" ELSE "attached"

\* client_connect_with_id up to its first read.  from_preconnected_fd ("fd") has
\* armed a deadline in both directions.  Only an AOSP client opens incoming
\* connections.
ConnectA13 ==
    /\ cli = "connect" /\ setup.entry # "r34"
    /\ IF Offered \notin Implemented
       THEN /\ HsFail("version")
            /\ UNCHANGED <<inc, up, srv, armed>>
       ELSE /\ \E incoming \in IF setup.entry = "aosp" /\ (Founding \/ cur > want)
                               THEN {~Founding, TRUE} ELSE {FALSE} :
                 /\ inc' = [inc EXCEPT ![cur] = incoming]
                 /\ SendUp(cur, <<[k |-> "header", v |-> Offered, new |-> Founding,
                                   incoming |-> incoming, unix |-> setup.unix]>>
                                \o IF incoming THEN <<>> ELSE <<[k |-> "cci", v |-> Offered]>>)
                 /\ cli' = AfterHello(incoming)
            /\ armed' = (setup.entry = "fd")
            /\ srv' = [srv EXCEPT ![cur] = "accept"]
            /\ UNCHANGED <<why, dead, pool>>
    /\ UNCHANGED <<setup, cur, want, cver, cfd, on, down, offer, sver, sfd, slots, rmode, smax,
                   decoded, lost, calls, reconfigs, faults>>

\* Reading from a connection that is closed and drained.
ReadFails(c) == c \in dead /\ down[c] = <<>>

\* The incoming client reads the server's "cci".
ReadInit ==
    /\ cli = "read_init"
    /\ \/ /\ down[cur] # <<>> /\ Head(down[cur]).k = "cci"
          /\ TakeDown(cur)
          /\ cli' = IF Founding THEN "read_resp" ELSE "attached"
          /\ UNCHANGED <<why, dead, pool>>
       \/ /\ down[cur] # <<>> /\ Head(down[cur]).k # "cci"
          /\ HsFail("protocol")
          /\ UNCHANGED down
       \/ /\ ReadFails(cur)
          /\ HsFail("closed")
          /\ UNCHANGED down
    /\ UNCHANGED <<setup, cur, want, cver, cfd, on, armed, inc, up, hsSrvVars, smax, decoded, lost,
                   calls, reconfigs, faults>>

\* Fault model: the client goes on with the codec it wrote the header with.
SessionCodecOffered(negotiated) == setup.max

\* The codec the client keeps: that of the version the server confirmed.
SessionCodec(negotiated) == negotiated

\* Fault model: the deadline of the handshake stays on the transport.
LiftDeadlineNever == armed

\* clear_handshake_timeouts.
LiftDeadline == FALSE

\* The rest of the founding: RpcNewSessionResponse, the codec of the negotiated
\* version, the fd mode; from_preconnected_fd lifts its deadlines.
ReadResponse ==
    /\ cli = "read_resp"
    /\ \/ /\ down[cur] # <<>>
          /\ TakeDown(cur)
          /\ LET negotiated == Head(down[cur]).val IN
             IF negotiated > setup.max \/ negotiated \notin Implemented
             THEN /\ HsFail("protocol")
                  /\ UNCHANGED <<cver, cfd, armed>>
             ELSE /\ cver' = SessionCodec(negotiated)
                  /\ cfd' = (setup.unix /\ SessionCodec(negotiated) >= 1)
                  /\ pool' = {cur}
                  /\ armed' = LiftDeadline
                  /\ cli' = IF setup.local = 1 THEN "ready" ELSE "ask_max"
                  /\ UNCHANGED <<why, dead>>
       \/ /\ ReadFails(cur)
          /\ HsFail("closed")
          /\ UNCHANGED <<down, cver, cfd, armed>>
    /\ UNCHANGED <<setup, cur, want, on, inc, up, hsSrvVars, smax, decoded, lost, calls, reconfigs,
                   faults>>

\* The handshake deadline of from_preconnected_fd.
HandshakeDeadline ==
    /\ armed /\ cli \in {"read_resp", "wait_root"}
    /\ HsFail("timeout")
    /\ UNCHANGED <<setup, cur, want, cver, cfd, on, armed, inc, up, down, hsSrvVars, smax, decoded,
                   lost, calls, reconfigs, faults>>

\* A call on slot c that finds the connection gone: an error of the set-up, or a
\* failed call that costs the session its slot.
CallFails(c) ==
    IF cli \in {"ask_max", "wait_max", "ask_id", "wait_id"}
    THEN HsFail("closed")
    ELSE /\ cli' = "ready"
         /\ pool' = pool \ {c}
         /\ dead' = dead \union {c}
         /\ UNCHANGED why

\* A special transaction of the client goes out on one of its slots.
Ask(label, code, val, next) ==
    /\ cli = label
    /\ \E c \in pool :
        /\ on' = c
        /\ IF c \in dead
           THEN CallFails(c) /\ UNCHANGED up
           ELSE /\ SendUp(c, <<[k |-> code, v |-> cver, val |-> val]>>)
                /\ cli' = next
                /\ UNCHANGED <<why, dead, pool>>
    /\ UNCHANGED <<setup, cur, want, cver, cfd, armed, inc, down, hsSrvVars, smax, decoded, lost,
                   reconfigs, faults>>

\* Its reply, decoded with the session's codec.
Answer(label, Then(_)) ==
    /\ cli = label
    /\ \/ /\ down[on] # <<>>
          /\ TakeDown(on)
          /\ decoded' = decoded \union {<<Head(down[on]).v, cver>>}
          /\ Then(Head(down[on]).val)
          /\ UNCHANGED <<why, dead, pool>>
       \/ /\ ReadFails(on)
          /\ CallFails(on)
          /\ UNCHANGED <<down, decoded, want, cur, cfd>>
    /\ UNCHANGED <<setup, cver, on, armed, inc, up, hsSrvVars, smax, lost, calls, reconfigs, faults>>

AskMaxThreads == Ask("ask_max", "GET_MAX_THREADS", 0, "wait_max") /\ UNCHANGED calls

\* Fault model: the fan-out opens `negotiated` connections beside the first.
NegotiatedExtra(remote) == 1 + Most(1, Least(setup.local, remote))

\* negotiate: min(local, remote), at least one.
Negotiated(remote) == Most(1, Least(setup.local, remote))

AnswerMaxThreads == Answer("wait_max", LAMBDA remote :
    /\ want' = Negotiated(remote)
    /\ cli' = IF Negotiated(remote) <= 1 THEN "ready" ELSE "ask_id"
    /\ UNCHANGED <<cur, cfd>>)

AskSessionId == Ask("ask_id", "GET_SESSION_ID", 0, "wait_id") /\ UNCHANGED calls

AnswerSessionId == Answer("wait_id", LAMBDA id :
    /\ cur' = 2
    /\ cli' = "connect"
    /\ UNCHANGED <<want, cfd>>)

\* add_outgoing_slot, and the next turn of the fan-out loop.  An AOSP client goes
\* on with as many incoming connections.
Last == IF setup.entry = "aosp" THEN Least(2 * want - 1, 2 * MaxConns) ELSE want

AttachDone ==
    /\ cli = "attached"
    /\ pool' = IF inc[cur] THEN pool ELSE pool \union {cur}
    /\ IF cur < Last
       THEN cur' = cur + 1 /\ cli' = "connect"
       ELSE cur' = cur /\ cli' = "ready"
    /\ UNCHANGED <<setup, want, cver, cfd, on, armed, why, netVars, hsSrvVars, smax, decoded, lost,
                   calls, reconfigs, faults>>

\* negotiate_fd_transport, for either mode.
AskFdMode ==
    /\ setup.entry = "r34" \/ LateFdMode
    /\ \E wanted \in {0, 1} : Ask("ready", "GET_FD_MODE", wanted, "wait_fd")
    /\ calls < MaxHsCalls /\ calls' = calls + 1

AnswerFdMode == Answer("wait_fd", LAMBDA agreed :
    /\ cfd' = (agreed = 1)
    /\ cli' = "ready"
    /\ UNCHANGED <<want, cur>>)

\* get_root, and a oneway call that carries a descriptor in Unix mode (in None
\* mode the write of a descriptor is refused and nothing is sent).
AskRoot == /\ Ask("ready", "GET_ROOT", 0, "wait_root")
           /\ calls < MaxHsCalls /\ calls' = calls + 1

AnswerRoot == Answer("wait_root", LAMBDA root : cli' = "ready" /\ UNCHANGED <<want, cur, cfd>>)

SendFd ==
    /\ cli = "ready" /\ cfd
    /\ calls < MaxHsCalls /\ calls' = calls + 1
    /\ \E c \in pool \ dead : SendUp(c, <<[k |-> "fd", v |-> cver, val |-> 1]>>)
    /\ UNCHANGED <<setup, cliVars, hsSrvVars, inc, down, dead, smax, decoded, lost, reconfigs, faults>>

ClientStep ==
    \/ ConnectR34 \/ ConnectA13 \/ ReadInit \/ ReadResponse
    \/ AskMaxThreads \/ AnswerMaxThreads \/ AskSessionId \/ AnswerSessionId \/ AttachDone
    \/ AnswerFdMode \/ AnswerRoot

-----------------------------------------------------------------------------
(* The server's worker of connection c *)

\* The worker reads wire_max_version, then waits for the header.
Accept(c) ==
    /\ srv[c] = "accept"
    /\ srv' = [srv EXCEPT ![c] = "header"]
    /\ offer' = [offer EXCEPT ![c] = smax]
    /\ UNCHANGED <<setup, cliVars, netVars, sver, sfd, slots, rmode, smax, decoded, lost, calls,
                   reconfigs, faults>>

\* The worker drops the connection.
Refuse(c) ==
    /\ srv' = [srv EXCEPT ![c] = "refused"]
    /\ dead' = dead \union {c}
    /\ UNCHANGED <<sver, sfd, slots, rmode>>

\* Fault model: the response carries the server's own maximum.
ResponseVersionMax(c, negotiated) == offer[c]

\* RpcNewSessionResponse carries min(server, client).
ResponseVersion(c, negotiated) == negotiated

\* Fault model: the acceptor always waits for the client's "cci".
ServerSendsInitNever(hdr) == FALSE

\* Direction-aware: the acceptor writes "cci" on an incoming connection.
ServerSendsInit(hdr) == hdr.incoming

\* Slots of the session, and the caps of the two kinds of attach.
AttachFits(incoming) ==
    Cardinality(slots) < IF incoming THEN 2 * setup.threads ELSE setup.threads

\* resolve_session, and the gate of add_incoming_slot and add_callback_slot behind
\* it: the session lives as long as a serve loop of it runs.  (RpcServer takes the
\* two apart; it also has the shutdown gate.)
SessionAlive == \E s \in HsConns : srv[s] \in {"recv", "to_unix", "to_none"}

\* from_android13plus: the new session, and its fd mode.
FoundSession(c, negotiated, unix) ==
    /\ srv' = [srv EXCEPT ![c] = "recv"]
    /\ sver' = negotiated
    /\ sfd' = (setup.fdUnix /\ unix /\ negotiated >= 1)
    /\ rmode' = [rmode EXCEPT ![c] = setup.fdUnix /\ unix /\ negotiated >= 1]
    /\ slots' = slots \union {c}
    /\ UNCHANGED dead

\* run_connection_in_worker after the handshake: found, attach or refuse.  A
\* callback slot has no read loop.
Admit(c, hdr, negotiated) ==
    IF hdr.new THEN FoundSession(c, negotiated, hdr.unix)
    ELSE IF ~SessionAlive \/ sver # negotiated \/ ~AttachFits(hdr.incoming) THEN Refuse(c)
    ELSE /\ srv' = [srv EXCEPT ![c] = IF hdr.incoming THEN "callback" ELSE "recv"]
         /\ rmode' = [rmode EXCEPT ![c] = sfd]
         /\ slots' = slots \union {c}
         /\ UNCHANGED <<sver, sfd, dead>>

\* server_accept up to the exchange of "cci".
ReadHeader(c) ==
    /\ srv[c] = "header"
    /\ up[c] # <<>>
    /\ LET hdr == Head(up[c])
           negotiated == Least(hdr.v, offer[c]) IN
       /\ TakeUp(c)
       /\ IF negotiated \notin Implemented
          THEN Refuse(c) /\ UNCHANGED down
          ELSE /\ SendDown(c, (IF hdr.new THEN <<[k |-> "response", v |-> negotiated,
                                                  val |-> ResponseVersion(c, negotiated)]>>
                                          ELSE <<>>)
                              \o (IF ServerSendsInit(hdr) /\ ~hdr.new
                                  THEN <<[k |-> "cci", v |-> negotiated]>> ELSE <<>>))
               /\ \/ hdr.new /\ hdr.incoming /\ Refuse(c)
                  \/ ~hdr.new /\ ServerSendsInit(hdr) /\ Admit(c, hdr, negotiated)
                  \/ /\ ~ServerSendsInit(hdr) /\ ~(hdr.new /\ hdr.incoming)
                     /\ srv' = [srv EXCEPT ![c] = IF hdr.new THEN "new_init" ELSE "attach_init"]
                     /\ UNCHANGED <<dead, sver, sfd, slots, rmode>>
    /\ UNCHANGED <<setup, cliVars, inc, offer, smax, decoded, lost, calls, reconfigs, faults>>

\* The client's "cci" (encoded for the version it offered), then the admission.
ReadClientInit(c) ==
    /\ srv[c] \in {"new_init", "attach_init"}
    /\ up[c] # <<>>
    /\ TakeUp(c)
    /\ LET hdr == [new |-> srv[c] = "new_init", incoming |-> inc[c], unix |-> setup.unix] IN
       Admit(c, hdr, Least(Head(up[c]).v, offer[c]))
    /\ UNCHANGED <<setup, cliVars, inc, down, offer, smax, decoded, lost, calls, reconfigs, faults>>

\* Fault model: GET_FD_MODE without the version gate.
FdVersionAny == TRUE

\* v0 forbids descriptors; r34 negotiates them here and nowhere else.
FdVersionOk == sver = R34Wire \/ sver >= 1

\* serve_special's answers.
SpecialReply(tok) ==
    CASE tok.k = "GET_MAX_THREADS" -> setup.threads
      [] tok.k = "GET_FD_MODE" ->
            IF tok.val = 1 /\ FdVersionOk /\ setup.fdUnix THEN 1 ELSE 0
      [] OTHER -> 0

\* One turn of the serve loop.  The worker has been waiting in the mode it found
\* when it called recv_msg: descriptors reach it only through recvmsg.
ServeOne(c) ==
    /\ srv[c] = "recv"
    /\ up[c] # <<>>
    /\ LET tok == Head(up[c]) IN
       /\ TakeUp(c)
       /\ decoded' = decoded \union {<<tok.v, sver>>}
       /\ IF tok.k = "fd"
          THEN /\ lost' = (lost \/ ~rmode[c])
               /\ rmode' = [rmode EXCEPT ![c] = sfd]
               /\ UNCHANGED <<down, srv>>
          ELSE /\ SendDown(c, <<[k |-> "reply", v |-> sver, val |-> SpecialReply(tok)]>>)
               /\ srv' = [srv EXCEPT ![c] = IF tok.k # "GET_FD_MODE" THEN @
                                            ELSE IF SpecialReply(tok) = 1 THEN "to_unix"
                                            ELSE "to_none"]
               /\ rmode' = [rmode EXCEPT ![c] = sfd]
               /\ UNCHANGED lost
    /\ UNCHANGED <<setup, cliVars, inc, dead, offer, sver, sfd, slots, smax, calls, reconfigs, faults>>

\* GET_FD_MODE switches after its reply is on the wire.
SwitchFdMode(c) ==
    /\ srv[c] \in {"to_unix", "to_none"}
    /\ sfd' = (srv[c] = "to_unix")
    /\ rmode' = [rmode EXCEPT ![c] = (srv[c] = "to_unix")]
    /\ srv' = [srv EXCEPT ![c] = "recv"]
    /\ UNCHANGED <<setup, cliVars, netVars, offer, sver, slots, smax, decoded, lost, calls,
                   reconfigs, faults>>

\* The peer is gone and drained: the worker ends and its slot with it.
WorkerEnds(c) ==
    /\ srv[c] \in {"header", "new_init", "attach_init", "recv"}
    /\ c \in dead /\ up[c] = <<>>
    /\ srv' = [srv EXCEPT ![c] = "ended"]
    /\ slots' = slots \ {c}
    /\ UNCHANGED <<setup, cliVars, netVars, offer, sver, sfd, rmode, smax, decoded, lost, calls,
                   reconfigs, faults>>

ServerStep(c) ==
    \/ Accept(c) \/ ReadHeader(c) \/ ReadClientInit(c)
    \/ ServeOne(c) \/ SwitchFdMode(c) \/ WorkerEnds(c)

\* set_android13plus on a running server.
Reconfigure ==
    /\ reconfigs + faults < MaxUpsets /\ setup.entry # "r34"
    /\ smax' \in Offers \ {smax}
    /\ reconfigs' = reconfigs + 1
    /\ UNCHANGED <<setup, cliVars, hsSrvVars, netVars, decoded, lost, calls, faults>>

\* A connection dies under both ends.
Sever ==
    /\ reconfigs + faults < MaxUpsets
    /\ \E c \in 1 .. cur :
        /\ srv[c] # "idle" /\ c \notin dead
        /\ dead' = dead \union {c}
        /\ up' = [up EXCEPT ![c] = <<>>]
        /\ down' = [down EXCEPT ![c] = <<>>]
    /\ faults' = faults + 1
    /\ UNCHANGED <<setup, cliVars, hsSrvVars, inc, smax, decoded, lost, calls, reconfigs>>

HsNext ==
    \/ ClientStep
    \/ AskFdMode \/ AskRoot \/ SendFd
    \/ HandshakeDeadline
    \/ \E c \in HsConns : ServerStep(c)
    \/ Reconfigure \/ Sever

\* The client thread runs on; so do the server's workers, except that nothing is
\* known of the peer behind a preconnected descriptor, whose deadline elapses.
HsFairness ==
    /\ WF_hsVars(ClientStep)
    /\ WF_hsVars(HandshakeDeadline)
    /\ WF_hsVars(setup.entry # "fd" /\ \E c \in HsConns : ServerStep(c))

HsSpec == HsInit /\ [][HsNext]_hsVars /\ HsFairness

-----------------------------------------------------------------------------
(* Properties *)

\* Every message is decoded with the wire version it was encoded for, on both
\* sides and on every connection of the session, whatever the two maxima are and
\* even when set_android13plus moves the server's between two connections.
DecodedAsEncoded == \A d \in decoded : d[1] = d[2]

\* Neither end ever switches a version-0 session to Unix descriptors, on either
\* of the two roads that lead there (the connection header and GET_FD_MODE).
NoFdOnV0 == (cfd => cver # 0) /\ (sfd => sver # 0)

\* Founding a session fails only for a reason: no common implemented version,
\* the new-session-over-incoming request both ends reject, a dead connection or
\* the deadline of a preconnected peer.
FoundingFailsForCause ==
    cli = "failed" /\ cver = NoVersion =>
        \/ setup.max \notin Implemented
        \/ why = "timeout" /\ setup.entry = "fd"
        \/ faults > 0
        \/ inc[1]
        \/ offer[1] # NoVersion /\ Least(setup.max, offer[1]) \notin Implemented

\* The deadline that bounds the handshake of a preconnected descriptor is gone
\* once the session exists: no later call can run into it.
DeadlineOnlyInHandshake == why = "timeout" => cver = NoVersion

\* What GET_MAX_THREADS advertises is what the attach arm accepts: a connection of
\* a fan-out to the negotiated size is refused only when every connection the
\* session had is gone, whichever of them died on the way, unless
\* set_android13plus moved the server to another version in between or incoming
\* connections took slots.
AdvertisedIsAccepted ==
    reconfigs = 0 /\ setup.entry = "a13" =>
        \A c \in 2 .. cur : srv[c] = "refused" => ~SessionAlive

\* Every set-up call returns, with a session or with an error: no two ends wait
\* for each other's "cci", and a silent peer behind a preconnected descriptor is
\* given up on.
SetupEnds == <>(cli \in {"ready", "failed"})

\* The client asks for Unix descriptors in the header of a server that does not
\* support them: nothing tells it, and it sends what the server reads past.
OneSided == setup.unix /\ ~setup.fdUnix

\* A descriptor that was sent is received, with two exceptions, neither of which
\* the comments allow for: the one-sided header (server.rs:1203 and
\* session.rs:2460 have the write refused), and, on a session of several
\* connections, a GET_FD_MODE after the fan-out: it moves the mode of them all
\* while the workers of the others already wait in read (session.rs:1141: "never
\* mixes").  The connection that asks never loses one, however often it asks.
FdLostOnlyAcross == lost => OneSided \/ (LateFdMode /\ cur > 1)

\* What the two ends agree on while they set a session up holds on every
\* connection of it: the version, the descriptor mode, the size, the deadline.
HandshakeAgrees ==
    /\ DecodedAsEncoded /\ NoFdOnV0 /\ FdLostOnlyAcross
    /\ FoundingFailsForCause /\ DeadlineOnlyInHandshake /\ AdvertisedIsAccepted
=============================================================================
