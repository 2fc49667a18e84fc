------------------------------ MODULE MCServer ------------------------------
(* The server side on small instances: the lifecycle word of one session, the  *)
(* accept loop with its workers and registry, and the handshake of a client    *)
(* with its server.  A behaviour explores the part it starts with; the others  *)
(* are over, so that nothing of theirs is still due.                           *)
EXTENDS SessionLifecycle, RpcServer, RpcHandshake

VARIABLE part
mcVars == <<part, vars, srvVars, hsVars>>

LifecycleOver ==
    /\ word = Dead /\ obits = 1
    /\ seen = [c \in Conns |-> Live(1)] /\ stage = [c \in Conns |-> "gone"]

HandshakeOver == \E s \in {CHOOSE s \in Setups : TRUE}, m \in {CHOOSE m \in Offers : TRUE} :
    HsStart(s, m, "ready")

McInit ==
    /\ part \in {"lifecycle", "server", "handshake"}
    /\ IF part = "lifecycle" THEN Init ELSE LifecycleOver
    /\ IF part = "server" THEN ServerInit ELSE ServerStart(TRUE, FALSE)
    /\ IF part = "handshake" THEN HsInit ELSE HandshakeOver

Rest(p) ==
    /\ UNCHANGED part
    /\ p # "lifecycle" => UNCHANGED vars
    /\ p # "server" => UNCHANGED srvVars
    /\ p # "handshake" => UNCHANGED hsVars

McNext ==
    \/ part = "lifecycle" /\ Next /\ Rest(part)
    \/ part = "server" /\ ServerNext /\ Rest(part)
    \/ part = "handshake" /\ HsNext /\ Rest(part)

\* The fairness of the three specifications, each for its own behaviours.
McSpec ==
    /\ McInit /\ [][McNext]_mcVars
    /\ \A c \in Conns : WF_vars(part = "lifecycle" /\ Step(c))
    /\ WF_srvVars(part = "server" /\ RunStep)
    /\ \A c \in SrvConns :
         /\ WF_srvVars(part = "server" /\ WorkerStep(c))
         /\ WF_srvVars(part = "server" /\ readBy[c] # "none" /\ ServeEnds(c))
    /\ WF_hsVars(part = "handshake" /\ ClientStep)
    /\ WF_hsVars(part = "handshake" /\ HandshakeDeadline)
    /\ WF_hsVars(part = "handshake" /\ setup.entry # "fd" /\ \E c \in HsConns : ServerStep(c))
=============================================================================
