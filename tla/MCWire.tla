------------------------------- MODULE MCWire -------------------------------
(* What travels on a connection, on small instances: oneway calls of one       *)
(* object, the codecs of every version, the frame readers and the TLS records. *)
(* A behaviour explores the part it starts with; the others rest.              *)
EXTENDS OnewayOrder, RpcCodec, RpcFraming, TlsDuplex

CodecPositions == {<<>>, <<0>>, <<4, 8>>}

VARIABLE part
mcVars == <<part, vars, codecVars, framingVars, tlsVars>>

McInit ==
    /\ part \in {"oneway", "codec", "framing", "tls"}
    /\ Init /\ TlsInit
    /\ \E version \in IF part = "codec" THEN Codecs ELSE {R34} : CodecStart(version)
    /\ \E reader \in IF part = "framing" THEN Modes ELSE {"mem"} : FramingStart(reader)

Rest(p) ==
    /\ UNCHANGED part
    /\ p # "oneway" => UNCHANGED vars
    /\ p # "codec" => UNCHANGED codecVars
    /\ p # "framing" => UNCHANGED framingVars
    /\ p # "tls" => UNCHANGED tlsVars

McNext ==
    \/ part = "oneway" /\ Next /\ Rest(part)
    \/ part = "codec" /\ CodecNext /\ Rest(part)
    \/ part = "framing" /\ FramingNext /\ Rest(part)
    \/ part = "tls" /\ TlsNext /\ Rest(part)

\* TlsSpec's fairness, for the behaviours in which the TLS threads run.
McSpec ==
    /\ McInit /\ [][McNext]_mcVars /\ Fairness
    /\ \A e \in Ends : /\ WF_tlsVars(part = "tls" /\ SenderStep(e))
                       /\ WF_tlsVars(part = "tls" /\ ReceiverStep(e))
=============================================================================
