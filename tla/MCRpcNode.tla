----------------------------- MODULE MCRpcNode -----------------------------
(* RpcNode with two sends of the object and a few calls.  The sends, the    *)
(* calls and the connections are interchangeable.                           *)
EXTENDS RpcNode, TLC

Symmetry == Permutations(Sends) \cup Permutations(Calls) \cup Permutations(Conns)
=============================================================================
