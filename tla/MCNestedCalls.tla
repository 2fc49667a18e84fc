---------------------------- MODULE MCNestedCalls ---------------------------
(* NestedCalls for model checking: the configurations differ in who calls    *)
(* whom, in which calls have a deadline and in whether oneways are mixed in.   *)
EXTENDS NestedCalls
=============================================================================
