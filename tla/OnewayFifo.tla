----------------------------- MODULE OnewayFifo -----------------------------
(***************************************************************************)
(* What oneway calls to one object promise their callers: calls are served  *)
(* one at a time, and a call is never served before one that was accepted   *)
(* earlier.  Accepted calls may be lost (oneway is best effort), but losing  *)
(* some never reorders the others.                                          *)
(***************************************************************************)
EXTENDS Integers

CONSTANT Calls

VARIABLES ticket,   \* ticket[c]: the place call c took in the line
          waiting,  \* accepted, not yet served
          serving,  \* being served
          served
fvars == <<ticket, waiting, serving, served>>

FifoInit == waiting = {} /\ serving = {} /\ served = {}

\* A call joins the end of the line.
Accept(c) ==
    /\ c \notin waiting \cup serving \cup served
    /\ waiting' = waiting \cup {c}
    /\ \A d \in waiting \cup serving \cup served : ticket[d] < ticket'[c]
    /\ \A d \in waiting \cup serving \cup served : ticket'[d] = ticket[d]
    /\ UNCHANGED <<serving, served>>

First(c) == c \in waiting /\ \A d \in waiting : ticket[c] <= ticket[d]

Begin(c) ==
    /\ serving = {} /\ First(c)
    /\ serving' = {c}
    /\ waiting' = waiting \ {c}
    /\ UNCHANGED <<ticket, served>>

\* The call being served is finished, and the first in line may follow at once.
End ==
    /\ serving # {}
    /\ served' = served \cup serving
    /\ \/ serving' = {} /\ UNCHANGED waiting
       \/ \E c \in waiting : First(c) /\ serving' = {c} /\ waiting' = waiting \ {c}
    /\ UNCHANGED ticket

\* Waiting calls, or the one whose turn it is, are given up.
Lose ==
    /\ waiting' \subseteq waiting /\ serving' \subseteq serving
    /\ UNCHANGED <<ticket, served>>

FifoNext == (\E c \in Calls : Accept(c) \/ Begin(c)) \/ End \/ Lose

FifoSpec == FifoInit /\ [][FifoNext]_fvars
=============================================================================
