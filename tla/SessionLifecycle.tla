------------------------- MODULE SessionLifecycle -------------------------
(***************************************************************************)
(* The lock-free lifecycle of an RPC session (rsbinder/src/rpc/             *)
(* lifecycle.rs): one atomic word holding Live(n), Dying or Dead, changed   *)
(* only by compare-exchange.  A member of Conns is one connection and the   *)
(* server worker that drives it: it attaches with try_bump_live (the        *)
(* founding one is attached from the start) and on its way out runs the     *)
(* tail of serve_blocking_on_inner: drop_connection, and for the last one   *)
(* the session obituaries and mark_dead.                                    *)
(*                                                                         *)
(* Each action is one atomic load or compare-exchange.  The 8/56-bit        *)
(* packing of the word is a record here: the count never nears 2^56.        *)
(***************************************************************************)
EXTENDS Integers, FiniteSets

CONSTANTS Conns,    \* the connections that may drive this session
          Opener   \* the connection that created it

ASSUME ConnsAssumption == IsFiniteSet(Conns) /\ Opener \in Conns

VARIABLES word,   \* the AtomicU64, decoded: [tag, n]
          seen,   \* seen[c]: the local v of the two retry loops
          stage,     \* stage[c]: how far connection c is
          obits   \* how many times send_session_obituaries ran
vars == <<word, seen, stage, obits>>

Live(n) == [tag |-> "Live", n |-> n]
Dying   == [tag |-> "Dying", n |-> 0]
Dead    == [tag |-> "Dead", n |-> 0]

Init ==
    /\ word = Live(1)
    /\ seen = [c \in Conns |-> Live(1)]
    /\ stage = [c \in Conns |-> IF c = Opener THEN "attached" ELSE "out"]
    /\ obits = 0

ToStage(c, label) == stage' = [stage EXCEPT ![c] = label]

\* A (re-)read of the word, and where it sends the loop: `elsewhere` when the
\* session is no longer Live, back to the compare-exchange otherwise.
ReadWord(c, cas, elsewhere) ==
    /\ seen' = [seen EXCEPT ![c] = word]
    /\ ToStage(c, IF word.tag = "Live" THEN cas ELSE elsewhere)
    /\ UNCHANGED <<word, obits>>

-----------------------------------------------------------------------------
(* try_bump_live *)

BumpLoad(c) ==
    /\ stage[c] = "out"
    /\ ReadWord(c, "bump_cas", "rejected")

\* Fault model: an increment that does not compare with the value it decided on.
BumpBlindFault(c) ==
    /\ stage[c] = "bump_cas"
    /\ word' = Live(word.n + 1)
    /\ ToStage(c, "attached")
    /\ UNCHANGED <<seen, obits>>

BumpCas(c) ==
    /\ stage[c] = "bump_cas"
    /\ \/ /\ word = seen[c]
          /\ word' = Live(word.n + 1)
          /\ ToStage(c, "attached")
          /\ UNCHANGED <<seen, obits>>
       \/ /\ word # seen[c]
          /\ ReadWord(c, "bump_cas", "rejected")

-----------------------------------------------------------------------------
(* drop_connection; a non-Live word is the contract violation it refuses *)

DropLoad(c) ==
    /\ stage[c] = "attached"
    /\ ReadWord(c, "drop_cas", "refused")

\* Fault model: every departing connection reports the last-connection edge.
DropAlwaysLastFault(c) ==
    /\ stage[c] = "drop_cas"
    /\ word = seen[c]
    /\ word' = IF word.n = 1 THEN Dying ELSE Live(word.n - 1)
    /\ ToStage(c, "last")
    /\ UNCHANGED <<seen, obits>>

\* Fault model: the edge is taken one connection early.
DropEarlyFault(c) ==
    /\ stage[c] = "drop_cas"
    /\ word = seen[c]
    /\ word' = IF word.n <= 2 THEN Dying ELSE Live(word.n - 1)
    /\ ToStage(c, IF word.n <= 2 THEN "last" ELSE "gone")
    /\ UNCHANGED <<seen, obits>>

DropCas(c) ==
    /\ stage[c] = "drop_cas"
    /\ \/ /\ word = seen[c]
          /\ word' = IF word.n = 1 THEN Dying ELSE Live(word.n - 1)
          /\ ToStage(c, IF word.n = 1 THEN "last" ELSE "gone")
          /\ UNCHANGED <<seen, obits>>
       \/ /\ word # seen[c]
          /\ ReadWord(c, "drop_cas", "refused")

-----------------------------------------------------------------------------
(* The tail of the last connection's worker *)

SendObituaries(c) ==
    /\ stage[c] = "last"
    /\ obits' = obits + 1
    /\ ToStage(c, "fired")
    /\ UNCHANGED <<word, seen>>

\* Fault model: mark_dead forgotten.
MarkDeadFault(c) ==
    /\ stage[c] = "fired"
    /\ ToStage(c, "gone")
    /\ UNCHANGED <<word, seen, obits>>

MarkDead(c) ==
    /\ stage[c] = "fired"
    /\ word' = IF word = Dying THEN Dead ELSE word
    /\ ToStage(c, "gone")
    /\ UNCHANGED <<seen, obits>>

-----------------------------------------------------------------------------
Step(c) ==
    \/ BumpLoad(c) \/ BumpCas(c)
    \/ DropLoad(c) \/ DropCas(c)
    \/ SendObituaries(c) \/ MarkDead(c)

\* Every connection has left for good and the session has settled.
AllLeft ==
    /\ \A c \in Conns : stage[c] \in {"gone", "rejected", "refused"}
    /\ UNCHANGED vars

Next == (\E c \in Conns : Step(c)) \/ AllLeft

Spec == Init /\ [][Next]_vars

\* A worker that has started to leave runs to its end, and a connection whose
\* peer closed does start to leave: its serve loop breaks.
FairSpec == Spec /\ \A c \in Conns : WF_vars(Step(c))

-----------------------------------------------------------------------------
(* Properties *)

Stages == {"out", "bump_cas", "rejected", "attached", "drop_cas", "refused",
           "last", "fired", "gone"}
Words == [tag : {"Live", "Dying", "Dead"}, n : Int]

TypeOK ==
    /\ word \in Words
    /\ seen \in [Conns -> Words]
    /\ stage \in [Conns -> Stages]
    /\ obits \in Nat

\* Connections the live count stands for.
Attached == {c \in Conns : stage[c] \in {"attached", "drop_cas"}}

\* Workers between the last-connection edge and the end of their tail.
Closing == {c \in Conns : stage[c] \in {"last", "fired"}}

\* The live count is exactly the number of attached connections; once the
\* session is Dying or Dead none is attached, and the session is Dying exactly
\* while one worker is firing its obituaries (drop_connection's doc: only one
\* founding worker observes the 1 -> 0 edge).
LiveCountInv ==
    /\ word.tag = "Live" => /\ word.n = Cardinality(Attached) /\ Attached # {}
                            /\ Closing = {}
    /\ word.tag # "Live" => word.n = 0 /\ Attached = {}
    /\ word.tag = "Dying" => \E c \in Conns : Closing = {c}
    /\ word.tag = "Dead" => Closing = {}
    /\ \A c \in Conns : stage[c] \in {"bump_cas", "drop_cas"} => seen[c].tag = "Live"

\* binder_died goes out once per session: never while a connection is still
\* attached, never twice, and Dead is only reached after it went out.
ObituaryOnce ==
    /\ obits = 1 => Attached = {}
    /\ obits <= 1
    /\ word.tag = "Live" => obits = 0
    /\ word = Dead => obits = 1
    /\ \A c \in Conns : (stage[c] = "last" => obits = 0) /\ (stage[c] = "fired" => obits = 1)

\* The debug assertions of drop_connection ("called from non-Live state") and
\* mark_dead ("called from non-Dying state") never fire.
ContractKept ==
    \A c \in Conns : stage[c] # "refused" /\ (stage[c] = "fired" => word = Dying)

\* Anti-resurrection: a session that left Live never returns to it, and no
\* connection becomes attached afterwards, however many race to attach.
NoResurrection ==
    [][word.tag # "Live" => word'.tag # "Live" /\ Attached' \subseteq Attached]_vars

\* The compare-exchange loops together: the count is exact, the obituaries go out
\* once and last, the contracts hold and a dying session stays dying.
LifecycleSafe == [](LiveCountInv /\ ObituaryOnce /\ ContractKept) /\ NoResurrection

\* When every connection leaves, the session ends up Dead with its obituaries
\* sent (the tail of serve_blocking_on_inner).
EventuallyDead == <>[](word = Dead /\ obits = 1)
=============================================================================
