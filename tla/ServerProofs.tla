--------------------------- MODULE ServerProofs ---------------------------
(***************************************************************************)
(* Proofs about the accept loop and its workers (RpcServer): ServerInv is  *)
(* inductive for every number of clients and every cap.  What the server   *)
(* does eventually is left to TLC.                                         *)
(***************************************************************************)
EXTENDS RpcServer, TLAPS

-----------------------------------------------------------------------------
(* RpcServer: the inductive invariant *)

\* Where a worker stands: before it has a session, joining one, on one.
Unfounded == {"out", "backlog", "dropped", "accepted", "handshake", "gone"}
Joining == {"cap", "bump", "push", "cb_live", "cb_push"}
Slotted == {"register", "first", "serve", "retire"}
Counted == {"register", "first", "serve", "push"}
Taking == Slotted \cup {"bump", "push"}
Past == {"serve", "retire", "done"}
Working == {"accepted", "handshake"} \cup Joining \cup Slotted
Places == Unfounded \cup Joining \cup Slotted \cup {"done"}

\* The groups are abbreviations, as are the tuples of variables.
USE DEF Unfounded, Joining, Slotted, Places, srvLoop, srvConn, srvSess, srvCount

\* The connections at one of the places L, and those of session s among them.
AtIn(f, L) == {d \in SrvConns : f[d] \in L}
On(f, g, s, L) == {d \in SrvConns : g[d] = s /\ f[d] \in L}

SrvTypeOK ==
    /\ a13 \in BOOLEAN
    /\ backlog \in Seq(SrvConns)
    /\ at \in [SrvConns -> Places]
    /\ readBy \in [SrvConns -> {"none", "handshake", "idle"}]
    /\ sess \in [SrvConns -> SrvConns \cup {SrvNone}]
    /\ registry \subseteq SrvConns
    /\ liveConns \in [SrvConns -> Nat]
    /\ slotsOf \in [SrvConns -> SUBSET SrvConns]
    /\ attached \in Nat /\ registered \in Nat /\ rejected \in Nat
    /\ overlap \in [SrvConns -> Nat]

\* The backlog holds connections nobody has accepted, each once.
Queued ==
    \A i \in 1 .. Len(backlog) :
        /\ at[backlog[i]] = "backlog"
        /\ \A j \in 1 .. Len(backlog) : i # j => backlog[i] # backlog[j]

\* An accept that is under way has its place.
Admits ==
    /\ Cardinality(AtIn(at, Working)) <= MaxConnections
    /\ loop = "accept" => Cardinality(AtIn(at, Working)) < MaxConnections

\* Who holds the Arc of a session, and which session that can be.
ArcsHeld ==
    \A c \in SrvConns :
        /\ sess[c] # SrvNone <=> at[c] \in Joining \cup Slotted
        /\ sess[c] # SrvNone => at[sess[c]] \notin Unfounded
        /\ at[c] \in {"register", "first"} => sess[c] = c
        /\ at[c] \in Joining => sess[c] # c

\* A slot is that of a connection on the session or one that a callback
\* connection left behind.
SlotsHeld ==
    \A c \in SrvConns :
        /\ at[c] \in Unfounded => slotsOf[c] = {}
        /\ at[c] \in Slotted => c \in slotsOf[sess[c]]
        /\ \A s \in SrvConns : c \in slotsOf[s] =>
             \/ at[c] \in Slotted /\ sess[c] = s
             \/ at[c] = "done" /\ s # c

\* The count of a session is the number of its connections that took a place.
LiveCounted ==
    \A s \in SrvConns : liveConns[s] = Cardinality(On(at, sess, s, Counted))

\* The connections with a slot and those past the cap check, together.
CapHeld ==
    \A s \in SrvConns :
        Cardinality(On(at, sess, s, Taking)) <= MaxThreads + MaxOf(overlap[s] - 1, 0)

\* The deadline that goes with the place, and the profile that leads there.
DeadlinesSet ==
    \A c \in SrvConns :
        /\ at[c] \in {"handshake", "first"} => readBy[c] = "handshake"
        /\ at[c] \in {"register", "cap", "bump", "push", "serve"}
             => readBy[c] = IF a13 /\ IdleTimeout THEN "idle" ELSE "none"
        /\ at[c] \in {"handshake", "register"} \cup Joining => a13
        /\ at[c] = "first" => ~a13

\* A session somebody is on is in the registry once its founder put it there.
Registered ==
    a13 => \A c \in SrvConns :
        sess[c] # SrvNone /\ at[sess[c]] # "register" => sess[c] \in registry

\* The callback connections that left their slot behind.
LeftSlot(f, slots) == {c \in SrvConns : f[c] = "done" /\ \E s \in SrvConns \ {c} : c \in slots[s]}

\* Every connection past its setup was counted, unless a callback left it a slot.
Accounted ==
    a13 => registered + attached + rejected + Cardinality(LeftSlot(at, slotsOf))
             = Cardinality(AtIn(at, Past))

ServerInv ==
    /\ SrvTypeOK /\ Queued /\ Admits /\ ArcsHeld /\ SlotsHeld /\ LiveCounted
    /\ CapHeld /\ DeadlinesSet /\ Registered /\ Accounted

-----------------------------------------------------------------------------
(* RpcServer: what one move does to the counts *)

\* What one element adds to the size of a set, and of a set of On.
Bit(x, S) == IF x \in S THEN 1 ELSE 0
Both(t, s, l, L) == IF t = s /\ l \in L THEN 1 ELSE 0

\* The connections are finitely many, and so their sets have sizes: the facts
\* about cardinalities that the steps below rest on (CountingHolds proves them).
Counting ==
    \A S \in SUBSET SrvConns :
        /\ Cardinality(S) \in Nat
        /\ Cardinality(S) = 0 <=> S = {}
        /\ \A c \in SrvConns \ S : Cardinality(S \cup {c}) = Cardinality(S) + 1
        /\ \A c \in S : Cardinality(S \ {c}) = Cardinality(S) - 1
        /\ \A T \in SUBSET SrvConns :
             /\ S \subseteq T => Cardinality(S) <= Cardinality(T)
             /\ S \cap T = {} => Cardinality(S \cup T) = Cardinality(S) + Cardinality(T)

\* A set of connections has a size.
LEMMA SomeConns ==
    ASSUME Counting, NEW S \in SUBSET SrvConns
    PROVE  Cardinality(S) \in Nat /\ (Cardinality(S) = 0 <=> S = {})
  BY Zenon DEF Counting

\* A set of connections that one connection may enter or leave.
LEMMA OneChanges ==
    ASSUME Counting, NEW S \in SUBSET SrvConns, NEW T \in SUBSET SrvConns, NEW c \in SrvConns,
           S \ {c} = T \ {c}
    PROVE  Cardinality(T) = Cardinality(S) + Bit(c, T) - Bit(c, S)
<1>1. Cardinality(S) \in Nat /\ Cardinality(T) \in Nat
  BY SomeConns, Zenon
<1>2. CASE c \in S /\ c \notin T
  <2>1. T = S \ {c}
    BY <1>2, Zenon
  <2>2. Cardinality(T) = Cardinality(S) - 1
    BY <2>1, <1>2, Zenon DEF Counting
  <2> QED
    BY <2>2, <1>1, <1>2 DEF Bit
<1>3. CASE c \in T /\ c \notin S
  <2>1. T = S \cup {c} /\ c \in SrvConns \ S
    BY <1>3, Zenon
  <2>2. Cardinality(T) = Cardinality(S) + 1
    BY <2>1, Zenon DEF Counting
  <2> QED
    BY <2>2, <1>1, <1>3 DEF Bit
<1>4. CASE (c \in T) = (c \in S)
  <2>1. T = S
    BY <1>4
  <2> QED
    BY <2>1, <1>1 DEF Bit
<1> QED
  BY <1>2, <1>3, <1>4

\* The move of a worker, as its actions make it.
Moves(c, l, t) == at' = [at EXCEPT ![c] = l] /\ sess' = [sess EXCEPT ![c] = t]

\* One worker moves, and takes or leaves a session: how the sizes of the sets the
\* invariant speaks of change.
LEMMA MoveCounts ==
    ASSUME Counting, SrvTypeOK, NEW c \in SrvConns, NEW l \in Places, NEW t \in SrvConns \cup {SrvNone},
           Moves(c, l, t), NEW L
    PROVE  /\ Cardinality(AtIn(at, L)) \in Nat /\ Cardinality(AtIn(at', L)) \in Nat
           /\ Cardinality(AtIn(at', L))
                = Cardinality(AtIn(at, L)) + Bit(l, L) - Bit(at[c], L)
<1>1. AtIn(at, L) \in SUBSET SrvConns /\ AtIn(at', L) \in SUBSET SrvConns
  BY Zenon DEF AtIn
<1>2. AtIn(at, L) \ {c} = AtIn(at', L) \ {c}
  BY Zenon DEF AtIn, SrvTypeOK, Moves
<1>3. (c \in AtIn(at', L) <=> l \in L) /\ (c \in AtIn(at, L) <=> at[c] \in L)
  BY Zenon DEF AtIn, SrvTypeOK, Moves
<1>4. Cardinality(AtIn(at, L)) \in Nat /\ Cardinality(AtIn(at', L)) \in Nat
  BY <1>1, SomeConns, Zenon
<1>5. Cardinality(AtIn(at', L))
        = Cardinality(AtIn(at, L)) + Bit(c, AtIn(at', L)) - Bit(c, AtIn(at, L))
  BY <1>1, <1>2, OneChanges, Zenon
<1> QED
  BY <1>3, <1>4, <1>5, Zenon DEF Bit

\* The same for the connections of one session.
LEMMA MoveCountsOn ==
    ASSUME Counting, SrvTypeOK, NEW c \in SrvConns, NEW l \in Places, NEW t \in SrvConns \cup {SrvNone},
           Moves(c, l, t), NEW s, NEW L
    PROVE  /\ Cardinality(On(at, sess, s, L)) \in Nat /\ Cardinality(On(at', sess', s, L)) \in Nat
           /\ Cardinality(On(at', sess', s, L))
                = Cardinality(On(at, sess, s, L)) + Both(t, s, l, L) - Both(sess[c], s, at[c], L)
<1>1. On(at, sess, s, L) \in SUBSET SrvConns /\ On(at', sess', s, L) \in SUBSET SrvConns
  BY Zenon DEF On
<1>2. On(at, sess, s, L) \ {c} = On(at', sess', s, L) \ {c}
  BY Zenon DEF On, SrvTypeOK, Moves
<1>3. /\ c \in On(at', sess', s, L) <=> t = s /\ l \in L
      /\ c \in On(at, sess, s, L) <=> sess[c] = s /\ at[c] \in L
  BY Zenon DEF On, SrvTypeOK, Moves
<1>4. Cardinality(On(at, sess, s, L)) \in Nat /\ Cardinality(On(at', sess', s, L)) \in Nat
  BY <1>1, SomeConns, Zenon
<1>5. Cardinality(On(at', sess', s, L))
        = Cardinality(On(at, sess, s, L)) + Bit(c, On(at', sess', s, L)) - Bit(c, On(at, sess, s, L))
  BY <1>1, <1>2, OneChanges, Zenon
<1> QED
  BY <1>3, <1>4, <1>5, Zenon DEF Bit, Both

\* The sizes after a worker's move.
LEMMA MoveSizes ==
    ASSUME Counting, SrvTypeOK, NEW c \in SrvConns, NEW l \in Places, NEW t \in SrvConns \cup {SrvNone},
           Moves(c, l, t)
    PROVE  /\ Cardinality(AtIn(at, Working)) \in Nat
           /\ Cardinality(AtIn(at', Working))
                = Cardinality(AtIn(at, Working)) + Bit(l, Working)
                    - Bit(at[c], Working)
           /\ Cardinality(AtIn(at, Past)) \in Nat
           /\ Cardinality(AtIn(at', Past))
                = Cardinality(AtIn(at, Past)) + Bit(l, Past)
                    - Bit(at[c], Past)
           /\ \A s \in SrvConns :
                /\ Cardinality(On(at, sess, s, Counted)) \in Nat
                /\ Cardinality(On(at', sess', s, Counted))
                     = Cardinality(On(at, sess, s, Counted)) + Both(t, s, l, Counted)
                         - Both(sess[c], s, at[c], Counted)
                /\ Cardinality(On(at, sess, s, Taking)) \in Nat
                /\ Cardinality(On(at', sess', s, Taking))
                     = Cardinality(On(at, sess, s, Taking)) + Both(t, s, l, Taking)
                         - Both(sess[c], s, at[c], Taking)
<1>2. /\ Cardinality(AtIn(at, Working)) \in Nat
      /\ Cardinality(AtIn(at', Working))
           = Cardinality(AtIn(at, Working)) + Bit(l, Working)
               - Bit(at[c], Working)
  BY MoveCounts, Zenon
<1>3. /\ Cardinality(AtIn(at, Past)) \in Nat
      /\ Cardinality(AtIn(at', Past))
           = Cardinality(AtIn(at, Past)) + Bit(l, Past)
               - Bit(at[c], Past)
  BY MoveCounts
<1>4. ASSUME NEW s \in SrvConns
      PROVE  /\ Cardinality(On(at, sess, s, Counted)) \in Nat
             /\ Cardinality(On(at', sess', s, Counted))
                  = Cardinality(On(at, sess, s, Counted)) + Both(t, s, l, Counted)
                      - Both(sess[c], s, at[c], Counted)
  BY MoveCountsOn
<1>5. ASSUME NEW s \in SrvConns
      PROVE  /\ Cardinality(On(at, sess, s, Taking)) \in Nat
             /\ Cardinality(On(at', sess', s, Taking))
                  = Cardinality(On(at, sess, s, Taking)) + Both(t, s, l, Taking)
                      - Both(sess[c], s, at[c], Taking)
  BY MoveCountsOn
<1> QED
  BY <1>2, <1>3, <1>4, <1>5, Zenon

\* The parts of the invariant that only the places and the sessions decide.
LEMMA PlacesKept ==
    ASSUME Counting, ServerInv, NEW c \in SrvConns, NEW l \in Places, NEW t \in SrvConns \cup {SrvNone},
           Moves(c, l, t), backlog' = backlog, at[c] # "backlog",
           t # SrvNone <=> l \in Joining \cup Slotted,
           t # SrvNone => at'[t] \notin Unfounded,
           l \in Unfounded => at[c] \in Unfounded,
           l \in {"register", "first"} => t = c,
           l \in Joining => t # c
    PROVE  Queued' /\ ArcsHeld'
<1>1. Queued'
  BY DEF ServerInv, SrvTypeOK, Queued, Moves
<1>2. ArcsHeld'
  BY DEF ServerInv, SrvTypeOK, ArcsHeld, Moves
<1> QED
  BY <1>1, <1>2, Zenon

\* A worker goes on without a change of what the server admits.
LEMMA AdmitsKept ==
    ASSUME Counting, ServerInv, NEW c \in SrvConns, NEW l \in Places, NEW t \in SrvConns \cup {SrvNone},
           Moves(c, l, t), loop' = loop, l \in Working => at[c] \in Working
    PROVE  Admits'
  BY MoveSizes, ServerAssumption DEF ServerInv, Admits, Bit

\* Nobody is on a session that has not been founded.
LEMMA NobodyOn ==
    ASSUME Counting, ServerInv, NEW c \in SrvConns, at[c] \in Unfounded, NEW L
    PROVE  Cardinality(On(at, sess, c, L)) = 0
<1>1. On(at, sess, c, L) = {}
  BY ServerAssumption DEF ServerInv, ArcsHeld, On, SrvConns, SrvNone
<1> QED
  BY <1>1, SomeConns, Zenon

\* A founder is the first of its session.
LEMMA Founds ==
    ASSUME Counting, ServerInv, NEW c \in SrvConns, NEW l \in {"register", "first"}, Moves(c, l, c),
           at[c] \in Unfounded, overlap' = overlap,
           liveConns' = [liveConns EXCEPT ![c] = 1]
    PROVE  LiveCounted' /\ CapHeld'
<1>1. /\ Cardinality(On(at, sess, c, Counted)) = 0 /\ Cardinality(On(at, sess, c, Taking)) = 0
      /\ sess[c] = SrvNone /\ l \in Places /\ SrvTypeOK
  BY NobodyOn, Zenon DEF ServerInv, ArcsHeld
<1> SUFFICES ASSUME NEW s \in SrvConns
             PROVE  /\ liveConns'[s] = Cardinality(On(at', sess', s, Counted))
                    /\ Cardinality(On(at', sess', s, Taking)) <= MaxThreads + MaxOf(overlap[s] - 1, 0)
  BY Zenon DEF LiveCounted, CapHeld
<1>2. SrvNone # s
  BY ServerAssumption DEF SrvConns, SrvNone
<1>3. /\ Cardinality(On(at, sess, s, Counted)) \in Nat /\ Cardinality(On(at, sess, s, Taking)) \in Nat
      /\ Cardinality(On(at', sess', s, Counted))
           = Cardinality(On(at, sess, s, Counted)) + Both(c, s, l, Counted)
               - Both(sess[c], s, at[c], Counted)
      /\ Cardinality(On(at', sess', s, Taking))
           = Cardinality(On(at, sess, s, Taking)) + Both(c, s, l, Taking)
               - Both(sess[c], s, at[c], Taking)
  BY <1>1, MoveSizes
<1>4. /\ Both(sess[c], s, at[c], Counted) = 0 /\ Both(sess[c], s, at[c], Taking) = 0
      /\ Both(c, s, l, Counted) = (IF c = s THEN 1 ELSE 0)
      /\ Both(c, s, l, Taking) = (IF c = s THEN 1 ELSE 0)
  BY <1>1, <1>2, Zenon DEF Both, Counted, Taking
<1>5. /\ liveConns[s] = Cardinality(On(at, sess, s, Counted)) /\ overlap[s] \in Nat
      /\ Cardinality(On(at, sess, s, Taking)) <= MaxThreads + MaxOf(overlap[s] - 1, 0)
      /\ liveConns'[s] = (IF c = s THEN 1 ELSE liveConns[s])
  BY Zenon DEF ServerInv, LiveCounted, CapHeld, SrvTypeOK
<1>6. CASE c = s
  BY <1>1, <1>3, <1>4, <1>5, <1>6, ServerAssumption DEF MaxOf
<1>7. CASE c # s
  BY <1>3, <1>4, <1>5, <1>7
<1> QED
  BY <1>6, <1>7, Zenon

\* Nobody takes a place of a session who had none.
LEMMA CapKept ==
    ASSUME Counting, ServerInv, NEW c \in SrvConns, NEW l \in Places, NEW t \in SrvConns \cup {SrvNone},
           Moves(c, l, t), overlap' = overlap,
           l \in Taking => at[c] \in Taking /\ sess[c] = t
    PROVE  CapHeld'
<1> SUFFICES ASSUME NEW s \in SrvConns
             PROVE  Cardinality(On(at', sess', s, Taking)) <= MaxThreads + MaxOf(overlap[s] - 1, 0)
  BY Zenon DEF CapHeld
<1>1. /\ Cardinality(On(at, sess, s, Taking)) \in Nat
      /\ Cardinality(On(at', sess', s, Taking))
           = Cardinality(On(at, sess, s, Taking)) + Both(t, s, l, Taking)
               - Both(sess[c], s, at[c], Taking)
  BY MoveSizes, Zenon DEF ServerInv
<1>2. /\ Both(t, s, l, Taking) \in {0, 1} /\ Both(sess[c], s, at[c], Taking) \in {0, 1}
      /\ Both(t, s, l, Taking) = 1 => Both(sess[c], s, at[c], Taking) = 1
  BY Zenon DEF Both
<1>3. /\ Cardinality(On(at, sess, s, Taking)) <= MaxThreads + MaxOf(overlap[s] - 1, 0)
      /\ MaxThreads + MaxOf(overlap[s] - 1, 0) \in Nat
  BY ServerAssumption DEF ServerInv, CapHeld, SrvTypeOK, MaxOf
<1> QED
  BY <1>1, <1>2, <1>3

\* A move that no live count follows.
LEMMA LiveSame ==
    ASSUME Counting, ServerInv, NEW c \in SrvConns, NEW l \in Places, NEW t \in SrvConns \cup {SrvNone},
           Moves(c, l, t),
           liveConns' = liveConns,
           l \in Counted <=> at[c] \in Counted,
           l \in Counted => t = sess[c]
    PROVE  LiveCounted'
<1>1. ASSUME NEW s \in SrvConns
      PROVE  /\ Cardinality(On(at, sess, s, Counted)) \in Nat
             /\ Cardinality(On(at', sess', s, Counted)) \in Nat
             /\ Cardinality(On(at', sess', s, Counted))
                  = Cardinality(On(at, sess, s, Counted)) + Both(t, s, l, Counted)
                      - Both(sess[c], s, at[c], Counted)
  BY MoveCountsOn DEF ServerInv
<1>2. ASSUME NEW s \in SrvConns
      PROVE  liveConns'[s] = Cardinality(On(at', sess', s, Counted))
  <2>1. liveConns[s] = Cardinality(On(at, sess, s, Counted)) /\ liveConns[s] \in Nat
    BY Zenon DEF ServerInv, LiveCounted, SrvTypeOK
  <2>2. Both(t, s, l, Counted) - Both(sess[c], s, at[c], Counted) = liveConns'[s] - liveConns[s]
    BY <2>1 DEF Both, ServerInv, SrvTypeOK
  <2>3. Both(t, s, l, Counted) \in {0, 1} /\ Both(sess[c], s, at[c], Counted) \in {0, 1} /\ liveConns'[s] \in Int
    BY <2>1 DEF Both, ServerInv, SrvTypeOK
  <2> QED
    BY <1>1, <2>1, <2>2, <2>3
<1> QED
  BY <1>1, <1>2, Zenon DEF LiveCounted, ServerInv, SrvTypeOK

\* A connection is counted in.
LEMMA LiveUp ==
    ASSUME Counting, ServerInv, NEW c \in SrvConns, NEW l \in Places, NEW t \in SrvConns \cup {SrvNone},
           Moves(c, l, t),
           t \in SrvConns, l \in Counted, at[c] \notin Counted,
           liveConns' = [liveConns EXCEPT ![t] = @ + 1]
    PROVE  LiveCounted' /\ liveConns' \in [SrvConns -> Nat]
<1>1. ASSUME NEW s \in SrvConns
      PROVE  /\ Cardinality(On(at, sess, s, Counted)) \in Nat
             /\ Cardinality(On(at', sess', s, Counted)) \in Nat
             /\ Cardinality(On(at', sess', s, Counted))
                  = Cardinality(On(at, sess, s, Counted)) + Both(t, s, l, Counted)
                      - Both(sess[c], s, at[c], Counted)
  BY MoveCountsOn DEF ServerInv
<1>2. ASSUME NEW s \in SrvConns
      PROVE  liveConns'[s] = Cardinality(On(at', sess', s, Counted))
  <2>1. liveConns[s] = Cardinality(On(at, sess, s, Counted)) /\ liveConns[s] \in Nat
    BY Zenon DEF ServerInv, LiveCounted, SrvTypeOK
  <2>2. Both(t, s, l, Counted) - Both(sess[c], s, at[c], Counted) = liveConns'[s] - liveConns[s]
    BY <2>1 DEF Both, ServerInv, SrvTypeOK
  <2>3. Both(t, s, l, Counted) \in {0, 1} /\ Both(sess[c], s, at[c], Counted) \in {0, 1} /\ liveConns'[s] \in Int
    BY <2>1 DEF Both, ServerInv, SrvTypeOK
  <2> QED
    BY <1>1, <2>1, <2>2, <2>3
<1> QED
  BY <1>1, <1>2 DEF LiveCounted, ServerInv, SrvTypeOK

\* A connection is counted out.
LEMMA LiveDown ==
    ASSUME Counting, ServerInv, NEW c \in SrvConns, NEW l \in Places, NEW t \in SrvConns \cup {SrvNone},
           Moves(c, l, t),
           sess[c] \in SrvConns, l \notin Counted, at[c] \in Counted,
           liveConns' = [liveConns EXCEPT ![sess[c]] = @ - 1]
    PROVE  LiveCounted' /\ liveConns' \in [SrvConns -> Nat]
<1>1. ASSUME NEW s \in SrvConns
      PROVE  /\ Cardinality(On(at, sess, s, Counted)) \in Nat
             /\ Cardinality(On(at', sess', s, Counted)) \in Nat
             /\ Cardinality(On(at', sess', s, Counted))
                  = Cardinality(On(at, sess, s, Counted)) + Both(t, s, l, Counted)
                      - Both(sess[c], s, at[c], Counted)
  BY MoveCountsOn DEF ServerInv
<1>2. ASSUME NEW s \in SrvConns
      PROVE  liveConns'[s] = Cardinality(On(at', sess', s, Counted))
  <2>1. liveConns[s] = Cardinality(On(at, sess, s, Counted)) /\ liveConns[s] \in Nat
    BY Zenon DEF ServerInv, LiveCounted, SrvTypeOK
  <2>2. Both(t, s, l, Counted) - Both(sess[c], s, at[c], Counted) = liveConns'[s] - liveConns[s]
    BY <2>1 DEF Both, ServerInv, SrvTypeOK
  <2>3. Both(t, s, l, Counted) \in {0, 1} /\ Both(sess[c], s, at[c], Counted) \in {0, 1} /\ liveConns'[s] \in Int
    BY <2>1 DEF Both, ServerInv, SrvTypeOK
  <2> QED
    BY <1>1, <2>1, <2>2, <2>3
<1> QED
  BY <1>1, <1>2 DEF LiveCounted, ServerInv, SrvTypeOK

\* No callback slot is left behind.
LEMMA LeftKept ==
    ASSUME Counting, ServerInv, NEW c \in SrvConns, NEW l \in Places, at' = [at EXCEPT ![c] = l],
           at[c] # "done",
           l = "done" => \A s \in SrvConns : c \notin slotsOf'[s],
           \A d \in SrvConns \ {c}, s \in SrvConns : d \in slotsOf'[s] <=> d \in slotsOf[s]
    PROVE  LeftSlot(at', slotsOf') = LeftSlot(at, slotsOf)
  BY DEF SrvTypeOK, LeftSlot

\* A connection that stays on its session.
LEMMA PlacesSame ==
    ASSUME Counting, ServerInv, NEW c \in SrvConns, NEW l \in Places, Moves(c, l, sess[c]), backlog' = backlog,
           at[c] \in Joining \cup Slotted, l \in (Joining \cup Slotted) \ {"register", "first"},
           l \in Joining => at[c] \in Joining
    PROVE  Queued' /\ ArcsHeld'
<1>1. /\ sess[c] \in SrvConns \cup {SrvNone} /\ sess[c] # SrvNone /\ at[c] # "backlog"
      /\ at'[sess[c]] \notin Unfounded /\ l \notin Unfounded
      /\ l \in Joining => sess[c] # c
  BY Zenon DEF ServerInv, SrvTypeOK, ArcsHeld, Moves
<1> QED
  BY <1>1, PlacesKept, Zenon

\* A connection that leaves its session, or never had one.
LEMMA PlacesLeft ==
    ASSUME Counting, ServerInv, NEW c \in SrvConns, NEW l \in {"done", "gone", "handshake"}, Moves(c, l, SrvNone),
           backlog' = backlog, at[c] # "backlog", l # "done" => at[c] \in Unfounded
    PROVE  Queued' /\ ArcsHeld'
<1>1. /\ l \in Places /\ l \notin Joining \cup Slotted /\ l \notin {"register", "first"}
      /\ l \in Unfounded => at[c] \in Unfounded
  BY Zenon
<1> QED
  BY <1>1, PlacesKept, Zenon

\* A connection that founds a session.
LEMMA PlacesFounds ==
    ASSUME Counting, ServerInv, NEW c \in SrvConns, NEW l \in {"register", "first"}, Moves(c, l, c),
           backlog' = backlog, at[c] # "backlog"
    PROVE  Queued' /\ ArcsHeld'
<1>1. /\ l \in Places /\ l \in Joining \cup Slotted /\ l \notin Joining /\ l \notin Unfounded
      /\ c # SrvNone /\ at'[c] \notin Unfounded
  BY ServerAssumption DEF ServerInv, SrvTypeOK, Moves, SrvConns, SrvNone
<1> QED
  BY <1>1, PlacesKept, Zenon

\* A move that no counter follows, and one that one counter follows.
LEMMA AccountedKept ==
    ASSUME Counting, ServerInv, NEW c \in SrvConns, NEW l \in Places, NEW t \in SrvConns \cup {SrvNone},
           Moves(c, l, t), a13' = a13,
           a13 => LeftSlot(at', slotsOf') = LeftSlot(at, slotsOf),
           a13 => registered' + attached' + rejected'
                    = registered + attached + rejected + Bit(l, Past) - Bit(at[c], Past)
    PROVE  Accounted'
<1>1. Cardinality(LeftSlot(at, slotsOf)) \in Nat
  <2>1. LeftSlot(at, slotsOf) \in SUBSET SrvConns
    BY Zenon DEF LeftSlot
  <2> QED
    BY <2>1, SomeConns, Zenon
<1>2. /\ Cardinality(AtIn(at, Past)) \in Nat
      /\ Cardinality(AtIn(at', Past)) = Cardinality(AtIn(at, Past)) + Bit(l, Past) - Bit(at[c], Past)
  BY MoveSizes, Zenon DEF ServerInv
<1>3. Bit(l, Past) \in {0, 1} /\ Bit(at[c], Past) \in {0, 1}
  BY Zenon DEF Bit
<1>4. registered + attached + rejected \in Nat
  BY DEF ServerInv, SrvTypeOK
<1>5. a13 => registered + attached + rejected + Cardinality(LeftSlot(at, slotsOf))
               = Cardinality(AtIn(at, Past))
  BY Zenon DEF ServerInv, Accounted
<1> QED
  BY <1>1, <1>2, <1>3, <1>4, <1>5 DEF Accounted

\* An attach that passes the cap check takes its place before it has its slot.
LEMMA CapTaken ==
    ASSUME Counting, ServerInv, NEW c \in SrvConns, sess[c] \in SrvConns, Moves(c, "bump", sess[c]),
           at[c] = "cap", BelowCap(Cardinality(slotsOf[sess[c]])),
           overlap' = [overlap EXCEPT ![sess[c]] = MaxOf(@, Cardinality(Attaching(sess[c])) + 1)]
    PROVE  CapHeld' /\ overlap' \in [SrvConns -> Nat]
<1> DEFINE z == sess[c]
           S == On(at, sess, z, Slotted)
           T == On(at, sess, z, Taking)
           A == Attaching(z)
<1>1. /\ S \in SUBSET SrvConns /\ A \in SUBSET SrvConns /\ slotsOf[z] \in SUBSET SrvConns
      /\ T \in SUBSET SrvConns
      /\ T = S \cup A /\ S \cap A = {} /\ S \subseteq slotsOf[z]
  BY DEF ServerInv, SrvTypeOK, SlotsHeld, On, Attaching, Taking
<1> HIDE DEF S, T, A
<1>2. /\ Cardinality(S) \in Nat /\ Cardinality(A) \in Nat /\ Cardinality(slotsOf[z]) \in Nat
      /\ Cardinality(T) \in Nat
  BY <1>1, SomeConns, Zenon
<1>3. Cardinality(T) = Cardinality(S) + Cardinality(A)
  BY <1>1, Zenon DEF Counting
<1>4. Cardinality(S) <= Cardinality(slotsOf[z])
  BY <1>1, Zenon DEF Counting
<1>5. Cardinality(T) + 1 <= MaxThreads + Cardinality(A)
  BY <1>2, <1>3, <1>4, ServerAssumption DEF BelowCap
<1>6. /\ overlap \in [SrvConns -> Nat] /\ "bump" \in Places /\ SrvTypeOK
      /\ \A s \in SrvConns : Cardinality(On(at, sess, s, Taking)) <= MaxThreads + MaxOf(overlap[s] - 1, 0)
  BY Zenon DEF ServerInv, SrvTypeOK, CapHeld
<1>7. overlap' \in [SrvConns -> Nat] /\ overlap'[z] >= Cardinality(A) + 1
  BY <1>2, <1>6 DEF A, MaxOf
<1>8. ASSUME NEW s \in SrvConns
      PROVE  Cardinality(On(at', sess', s, Taking)) <= MaxThreads + MaxOf(overlap'[s] - 1, 0)
  <2>1. /\ Cardinality(On(at, sess, s, Taking)) \in Nat
        /\ Cardinality(On(at', sess', s, Taking))
             = Cardinality(On(at, sess, s, Taking)) + Both(z, s, "bump", Taking)
                 - Both(sess[c], s, at[c], Taking)
    BY <1>6, MoveSizes
  <2>2. CASE s = z
    <3>1. Cardinality(On(at', sess', s, Taking)) = Cardinality(T) + 1
      BY <2>1, <2>2 DEF T, Both, Taking
    <3> QED
      BY <1>2, <1>5, <1>7, <2>2, <3>1, ServerAssumption DEF MaxOf
  <2>3. CASE s # z
    <3>1. Cardinality(On(at', sess', s, Taking)) = Cardinality(On(at, sess, s, Taking))
      BY <2>1, <2>3 DEF Both
    <3>2. overlap'[s] = overlap[s]
      BY <1>6, <2>3, Zenon
    <3> QED
      BY <1>6, <3>1, <3>2, Zenon
  <2> QED
    BY <2>2, <2>3, Zenon
<1> QED
  BY <1>7, <1>8, Zenon DEF CapHeld

\* A worker ends without having served: it is refused and counted, or it never
\* came to a session.
LEMMA LeavesStep ==
    ASSUME Counting, ServerInv, NEW c \in SrvConns, NEW l \in {"done", "gone"}, Moves(c, l, SrvNone),
           at[c] \in {"accepted", "handshake"} \cup Joining, at[c] # "push",
           l = "done" => a13 /\ rejected' = rejected + 1,
           l = "gone" => at[c] \in Unfounded /\ rejected' = rejected,
           readBy' \in [SrvConns -> {"none", "handshake", "idle"}],
           \A d \in SrvConns \ {c} : readBy'[d] = readBy[d],
           UNCHANGED <<a13, backlog, loop, registry, liveConns, slotsOf, overlap, attached, registered>>
    PROVE  ServerInv'
<1>1. /\ l \in Places /\ SrvNone \in SrvConns \cup {SrvNone}
      /\ l \notin Working /\ l \notin Counted /\ l \notin Taking /\ at[c] \notin Counted
      /\ at[c] # "backlog" /\ at[c] # "done"
      /\ l # "done" => at[c] \in Unfounded
      /\ rejected' \in Nat /\ Bit(l, Past) \in {0, 1} /\ Bit(at[c], Past) = 0
      /\ rejected' = rejected + Bit(l, Past)
  <2>1. l \notin Working /\ l \notin Counted /\ l \notin Taking /\ at[c] \notin Counted
    BY Zenon DEF Working, Counted, Taking
  <2>2. rejected \in Nat
    BY Zenon DEF ServerInv, SrvTypeOK
  <2>3. Bit(at[c], Past) = 0 /\ Bit(l, Past) = (IF l = "done" THEN 1 ELSE 0)
    BY Zenon DEF Bit, Past
  <2>4. rejected' \in Nat /\ rejected' = rejected + Bit(l, Past)
    BY <2>2, <2>3
  <2> QED
    BY <2>1, <2>3, <2>4, Zenon
<1>2. SrvTypeOK'
  BY <1>1, Zenon DEF Moves, ServerInv, SrvTypeOK
<1>3. Queued' /\ ArcsHeld'
  BY <1>1, PlacesLeft, Zenon
<1>4. Admits'
  BY <1>1, AdmitsKept, Zenon
<1>5. SlotsHeld'
  BY <1>1 DEF Moves, ServerInv, SrvTypeOK, ArcsHeld, SlotsHeld
<1>6. LiveCounted'
  BY <1>1, LiveSame, Zenon
<1>7. CapHeld'
  BY <1>1, CapKept, Zenon
<1>8. DeadlinesSet'
  BY <1>1, Zenon DEF Moves, ServerInv, SrvTypeOK, DeadlinesSet
<1>9. Registered'
  BY <1>1 DEF Moves, ServerInv, SrvTypeOK, ArcsHeld, Registered
<1>10. Accounted'
  <2>1. \A s \in SrvConns : c \notin slotsOf[s]
    BY Zenon DEF ServerInv, SlotsHeld
  <2>2. LeftSlot(at', slotsOf') = LeftSlot(at, slotsOf)
    BY <1>1, <2>1, LeftKept, Zenon DEF Moves
  <2>3. a13 => registered' + attached' + rejected'
                 = registered + attached + rejected + Bit(l, Past) - Bit(at[c], Past)
    BY <1>1 DEF ServerInv, SrvTypeOK
  <2> QED
    BY <1>1, <2>2, <2>3, AccountedKept, Zenon
<1> QED
  BY <1>2, <1>3, <1>4, <1>5, <1>6, <1>7, <1>8, <1>9, <1>10, Zenon DEF ServerInv

\* An attach is refused.
LEMMA RejectStep ==
    ASSUME Counting, ServerInv, NEW c \in SrvConns, at[c] \in Joining, at[c] # "push",
           Moves(c, "done", SrvNone), rejected' = rejected + 1,
           UNCHANGED <<a13, backlog, loop, readBy, registry, liveConns, slotsOf, overlap, attached, registered>>
    PROVE  ServerInv'
<1>1. a13 /\ readBy' \in [SrvConns -> {"none", "handshake", "idle"}]
  BY Zenon DEF ServerInv, SrvTypeOK, DeadlinesSet
<1> QED
  BY <1>1, LeavesStep, Zenon

\* A failed handshake.
LEMMA HandshakeFailsStep ==
    ASSUME Counting, ServerInv, NEW c \in SrvConns, HandshakeFails(c)
    PROVE  ServerInv'
<1>1. sess[c] = SrvNone /\ at[c] = "handshake"
  BY Zenon DEF HandshakeFails, ServerInv, ArcsHeld
<1>2. Moves(c, "gone", SrvNone)
  BY <1>1, Zenon DEF HandshakeFails, To, Moves, ServerInv, SrvTypeOK
<1>3. /\ UNCHANGED <<a13, backlog, loop, registry, liveConns, slotsOf, overlap, attached, registered, rejected>>
      /\ readBy' = [readBy EXCEPT ![c] = "none"]
  BY Zenon DEF HandshakeFails, Close, Deadlines
<1>4. /\ readBy' \in [SrvConns -> {"none", "handshake", "idle"}]
      /\ \A d \in SrvConns \ {c} : readBy'[d] = readBy[d]
  BY <1>3, Zenon DEF ServerInv, SrvTypeOK
<1> QED
  BY <1>1, <1>2, <1>3, <1>4, LeavesStep, Zenon

\* from_android13plus founds a session.
LEMMA AcceptNewStep ==
    ASSUME Counting, ServerInv, NEW c \in SrvConns, AcceptNew(c)
    PROVE  ServerInv'
<1>1. /\ Moves(c, "register", c) /\ "register" \in Places
      /\ c \in SrvConns \cup {SrvNone} /\ backlog' = backlog /\ loop' = loop
  BY Zenon DEF AcceptNew, ArmServe, Moves, To, ServerInv, SrvTypeOK, ArcsHeld
<1>2. SrvTypeOK'
  BY <1>1 DEF AcceptNew, ArmServe, Moves, Deadlines, ServerInv, SrvTypeOK
<1>3. Queued' /\ ArcsHeld'
  BY <1>1, PlacesFounds, Zenon DEF AcceptNew, ArmServe
<1>4. Admits'
  BY <1>1, AdmitsKept, Zenon DEF AcceptNew, ArmServe, Working
<1>5. SlotsHeld'
  BY <1>1 DEF AcceptNew, ArmServe, Moves, ServerInv, SrvTypeOK, ArcsHeld, SlotsHeld
<1>6. LiveCounted' /\ CapHeld'
  BY <1>1, Founds, Zenon DEF AcceptNew
<1>8. DeadlinesSet'
  BY <1>1, Zenon DEF AcceptNew, ArmServe, Moves, Deadlines, ServerInv, SrvTypeOK, DeadlinesSet
<1>9. Registered'
  BY <1>1 DEF AcceptNew, ArmServe, Moves, ServerInv, SrvTypeOK, ArcsHeld, Registered
<1>10. Accounted'
  <2>1. LeftSlot(at', slotsOf') = LeftSlot(at, slotsOf)
    BY <1>1, LeftKept, ZenonT(60) DEF AcceptNew, ArmServe, Moves, ServerInv, SrvTypeOK,
       SlotsHeld, ArcsHeld
  <2>2. /\ a13' = a13
        /\ a13 => registered' + attached' + rejected'
             = registered + attached + rejected + Bit("register", Past) - Bit(at[c], Past)
    BY <1>1 DEF AcceptNew, ArmServe, Bit, Past, ServerInv, SrvTypeOK, DeadlinesSet
  <2> QED
    BY <1>1, <2>1, <2>2, AccountedKept, Zenon
<1> QED
  BY <1>2, <1>3, <1>4, <1>5, <1>6, <1>8, <1>9, <1>10, Zenon DEF ServerInv

\* register_session.
LEMMA RegisterSessionStep ==
    ASSUME Counting, ServerInv, NEW c \in SrvConns, RegisterSession(c)
    PROVE  ServerInv'
<1>1. /\ Moves(c, "serve", sess[c]) /\ "serve" \in Places
      /\ sess[c] \in SrvConns \cup {SrvNone} /\ backlog' = backlog /\ loop' = loop
      /\ sess[c] \in SrvConns
  BY Zenon DEF RegisterSession, Prune, ArcAlive, Moves, To, ServerInv, SrvTypeOK, ArcsHeld
<1>2. SrvTypeOK'
  BY <1>1 DEF RegisterSession, Prune, ArcAlive, Moves, ServerInv, SrvTypeOK
<1>3. Queued' /\ ArcsHeld'
  BY <1>1, PlacesSame, Zenon DEF RegisterSession, Prune, ArcAlive
<1>4. Admits'
  BY <1>1, AdmitsKept, Zenon DEF RegisterSession, Prune, ArcAlive, Working
<1>5. SlotsHeld'
  BY <1>1 DEF RegisterSession, Prune, ArcAlive, Moves, ServerInv, SrvTypeOK, ArcsHeld, SlotsHeld
<1>6. LiveCounted'
  BY <1>1, LiveSame, Zenon DEF RegisterSession, Prune, ArcAlive, Counted
<1>7. CapHeld'
  BY <1>1, CapKept, Zenon DEF RegisterSession, Prune, ArcAlive, Taking
<1>8. DeadlinesSet'
  BY <1>1, Zenon DEF RegisterSession, Prune, ArcAlive, Moves, ServerInv, SrvTypeOK, DeadlinesSet
<1>9. Registered'
  BY <1>1 DEF RegisterSession, Prune, ArcAlive, Moves, ServerInv, SrvTypeOK, ArcsHeld,
     Registered
<1>10. Accounted'
  <2>1. LeftSlot(at', slotsOf') = LeftSlot(at, slotsOf)
    BY <1>1, LeftKept, Zenon DEF RegisterSession, Prune, ArcAlive, Moves, ServerInv,
       SrvTypeOK, SlotsHeld, ArcsHeld
  <2>2. /\ a13' = a13
        /\ a13 => registered' + attached' + rejected'
             = registered + attached + rejected + Bit("serve", Past) - Bit(at[c], Past)
    BY <1>1 DEF RegisterSession, Prune, ArcAlive, Bit, Past, ServerInv, SrvTypeOK, DeadlinesSet
  <2> QED
    BY <1>1, <2>1, <2>2, AccountedKept, Zenon
<1> QED
  BY <1>2, <1>3, <1>4, <1>5, <1>6, <1>7, <1>8, <1>9, <1>10, Zenon DEF ServerInv

\* The slot of an attached connection.
LEMMA PushStep ==
    ASSUME Counting, ServerInv, NEW c \in SrvConns, Push(c)
    PROVE  ServerInv'
<1>1. /\ Moves(c, "serve", sess[c]) /\ "serve" \in Places
      /\ sess[c] \in SrvConns \cup {SrvNone} /\ backlog' = backlog /\ loop' = loop
      /\ sess[c] \in SrvConns
  BY Zenon DEF Push, Moves, To, ServerInv, SrvTypeOK, ArcsHeld
<1>2. SrvTypeOK'
  BY <1>1 DEF Push, Moves, ServerInv, SrvTypeOK
<1>3. Queued' /\ ArcsHeld'
  BY <1>1, PlacesSame, Zenon DEF Push
<1>4. Admits'
  BY <1>1, AdmitsKept, Zenon DEF Push, Working
<1>5. SlotsHeld'
  BY <1>1 DEF Push, Moves, ServerInv, SrvTypeOK, ArcsHeld, SlotsHeld
<1>6. LiveCounted'
  BY <1>1, LiveSame, Zenon DEF Push, Counted
<1>7. CapHeld'
  BY <1>1, CapKept, Zenon DEF Push, Taking
<1>8. DeadlinesSet'
  BY <1>1, Zenon DEF Push, Moves, ServerInv, SrvTypeOK, DeadlinesSet
<1>9. Registered'
  BY <1>1 DEF Push, Moves, ServerInv, SrvTypeOK, ArcsHeld, Registered
<1>10. Accounted'
  <2>1. LeftSlot(at', slotsOf') = LeftSlot(at, slotsOf)
    BY <1>1, LeftKept, ZenonT(60) DEF Push, Moves, ServerInv, SrvTypeOK, SlotsHeld, ArcsHeld
  <2>2. /\ a13' = a13
        /\ a13 => registered' + attached' + rejected'
             = registered + attached + rejected + Bit("serve", Past) - Bit(at[c], Past)
    BY <1>1 DEF Push, Bit, Past, ServerInv, SrvTypeOK, DeadlinesSet
  <2> QED
    BY <1>1, <2>1, <2>2, AccountedKept
<1> QED
  BY <1>2, <1>3, <1>4, <1>5, <1>6, <1>7, <1>8, <1>9, <1>10 DEF ServerInv

\* The first frame of an r34 connection.
LEMMA FirstFrameStep ==
    ASSUME Counting, ServerInv, NEW c \in SrvConns, FirstFrame(c)
    PROVE  ServerInv'
<1>1. /\ Moves(c, "serve", sess[c]) /\ "serve" \in Places
      /\ sess[c] \in SrvConns \cup {SrvNone} /\ backlog' = backlog /\ loop' = loop
      /\ sess[c] \in SrvConns
  BY Zenon DEF FirstFrame, LiftFirst, Moves, To, ServerInv, SrvTypeOK, ArcsHeld
<1>2. SrvTypeOK'
  BY <1>1, Zenon DEF FirstFrame, LiftFirst, Moves, ServerInv, SrvTypeOK
<1>3. Queued' /\ ArcsHeld'
  BY <1>1, PlacesSame, Zenon DEF FirstFrame, LiftFirst
<1>4. Admits'
  BY <1>1, AdmitsKept, Zenon DEF FirstFrame, LiftFirst, Working
<1>5. SlotsHeld'
  BY <1>1 DEF FirstFrame, LiftFirst, Moves, ServerInv, SrvTypeOK, ArcsHeld, SlotsHeld
<1>6. LiveCounted'
  BY <1>1, LiveSame, Zenon DEF FirstFrame, LiftFirst, Counted
<1>7. CapHeld'
  BY <1>1, CapKept, Zenon DEF FirstFrame, LiftFirst, Taking
<1>8. DeadlinesSet'
  BY <1>1, Zenon DEF FirstFrame, LiftFirst, Moves, ServerInv, SrvTypeOK, DeadlinesSet
<1>9. Registered'
  BY <1>1 DEF FirstFrame, LiftFirst, Moves, ServerInv, SrvTypeOK, ArcsHeld, Registered
<1>10. Accounted'
  <2>1. LeftSlot(at', slotsOf') = LeftSlot(at, slotsOf)
    BY <1>1, LeftKept, Zenon DEF FirstFrame, LiftFirst, Moves, ServerInv, SrvTypeOK,
       SlotsHeld, ArcsHeld
  <2>2. /\ a13' = a13
        /\ a13 => registered' + attached' + rejected'
             = registered + attached + rejected + Bit("serve", Past) - Bit(at[c], Past)
    BY <1>1, Zenon DEF FirstFrame, LiftFirst, Bit, Past, ServerInv, SrvTypeOK, DeadlinesSet
  <2> QED
    BY <1>1, <2>1, <2>2, AccountedKept
<1> QED
  BY <1>2, <1>3, <1>4, <1>5, <1>6, <1>7, <1>8, <1>9, <1>10 DEF ServerInv

\* A connection is counted out.
LEMMA ServeEndsStep ==
    ASSUME Counting, ServerInv, NEW c \in SrvConns, ServeEnds(c)
    PROVE  ServerInv'
<1>1. /\ Moves(c, "retire", sess[c]) /\ "retire" \in Places
      /\ sess[c] \in SrvConns \cup {SrvNone} /\ backlog' = backlog /\ loop' = loop
      /\ sess[c] \in SrvConns
  BY Zenon DEF ServeEnds, Moves, To, ServerInv, SrvTypeOK, ArcsHeld
<1>2. SrvTypeOK'
  BY <1>1, LiveDown, Zenon DEF Counted, ServeEnds, Moves, ServerInv, SrvTypeOK
<1>3. Queued' /\ ArcsHeld'
  BY <1>1, PlacesSame, Zenon DEF ServeEnds
<1>4. Admits'
  BY <1>1, AdmitsKept, Zenon DEF ServeEnds, Working
<1>5. SlotsHeld'
  BY <1>1 DEF ServeEnds, Moves, ServerInv, SrvTypeOK, ArcsHeld, SlotsHeld
<1>6. LiveCounted'
  BY <1>1, LiveDown, Zenon DEF ServeEnds, Counted
<1>7. CapHeld'
  BY <1>1, CapKept, Zenon DEF ServeEnds, Taking
<1>8. DeadlinesSet'
  BY <1>1, Zenon DEF ServeEnds, Moves, ServerInv, SrvTypeOK, DeadlinesSet
<1>9. Registered'
  BY <1>1 DEF ServeEnds, Moves, ServerInv, SrvTypeOK, ArcsHeld, Registered
<1>10. Accounted'
  <2>1. LeftSlot(at', slotsOf') = LeftSlot(at, slotsOf)
    BY <1>1, LeftKept, Zenon DEF ServeEnds, Moves, ServerInv, SrvTypeOK, SlotsHeld, ArcsHeld
  <2>2. /\ a13' = a13
        /\ a13 => registered' + attached' + rejected'
             = registered + attached + rejected + Bit("retire", Past) - Bit(at[c], Past)
    BY <1>1 DEF ServeEnds, Bit, Past, ServerInv, SrvTypeOK, DeadlinesSet
  <2> QED
    BY <1>1, <2>1, <2>2, AccountedKept, Zenon
<1> QED
  BY <1>2, <1>3, <1>4, <1>5, <1>6, <1>7, <1>8, <1>9, <1>10 DEF ServerInv

\* remove_slot.
LEMMA RetireSlotStep ==
    ASSUME Counting, ServerInv, NEW c \in SrvConns, RetireSlot(c)
    PROVE  ServerInv'
<1>1. /\ Moves(c, "done", SrvNone) /\ "done" \in Places
      /\ SrvNone \in SrvConns \cup {SrvNone} /\ backlog' = backlog /\ loop' = loop
      /\ sess[c] \in SrvConns
  BY Zenon DEF RetireSlot, Moves, To, Leave, ServerInv, SrvTypeOK, ArcsHeld
<1>2. SrvTypeOK'
  BY <1>1, Zenon DEF RetireSlot, Moves, Deadlines, Close, ServerInv, SrvTypeOK
<1>3. Queued' /\ ArcsHeld'
  BY <1>1, PlacesLeft, Zenon DEF RetireSlot
<1>4. Admits'
  BY <1>1, AdmitsKept, Zenon DEF Working
<1>5. SlotsHeld'
  BY <1>1 DEF RetireSlot, Moves, ServerInv, SrvTypeOK, ArcsHeld, SlotsHeld
<1>6. LiveCounted'
  BY <1>1, LiveSame, Zenon DEF RetireSlot, Counted
<1>7. CapHeld'
  BY <1>1, CapKept, Zenon DEF RetireSlot, Taking
<1>8. DeadlinesSet'
  BY <1>1, Zenon DEF RetireSlot, Moves, Deadlines, Close, ServerInv, SrvTypeOK, DeadlinesSet
<1>9. Registered'
  BY <1>1 DEF RetireSlot, Moves, ServerInv, SrvTypeOK, ArcsHeld, Registered
<1>10. Accounted'
  <2>1. LeftSlot(at', slotsOf') = LeftSlot(at, slotsOf)
    BY <1>1, LeftKept, Zenon DEF RetireSlot, Moves, ServerInv, SrvTypeOK, SlotsHeld, ArcsHeld
  <2>2. /\ a13' = a13
        /\ a13 => registered' + attached' + rejected'
             = registered + attached + rejected + Bit("done", Past) - Bit(at[c], Past)
    BY <1>1 DEF RetireSlot, Bit, Past, ServerInv, SrvTypeOK, DeadlinesSet
  <2> QED
    BY <1>1, <2>1, <2>2, AccountedKept, Zenon
<1> QED
  BY <1>2, <1>3, <1>4, <1>5, <1>6, <1>7, <1>8, <1>9, <1>10 DEF ServerInv

\* The cap check of an attach.
LEMMA CapCheckStep ==
    ASSUME Counting, ServerInv, NEW c \in SrvConns, CapCheck(c)
    PROVE  ServerInv'
<1>1. CASE /\ ~shutdown /\ BelowCap(Cardinality(slotsOf[sess[c]])) /\ To(c, "bump")
            /\ overlap' = [overlap EXCEPT ![sess[c]] = MaxOf(@, Cardinality(Attaching(sess[c])) + 1)]
            /\ UNCHANGED <<sess, rejected>>
  <2>1. /\ Moves(c, "bump", sess[c]) /\ "bump" \in Places
        /\ sess[c] \in SrvConns \cup {SrvNone} /\ backlog' = backlog /\ loop' = loop
        /\ sess[c] \in SrvConns
    BY <1>1, Zenon DEF CapCheck, Moves, To, Leave, Reject, ServerInv, SrvTypeOK, ArcsHeld
  <2>2. SrvTypeOK'
    BY <1>1, <2>1, CapTaken, Zenon DEF CapCheck, Moves, Reject, ServerInv, SrvTypeOK
  <2>3. Queued' /\ ArcsHeld'
    BY <1>1, <2>1, PlacesSame, Zenon DEF CapCheck
  <2>4. Admits'
    BY <1>1, <2>1, AdmitsKept, Zenon DEF CapCheck, Working
  <2>5. SlotsHeld'
    BY <1>1, <2>1 DEF CapCheck, Moves, ServerInv, SrvTypeOK, ArcsHeld, SlotsHeld
  <2>6. LiveCounted'
    BY <1>1, <2>1, LiveSame, Zenon DEF CapCheck, Counted
  <2>7. CapHeld'
    BY <1>1, <2>1, CapTaken, Zenon DEF CapCheck
  <2>8. DeadlinesSet'
    BY <1>1, <2>1, Zenon DEF CapCheck, Moves, ServerInv, SrvTypeOK, DeadlinesSet
  <2>9. Registered'
    BY <1>1, <2>1 DEF CapCheck, Moves, ServerInv, SrvTypeOK, ArcsHeld, Registered
  <2>10. Accounted'
    <3>1. LeftSlot(at', slotsOf') = LeftSlot(at, slotsOf)
      BY <1>1, <2>1, LeftKept, Zenon DEF CapCheck, Moves, ServerInv, SrvTypeOK, SlotsHeld,
         ArcsHeld
    <3>2. /\ a13' = a13
          /\ a13 => registered' + attached' + rejected'
               = registered + attached + rejected + Bit("bump", Past) - Bit(at[c], Past)
      BY <1>1, <2>1 DEF CapCheck, Reject, Bit, Past, ServerInv, SrvTypeOK, DeadlinesSet
    <3> QED
      BY <2>1, <3>1, <3>2, AccountedKept, Zenon
  <2> QED
    BY <2>2, <2>3, <2>4, <2>5, <2>6, <2>7, <2>8, <2>9, <2>10 DEF ServerInv
<1>2. CASE Reject(c) /\ Leave(c) /\ UNCHANGED overlap
  <2>1. /\ at[c] = "cap" /\ Moves(c, "done", SrvNone) /\ rejected' = rejected + 1
        /\ UNCHANGED <<a13, backlog, loop, readBy, registry, liveConns, slotsOf, overlap, attached, registered>>
    BY <1>2, Zenon DEF CapCheck, Reject, Leave, To, Moves
  <2> QED
    BY <2>1, RejectStep, Zenon
<1> QED
  BY <1>1, <1>2, Zenon DEF CapCheck

\* try_bump_live_conns.
LEMMA BumpStep ==
    ASSUME Counting, ServerInv, NEW c \in SrvConns, Bump(c)
    PROVE  ServerInv'
<1>1. CASE /\ MayBump(sess[c]) /\ To(c, "push") /\ UNCHANGED <<sess, rejected>>
            /\ liveConns' = [liveConns EXCEPT ![sess[c]] = @ + 1]
  <2>1. /\ Moves(c, "push", sess[c]) /\ "push" \in Places
        /\ sess[c] \in SrvConns \cup {SrvNone} /\ backlog' = backlog /\ loop' = loop
        /\ sess[c] \in SrvConns
    BY <1>1, Zenon DEF Bump, MayBump, Moves, To, Leave, Reject, ServerInv, SrvTypeOK, ArcsHeld
  <2>2. SrvTypeOK'
    BY <1>1, <2>1, LiveUp, Zenon DEF Counted, Bump, MayBump, Moves, Reject, ServerInv, SrvTypeOK
  <2>3. Queued' /\ ArcsHeld'
    BY <1>1, <2>1, PlacesSame, Zenon DEF Bump, MayBump
  <2>4. Admits'
    BY <1>1, <2>1, AdmitsKept, Zenon DEF Bump, MayBump, Working
  <2>5. SlotsHeld'
    BY <1>1, <2>1 DEF Bump, MayBump, Moves, ServerInv, SrvTypeOK, ArcsHeld, SlotsHeld
  <2>6. LiveCounted'
    BY <1>1, <2>1, LiveUp, Zenon DEF Bump, MayBump, Counted
  <2>7. CapHeld'
    BY <1>1, <2>1, CapKept, Zenon DEF Bump, MayBump, Taking
  <2>8. DeadlinesSet'
    BY <1>1, <2>1, Zenon DEF Bump, MayBump, Moves, ServerInv, SrvTypeOK, DeadlinesSet
  <2>9. Registered'
    BY <1>1, <2>1 DEF Bump, MayBump, Moves, ServerInv, SrvTypeOK, ArcsHeld, Registered
  <2>10. Accounted'
    <3>1. LeftSlot(at', slotsOf') = LeftSlot(at, slotsOf)
      BY <1>1, <2>1, LeftKept, Zenon DEF Bump, MayBump, Moves, ServerInv, SrvTypeOK,
         SlotsHeld, ArcsHeld
    <3>2. /\ a13' = a13
          /\ a13 => registered' + attached' + rejected'
               = registered + attached + rejected + Bit("push", Past) - Bit(at[c], Past)
      BY <1>1, <2>1 DEF Bump, MayBump, Reject, Bit, Past, ServerInv, SrvTypeOK, DeadlinesSet
    <3> QED
      BY <2>1, <3>1, <3>2, AccountedKept, Zenon
  <2> QED
    BY <2>2, <2>3, <2>4, <2>5, <2>6, <2>7, <2>8, <2>9, <2>10 DEF ServerInv
<1>2. CASE Reject(c) /\ Leave(c) /\ UNCHANGED liveConns
  <2>1. /\ at[c] = "bump" /\ Moves(c, "done", SrvNone) /\ rejected' = rejected + 1
        /\ UNCHANGED <<a13, backlog, loop, readBy, registry, liveConns, slotsOf, overlap, attached, registered>>
    BY <1>2, Zenon DEF Bump, Reject, Leave, To, Moves
  <2> QED
    BY <2>1, RejectStep, Zenon
<1> QED
  BY <1>1, <1>2, Zenon DEF Bump, MayBump

\* add_callback_slot's look at the lifecycle.
LEMMA CallbackLiveStep ==
    ASSUME Counting, ServerInv, NEW c \in SrvConns, CallbackLive(c)
    PROVE  ServerInv'
<1>1. CASE To(c, "cb_push") /\ UNCHANGED <<sess, rejected>>
  <2>1. /\ Moves(c, "cb_push", sess[c]) /\ "cb_push" \in Places
        /\ sess[c] \in SrvConns \cup {SrvNone} /\ backlog' = backlog /\ loop' = loop
        /\ sess[c] \in SrvConns
    BY <1>1 DEF CallbackLive, Moves, To, Leave, Reject, ServerInv, SrvTypeOK, ArcsHeld
  <2>2. SrvTypeOK'
    BY <1>1, <2>1, Zenon DEF CallbackLive, Moves, Reject, ServerInv, SrvTypeOK
  <2>3. Queued' /\ ArcsHeld'
    BY <1>1, <2>1, PlacesSame, Zenon DEF CallbackLive
  <2>4. Admits'
    BY <1>1, <2>1, AdmitsKept, Zenon DEF CallbackLive, Working
  <2>5. SlotsHeld'
    BY <1>1, <2>1 DEF CallbackLive, Moves, ServerInv, SrvTypeOK, ArcsHeld, SlotsHeld
  <2>6. LiveCounted'
    BY <1>1, <2>1, LiveSame, Zenon DEF CallbackLive, Counted
  <2>7. CapHeld'
    BY <1>1, <2>1, CapKept, Zenon DEF CallbackLive, Taking
  <2>8. DeadlinesSet'
    BY <1>1, <2>1, Zenon DEF CallbackLive, Moves, ServerInv, SrvTypeOK, DeadlinesSet
  <2>9. Registered'
    BY <1>1, <2>1 DEF CallbackLive, Moves, ServerInv, SrvTypeOK, ArcsHeld, Registered
  <2>10. Accounted'
    <3>1. LeftSlot(at', slotsOf') = LeftSlot(at, slotsOf)
      BY <1>1, <2>1, LeftKept, Zenon DEF CallbackLive, Moves, ServerInv, SrvTypeOK,
         SlotsHeld, ArcsHeld
    <3>2. /\ a13' = a13
          /\ a13 => registered' + attached' + rejected'
               = registered + attached + rejected + Bit("cb_push", Past) - Bit(at[c], Past)
      BY <1>1, <2>1 DEF CallbackLive, Reject, Bit, Past, ServerInv, SrvTypeOK, DeadlinesSet
    <3> QED
      BY <2>1, <3>1, <3>2, AccountedKept, Zenon
  <2> QED
    BY <2>2, <2>3, <2>4, <2>5, <2>6, <2>7, <2>8, <2>9, <2>10 DEF ServerInv
<1>2. CASE Reject(c) /\ Leave(c)
  <2>1. /\ at[c] = "cb_live" /\ Moves(c, "done", SrvNone) /\ rejected' = rejected + 1
        /\ UNCHANGED <<a13, backlog, loop, readBy, registry, liveConns, slotsOf, overlap, attached, registered>>
    BY <1>2, Zenon DEF CallbackLive, Reject, Leave, To, Moves
  <2> QED
    BY <2>1, RejectStep, Zenon
<1> QED
  BY <1>1, <1>2, Zenon DEF CallbackLive

\* The capped push of a callback slot.
LEMMA CallbackPushStep ==
    ASSUME Counting, ServerInv, NEW c \in SrvConns, CallbackPush(c)
    PROVE  ServerInv'
<1>1. CASE /\ CallbackRoom(sess[c]) /\ To(c, "done") /\ UNCHANGED rejected
            /\ slotsOf' = [slotsOf EXCEPT ![sess[c]] = @ \cup {c}] /\ Leave(c)
  <2>1. /\ Moves(c, "done", SrvNone) /\ "done" \in Places
        /\ SrvNone \in SrvConns \cup {SrvNone} /\ backlog' = backlog /\ loop' = loop
        /\ sess[c] \in SrvConns
    BY <1>1 DEF CallbackPush, Moves, To, Leave, Reject, ServerInv, SrvTypeOK, ArcsHeld
  <2>2. SrvTypeOK'
    BY <1>1, <2>1, Zenon DEF CallbackPush, Moves, Reject, ServerInv, SrvTypeOK
  <2>3. Queued' /\ ArcsHeld'
    BY <1>1, <2>1, PlacesLeft, Zenon DEF CallbackPush
  <2>4. Admits'
    BY <1>1, <2>1, AdmitsKept, Zenon DEF Working
  <2>5. SlotsHeld'
    BY <1>1, <2>1 DEF CallbackPush, Moves, ServerInv, SrvTypeOK, ArcsHeld, SlotsHeld
  <2>6. LiveCounted'
    BY <1>1, <2>1, LiveSame, Zenon DEF CallbackPush, Counted
  <2>7. CapHeld'
    BY <1>1, <2>1, CapKept, Zenon DEF CallbackPush, Taking
  <2>8. DeadlinesSet'
    BY <1>1, <2>1, Zenon DEF CallbackPush, Moves, ServerInv, SrvTypeOK, DeadlinesSet
  <2>9. Registered'
    BY <1>1, <2>1 DEF CallbackPush, Moves, ServerInv, SrvTypeOK, ArcsHeld, Registered
  <2>10. Accounted'
    <3>1. LeftSlot(at', slotsOf') = LeftSlot(at, slotsOf) \cup {c} /\ c \notin LeftSlot(at, slotsOf)
      BY <1>1, <2>1 DEF CallbackPush, Moves, ServerInv, SrvTypeOK, ArcsHeld, LeftSlot
    <3>2. LeftSlot(at, slotsOf) \in SUBSET SrvConns
      BY Zenon DEF LeftSlot
    <3>3. Cardinality(LeftSlot(at, slotsOf)) \in Nat
      BY <3>2, SomeConns, Zenon
    <3>4. Cardinality(LeftSlot(at', slotsOf')) = Cardinality(LeftSlot(at, slotsOf)) + 1
      <4>1. c \in SrvConns \ LeftSlot(at, slotsOf)
        BY <3>1, Zenon
      <4> QED
        BY <3>1, <3>2, <4>1, ZenonT(60) DEF Counting
    <3>5. Cardinality(AtIn(at', Past)) = Cardinality(AtIn(at, Past)) + 1 /\ Cardinality(AtIn(at, Past)) \in Nat
      <4>1. /\ Cardinality(AtIn(at, Past)) \in Nat
            /\ Cardinality(AtIn(at', Past))
                 = Cardinality(AtIn(at, Past)) + Bit("done", Past) - Bit(at[c], Past)
        BY <2>1, MoveSizes, Zenon DEF ServerInv
      <4>2. Bit("done", Past) = 1 /\ Bit(at[c], Past) = 0
        BY Zenon DEF CallbackPush, Bit, Past
      <4>3. QED
        BY <4>1, <4>2
    <3>6. registered \in Nat /\ attached \in Nat /\ rejected \in Nat /\ a13' = a13
          /\ UNCHANGED <<registered, attached, rejected>>
      BY <1>1, Zenon DEF CallbackPush, ServerInv, SrvTypeOK
    <3> QED
      BY <3>3, <3>4, <3>5, <3>6 DEF ServerInv, Accounted
  <2> QED
    BY <2>2, <2>3, <2>4, <2>5, <2>6, <2>7, <2>8, <2>9, <2>10 DEF ServerInv
<1>2. CASE ~CallbackRoom(sess[c])
  <2>1. /\ at[c] = "cb_push" /\ Moves(c, "done", SrvNone) /\ rejected' = rejected + 1
        /\ UNCHANGED <<a13, backlog, loop, readBy, registry, liveConns, slotsOf, overlap, attached, registered>>
    BY <1>2, Zenon DEF CallbackPush, Reject, Leave, To, Moves
  <2> QED
    BY <2>1, RejectStep, Zenon
<1> QED
  BY <1>1, <1>2, Zenon DEF CallbackPush

\* prepare_for_worker and the authorizer.
LEMMA AdmittedStep ==
    ASSUME Counting, ServerInv, NEW c \in SrvConns, Admitted(c)
    PROVE  ServerInv'
<1>1. CASE Fault /\ To(c, "gone") /\ UNCHANGED <<srvConn, sess, liveConns, slotsOf>>
  <2>1. sess[c] = SrvNone /\ at[c] = "accepted"
    BY Zenon DEF Admitted, ServerInv, ArcsHeld
  <2>2. Moves(c, "gone", SrvNone)
    BY <1>1, <2>1, Zenon DEF To, Moves, ServerInv, SrvTypeOK
  <2>3. UNCHANGED <<a13, backlog, loop, readBy, registry, liveConns, slotsOf, overlap, attached, registered, rejected>>
    BY <1>1, Zenon DEF Admitted
  <2>4. readBy' \in [SrvConns -> {"none", "handshake", "idle"}]
    BY <2>3, Zenon DEF ServerInv, SrvTypeOK
  <2> QED
    BY <2>1, <2>2, <2>3, <2>4, LeavesStep, Zenon
<1>2. CASE a13 /\ ArmHandshake(c) /\ To(c, "handshake") /\ UNCHANGED <<sess, liveConns, slotsOf>>
  <2>1. /\ Moves(c, "handshake", SrvNone) /\ "handshake" \in Places
        /\ SrvNone \in SrvConns \cup {SrvNone} /\ backlog' = backlog /\ loop' = loop
    <3>1. sess[c] = SrvNone
      BY Zenon DEF Admitted, ServerInv, ArcsHeld
    <3> QED
      BY <1>2, <3>1, Zenon DEF Admitted, Moves, To, ServerInv, SrvTypeOK
  <2>2. SrvTypeOK'
    BY <1>2, <2>1, Zenon DEF Admitted, ArmHandshake, Moves, Deadlines, ServerInv, SrvTypeOK
  <2>3. Queued' /\ ArcsHeld'
    BY <1>2, <2>1, PlacesLeft, Zenon DEF Admitted, ArmHandshake
  <2>4. Admits'
    BY <1>2, <2>1, AdmitsKept, Zenon DEF Admitted, ArmHandshake, Working
  <2>5. SlotsHeld'
    BY <1>2, <2>1 DEF Admitted, ArmHandshake, Moves, ServerInv, SrvTypeOK, ArcsHeld, SlotsHeld
  <2>6. LiveCounted'
    BY <1>2, <2>1, LiveSame, Zenon DEF Admitted, ArmHandshake, Counted
  <2>7. CapHeld'
    BY <1>2, <2>1, CapKept, Zenon DEF Admitted, ArmHandshake, Taking
  <2>8. DeadlinesSet'
    BY <1>2, <2>1, Zenon DEF Admitted, ArmHandshake, Moves, Deadlines, ServerInv, SrvTypeOK,
       DeadlinesSet
  <2>9. Registered'
    BY <1>2, <2>1 DEF Admitted, ArmHandshake, Moves, ServerInv, SrvTypeOK, ArcsHeld, Registered
  <2>10. Accounted'
    <3>1. LeftSlot(at', slotsOf') = LeftSlot(at, slotsOf)
      BY <1>2, <2>1, LeftKept, Zenon DEF Admitted, ArmHandshake, Moves, ServerInv,
         SrvTypeOK, SlotsHeld, ArcsHeld
    <3>2. /\ a13' = a13
          /\ a13 => registered' + attached' + rejected'
               = registered + attached + rejected + Bit("handshake", Past) - Bit(at[c], Past)
      BY <1>2, <2>1 DEF Admitted, ArmHandshake, Bit, Past, ServerInv, SrvTypeOK, DeadlinesSet
    <3> QED
      BY <2>1, <3>1, <3>2, AccountedKept, Zenon
  <2> QED
    BY <2>2, <2>3, <2>4, <2>5, <2>6, <2>7, <2>8, <2>9, <2>10 DEF ServerInv
<1>3. CASE /\ ~a13 /\ ArmHandshake(c) /\ To(c, "first") /\ sess' = [sess EXCEPT ![c] = c]
            /\ liveConns' = [liveConns EXCEPT ![c] = 1] /\ slotsOf' = [slotsOf EXCEPT ![c] = {c}]
  <2>1. /\ Moves(c, "first", c) /\ "first" \in Places /\ c \in SrvConns \cup {SrvNone}
        /\ backlog' = backlog /\ loop' = loop
    BY <1>3, Zenon DEF Admitted, ArmHandshake, Moves, To, ServerInv, SrvTypeOK, ArcsHeld
  <2>2. SrvTypeOK'
    BY <1>3, <2>1 DEF Admitted, ArmHandshake, Moves, Deadlines, ServerInv, SrvTypeOK
  <2>3. Queued' /\ ArcsHeld'
    BY <1>3, <2>1, PlacesFounds, Zenon DEF Admitted, ArmHandshake
  <2>4. Admits'
    BY <1>3, <2>1, AdmitsKept, Zenon DEF Admitted, ArmHandshake, Working
  <2>5. SlotsHeld'
    BY <1>3, <2>1 DEF Admitted, ArmHandshake, Moves, ServerInv, SrvTypeOK, ArcsHeld, SlotsHeld
  <2>6. LiveCounted' /\ CapHeld'
    BY <1>3, <2>1, Founds, Zenon DEF Admitted
  <2>8. DeadlinesSet'
    BY <1>3, <2>1, Zenon DEF Admitted, ArmHandshake, Moves, Deadlines, ServerInv, SrvTypeOK,
       DeadlinesSet
  <2>9. Registered'
    BY <1>3, <2>1, Zenon DEF Admitted, ArmHandshake, Moves, ServerInv, SrvTypeOK, ArcsHeld, Registered
  <2>10. Accounted'
    <3>1. LeftSlot(at', slotsOf') = LeftSlot(at, slotsOf)
      BY <1>3, <2>1, LeftKept, Zenon DEF Admitted, ArmHandshake, Moves, ServerInv,
         SrvTypeOK, SlotsHeld, ArcsHeld
    <3>2. /\ a13' = a13
          /\ a13 => registered' + attached' + rejected'
               = registered + attached + rejected + Bit("first", Past) - Bit(at[c], Past)
      BY <1>3, <2>1, Zenon DEF Admitted, ArmHandshake, Bit, Past, ServerInv, SrvTypeOK, DeadlinesSet
    <3> QED
      BY <2>1, <3>1, <3>2, AccountedKept, Zenon
  <2> QED
    BY <2>2, <2>3, <2>4, <2>5, <2>6, <2>8, <2>9, <2>10 DEF ServerInv
<1> QED
  BY <1>1, <1>2, <1>3, Zenon DEF Admitted, ArmHandshake

\* An id that is echoed.
LEMMA AcceptEchoStep ==
    ASSUME Counting, ServerInv, NEW c \in SrvConns, AcceptEcho(c)
    PROVE  ServerInv'
<1>1. CASE \E s \in SrvConns :
             /\ Resolve(s)
             /\ sess' = [sess EXCEPT ![c] = s]
             /\ at' \in {[at EXCEPT ![c] = "cap"], [at EXCEPT ![c] = "cb_live"]}
             /\ UNCHANGED rejected
  <2> PICK s \in SrvConns, l \in {"cap", "cb_live"} :
           /\ Resolve(s) /\ Moves(c, l, s) /\ UNCHANGED rejected
    BY <1>1, Zenon DEF Moves
  <2>0. /\ s \in SrvConns /\ s \in registry /\ s # SrvNone /\ s # c /\ at[s] \notin Unfounded /\ at'[s] \notin Unfounded
        /\ at[c] = "handshake" /\ sess[c] = SrvNone /\ l # "done"
    <3>1. at[c] = "handshake" /\ sess[c] = SrvNone
      BY Zenon DEF AcceptEcho, ServerInv, ArcsHeld
    <3>2. s \in registry /\ s \in SrvConns
      BY Zenon DEF Resolve, ServerInv, SrvTypeOK
    <3>3. s # SrvNone
      BY <3>2, ServerAssumption DEF SrvConns, SrvNone
    <3>4. PICK d \in SrvConns : sess[d] = s
      BY Zenon DEF Resolve, ArcAlive
    <3>5. at[s] \notin Unfounded
      BY <3>3, <3>4, Zenon DEF ServerInv, ArcsHeld
    <3>6. s # c
      BY <3>1, <3>5, Zenon
    <3>7. at'[s] \notin Unfounded
      BY <3>2, <3>5, <3>6, Zenon DEF Moves, ServerInv, SrvTypeOK
    <3> QED
      BY <3>1, <3>2, <3>3, <3>5, <3>6, <3>7, Zenon
  <2>1. /\ Moves(c, l, s) /\ l \in Places /\ s \in SrvConns \cup {SrvNone}
        /\ backlog' = backlog /\ loop' = loop
    BY <2>0, Zenon DEF AcceptEcho, ArmServe, Moves, To, Reject, ServerInv, SrvTypeOK, ArcsHeld
  <2>2. SrvTypeOK'
    BY <2>0, <2>1 DEF AcceptEcho, ArmServe, Moves, Reject, Deadlines, ServerInv, SrvTypeOK
  <2>3. Queued' /\ ArcsHeld'
    BY <2>0, <2>1, PlacesKept, Zenon
  <2>4. Admits'
    BY <2>0, <2>1, AdmitsKept, Zenon DEF Working
  <2>5. SlotsHeld'
    BY <2>0, <2>1 DEF AcceptEcho, ArmServe, Moves, ServerInv, SrvTypeOK, ArcsHeld, SlotsHeld
  <2>6. LiveCounted'
    BY <2>0, <2>1, LiveSame, Zenon DEF AcceptEcho, ArmServe, Counted
  <2>7. CapHeld'
    BY <2>0, <2>1, CapKept, Zenon DEF AcceptEcho, ArmServe, Taking
  <2>8. DeadlinesSet'
    BY <2>0, <2>1 DEF AcceptEcho, ArmServe, Moves, Deadlines, ServerInv, SrvTypeOK, DeadlinesSet
  <2>9. Registered'
    BY <2>0, <2>1 DEF AcceptEcho, ArmServe, Moves, ServerInv, SrvTypeOK, ArcsHeld, Registered
  <2>10. Accounted'
    <3>1. LeftSlot(at', slotsOf') = LeftSlot(at, slotsOf)
      BY <2>0, <2>1, LeftKept, Zenon DEF AcceptEcho, Moves
    <3>2. /\ a13' = a13
          /\ a13 => registered' + attached' + rejected'
               = registered + attached + rejected + Bit(l, Past) - Bit(at[c], Past)
      BY <2>0, <2>1 DEF AcceptEcho, ArmServe, Reject, Bit, Past, ServerInv, SrvTypeOK,
         DeadlinesSet
    <3> QED
      BY <2>1, <3>1, <3>2, AccountedKept, Zenon
  <2> QED
    BY <2>2, <2>3, <2>4, <2>5, <2>6, <2>7, <2>8, <2>9, <2>10, Zenon DEF ServerInv
<1>2. CASE Reject(c) /\ UNCHANGED sess
  <2>1. sess[c] = SrvNone /\ at[c] = "handshake" /\ a13
    BY Zenon DEF AcceptEcho, ServerInv, ArcsHeld, DeadlinesSet
  <2>2. Moves(c, "done", SrvNone)
    BY <1>2, <2>1, Zenon DEF Reject, To, Moves, ServerInv, SrvTypeOK
  <2>3. /\ UNCHANGED <<a13, backlog, loop, registry, liveConns, slotsOf, overlap, attached, registered>>
        /\ rejected' = rejected + 1 /\ readBy' = [readBy EXCEPT ![c] = IF IdleTimeout THEN "idle" ELSE "none"]
    BY <1>2, Zenon DEF AcceptEcho, ArmServe, Deadlines, Reject
  <2>4. /\ readBy' \in [SrvConns -> {"none", "handshake", "idle"}]
        /\ \A d \in SrvConns \ {c} : readBy'[d] = readBy[d]
    BY <2>3, Zenon DEF ServerInv, SrvTypeOK
  <2> QED
    BY <2>1, <2>2, <2>3, <2>4, LeavesStep, Zenon
<1> QED
  BY <1>1, <1>2, Zenon DEF AcceptEcho, ArmServe

\* A connection comes, is accepted or dropped: it has no session yet.
LEMMA ArrivesStep ==
    ASSUME Counting, ServerInv, NEW c \in SrvConns, NEW l \in {"backlog", "accepted", "dropped"},
           at[c] \in {"out", "backlog"}, at' = [at EXCEPT ![c] = l],
           UNCHANGED <<a13, readBy, srvSess, srvCount>>
    PROVE  /\ Moves(c, l, SrvNone) /\ l \in Places
           /\ ArcsHeld' /\ SlotsHeld' /\ LiveCounted' /\ CapHeld' /\ DeadlinesSet' /\ Registered' /\ Accounted'
<1>1. sess[c] = SrvNone
  BY Zenon DEF ServerInv, ArcsHeld
<1>2. Moves(c, l, SrvNone) /\ l \in Places /\ SrvNone \in SrvConns \cup {SrvNone}
  BY <1>1, Zenon DEF Moves, ServerInv, SrvTypeOK
<1>3. ArcsHeld'
  BY <1>1, <1>2 DEF Moves, ServerInv, SrvTypeOK, ArcsHeld
<1>4. SlotsHeld'
  BY <1>2 DEF ServerInv, SrvTypeOK, SlotsHeld
<1>5. LiveCounted'
  BY <1>2, LiveSame, Zenon DEF Counted
<1>6. CapHeld'
  BY <1>2, CapKept, Zenon DEF Taking
<1>7. DeadlinesSet'
  BY Zenon DEF ServerInv, SrvTypeOK, DeadlinesSet
<1>8. Registered'
  BY <1>2, <1>1 DEF ServerInv, SrvTypeOK, ArcsHeld, Registered
<1>9. Accounted'
  <2>1. LeftSlot(at', slotsOf') = LeftSlot(at, slotsOf)
    BY <1>2, LeftKept, Zenon
  <2>2. Bit(l, Past) = 0 /\ Bit(at[c], Past) = 0
    BY Zenon DEF Bit, Past
  <2>3. registered' + attached' + rejected' = registered + attached + rejected + Bit(l, Past) - Bit(at[c], Past)
    BY <2>2 DEF ServerInv, SrvTypeOK
  <2> QED
    BY <1>2, <2>1, <2>3, AccountedKept, Zenon
<1> QED
  BY <1>2, <1>3, <1>4, <1>5, <1>6, <1>7, <1>8, <1>9, Zenon

\* A client connects: nobody has accepted it yet.
LEMMA ConnectStep ==
    ASSUME Counting, ServerInv, NEW c \in SrvConns, Connect(c)
    PROVE  ServerInv'
<1>1. /\ at[c] = "out" /\ at' = [at EXCEPT ![c] = "backlog"] /\ backlog' = Append(backlog, c) /\ loop' = loop
      /\ UNCHANGED <<a13, readBy, srvSess, srvCount>>
  BY Zenon DEF Connect, To
<1>2. /\ Moves(c, "backlog", SrvNone) /\ "backlog" \in Places
      /\ ArcsHeld' /\ SlotsHeld' /\ LiveCounted' /\ CapHeld' /\ DeadlinesSet' /\ Registered' /\ Accounted'
  BY <1>1, ArrivesStep, Zenon
<1>3. SrvTypeOK'
  BY <1>1 DEF ServerInv, SrvTypeOK
<1>4. Queued'
  <2>1. /\ Len(backlog') = Len(backlog) + 1 /\ Len(backlog) \in Nat
        /\ \A i \in 1 .. Len(backlog) : backlog'[i] = backlog[i] /\ backlog[i] \in SrvConns
        /\ backlog'[Len(backlog) + 1] = c
    BY <1>1 DEF ServerInv, SrvTypeOK
  <2> QED
    BY <1>1, <2>1 DEF ServerInv, SrvTypeOK, Queued
<1>5. Admits'
  BY <1>1, <1>2, AdmitsKept, Zenon DEF Working
<1> QED
  BY <1>2, <1>3, <1>4, <1>5, Zenon DEF ServerInv

\* accept_raw takes the oldest connection: there is room for its worker.
LEMMA AcceptsStep ==
    ASSUME Counting, ServerInv, loop = "accept", loop' = "poll", backlog # <<>>, backlog' = Tail(backlog),
           NEW l \in {"accepted", "dropped"}, at' = [at EXCEPT ![Head(backlog)] = l],
           UNCHANGED <<a13, readBy, srvSess, srvCount>>
    PROVE  ServerInv'
<1> DEFINE c == Head(backlog)
<1>1. /\ backlog \in Seq(SrvConns) /\ Len(backlog) \in Nat \ {0} /\ c = backlog[1] /\ c \in SrvConns
      /\ backlog' \in Seq(SrvConns) /\ Len(backlog') = Len(backlog) - 1
      /\ \A i \in 1 .. Len(backlog') : backlog'[i] = backlog[i + 1] /\ backlog[i + 1] \in SrvConns
  BY DEF ServerInv, SrvTypeOK
<1> HIDE DEF c
<1>2. at[c] = "backlog" /\ at' = [at EXCEPT ![c] = l]
  BY <1>1 DEF ServerInv, Queued, c
<1>3. /\ Moves(c, l, SrvNone) /\ l \in Places
      /\ ArcsHeld' /\ SlotsHeld' /\ LiveCounted' /\ CapHeld' /\ DeadlinesSet' /\ Registered' /\ Accounted'
  BY <1>1, <1>2, ArrivesStep, ZenonT(60)
<1>4. SrvTypeOK'
  BY <1>1, <1>2, <1>3 DEF ServerInv, SrvTypeOK
<1>5. Queued'
  BY <1>1, <1>2 DEF ServerInv, SrvTypeOK, Queued
<1>6. Admits'
  <2>1. /\ Cardinality(AtIn(at, Working)) \in Nat
        /\ Cardinality(AtIn(at', Working))
             = Cardinality(AtIn(at, Working)) + Bit(l, Working) - Bit(at[c], Working)
    BY <1>1, <1>3, MoveSizes, Zenon DEF ServerInv
  <2>2. Bit(l, Working) \in {0, 1} /\ Bit(at[c], Working) = 0
    BY <1>2, Zenon DEF Bit, Working
  <2> QED
    BY <2>1, <2>2, ServerAssumption DEF ServerInv, Admits
<1> QED
  BY <1>3, <1>4, <1>5, <1>6, Zenon DEF ServerInv

\* The worker handles that live_worker_count finds.
LEMMA WorkersAre ==
    ASSUME Counting, ServerInv
    PROVE  Workers = AtIn(at, Working)
  BY Zenon DEF ServerInv, SrvTypeOK, Workers, AtIn, Working

\* The accept loop goes round.
LEMMA LoopStep ==
    ASSUME Counting, ServerInv, UNCHANGED <<a13, backlog, at, readBy, srvSess, srvCount>>,
           loop' = "accept" => Cardinality(AtIn(at, Working)) < MaxConnections
    PROVE  ServerInv'
<1>1. SrvTypeOK' /\ Queued' /\ ArcsHeld' /\ SlotsHeld'
  BY DEF ServerInv, SrvTypeOK, Queued, ArcsHeld, SlotsHeld
<1>2. LiveCounted' /\ CapHeld' /\ DeadlinesSet' /\ Registered'
  BY Zenon DEF ServerInv, LiveCounted, CapHeld, DeadlinesSet, Registered
<1>3. Admits' /\ Accounted'
  BY Zenon DEF ServerInv, Admits, Accounted
<1> QED
  BY <1>1, <1>2, <1>3, Zenon DEF ServerInv

\* The server starts in the invariant.
LEMMA ServerStarts ==
    ASSUME Counting, ServerInit
    PROVE  ServerInv
<1> PICK android13 \in BOOLEAN : ServerStart(android13, TRUE)
  BY Zenon DEF ServerInit
<1>1. SrvTypeOK /\ Queued /\ ArcsHeld /\ SlotsHeld
  BY ServerAssumption DEF ServerStart, SrvTypeOK, Queued, ArcsHeld, SlotsHeld
<1>2. AtIn(at, Working) = {} /\ AtIn(at, Past) = {} /\ LeftSlot(at, slotsOf) = {}
  BY Zenon DEF ServerStart, AtIn, LeftSlot, Working, Past
<1>3. \A s \in SrvConns : On(at, sess, s, Counted) = {} /\ On(at, sess, s, Taking) = {}
  BY Zenon DEF ServerStart, On, Counted, Taking
<1>4. /\ Cardinality(AtIn(at, Working)) = 0 /\ Cardinality(AtIn(at, Past)) = 0
      /\ Cardinality(LeftSlot(at, slotsOf)) = 0
      /\ \A s \in SrvConns : /\ Cardinality(On(at, sess, s, Counted)) = 0
                            /\ Cardinality(On(at, sess, s, Taking)) = 0
  BY <1>2, <1>3, SomeConns, Zenon
<1>5. Admits /\ LiveCounted
  BY <1>4, ServerAssumption DEF ServerStart, Admits, LiveCounted
<1>6. CapHeld
  BY <1>4, ServerAssumption DEF ServerStart, CapHeld, MaxOf
<1>7. DeadlinesSet /\ Registered /\ Accounted
  BY <1>4 DEF ServerStart, DeadlinesSet, Registered, Accounted
<1> QED
  BY <1>1, <1>5, <1>6, <1>7, Zenon DEF ServerInv

\* Every step keeps it.
LEMMA ServerStep ==
    ASSUME Counting, ServerInv, [ServerNext]_srvVars
    PROVE  ServerInv'
<1>1. CASE RunPoll
  BY <1>1, LoopStep, WorkersAre, Zenon DEF RunPoll, HasRoom
<1>2. CASE RunAccept
  <2>1. CASE backlog = <<>>
    BY <1>2, <2>1, LoopStep, Zenon DEF RunAccept
  <2>2. CASE backlog # <<>>
    <3>1. PICK l \in {"accepted", "dropped"} : at' = [at EXCEPT ![Head(backlog)] = l]
      BY <1>2, <2>2, Zenon DEF RunAccept, To
    <3> QED
      BY <1>2, <2>2, <3>1, AcceptsStep, Zenon DEF RunAccept
  <2> QED
    BY <2>1, <2>2, Zenon
<1>3. CASE RunAcceptFails
  BY <1>3, LoopStep, Zenon DEF RunAcceptFails
<1>4. CASE Shutdown
  BY <1>4, LoopStep, Zenon DEF Shutdown, ServerInv, Admits
<1>5. ASSUME NEW c \in SrvConns, Connect(c) \/ WorkerStep(c) \/ AcceptEcho(c) \/ FirstFrame(c) \/ ServeEnds(c)
      PROVE  ServerInv'
  BY <1>5, ConnectStep, AcceptEchoStep, FirstFrameStep, ServeEndsStep, AdmittedStep,
     HandshakeFailsStep, AcceptNewStep, RegisterSessionStep, CapCheckStep, BumpStep, PushStep,
     CallbackLiveStep, CallbackPushStep, RetireSlotStep, Zenon DEF WorkerStep
<1>6. CASE UNCHANGED srvVars
  BY <1>6, LoopStep, Zenon DEF srvVars, ServerInv, Admits
<1> QED
  BY <1>1, <1>2, <1>3, <1>4, <1>5, <1>6, Zenon DEF ServerNext, RunStep

\* What the invariant says of the server in every state.
LEMMA ServerInvSays ==
    ASSUME Counting, ServerInv
    PROVE  /\ WorkersBounded /\ ServedSessionsLive /\ OvershootBounded
           /\ LiveSessionResolves /\ EchoesCounted /\ ReadDeadlineLifted
<1>1. WorkersBounded
  BY WorkersAre, Zenon DEF ServerInv, Admits, WorkersBounded
<1>2. ASSUME NEW c \in SrvConns
      PROVE  liveConns[c] = Cardinality({d \in SrvConns : sess[d] = c
                                          /\ at[d] \in {"register", "first", "serve", "push"}})
  BY Zenon DEF ServerInv, LiveCounted, On, Counted
<1>3. ASSUME NEW s \in SrvConns, NEW c \in SrvConns, sess[c] = s, at[c] \in Counted
      PROVE  liveConns[s] > 0
  <2>1. c \in On(at, sess, s, Counted)
    BY <1>3, Zenon DEF On
  <2>2. On(at, sess, s, Counted) \in SUBSET SrvConns
    BY Zenon DEF On
  <2>3. Cardinality(On(at, sess, s, Counted)) # 0
    BY <2>1, <2>2, SomeConns, Zenon
  <2> QED
    BY <2>3 DEF ServerInv, LiveCounted, SrvTypeOK
<1>4. ServedSessionsLive
  <2>1. ASSUME NEW c \in SrvConns, at[c] \in {"first", "serve"}
        PROVE  liveConns[sess[c]] > 0 /\ c \in slotsOf[sess[c]]
    <3>1. sess[c] \in SrvConns /\ at[c] \in Counted /\ at[c] \in Slotted
      BY <2>1, Zenon DEF ServerInv, SrvTypeOK, ArcsHeld, Counted
    <3> QED
      BY <3>1, <1>3, Zenon DEF ServerInv, SlotsHeld
  <2> QED
    BY <1>2, <2>1, Zenon DEF ServedSessionsLive
<1>5. OvershootBounded
  <2>1. ASSUME NEW s \in SrvConns
        PROVE  Cardinality({c \in slotsOf[s] : sess[c] = s}) <= MaxThreads + MaxOf(overlap[s] - 1, 0)
    <3> DEFINE P == {c \in slotsOf[s] : sess[c] = s}
               T == On(at, sess, s, Taking)
    <3>1. P \subseteq T /\ T \in SUBSET SrvConns /\ P \in SUBSET SrvConns
      <4>1. s # SrvNone
        BY ServerAssumption DEF SrvConns, SrvNone
      <4> QED
        BY <4>1, Zenon DEF ServerInv, SrvTypeOK, ArcsHeld, SlotsHeld, On, Taking
    <3> HIDE DEF P, T
    <3>2. Cardinality(P) <= Cardinality(T) /\ Cardinality(P) \in Nat /\ Cardinality(T) \in Nat
      BY <3>1, Zenon DEF Counting
    <3>3. overlap[s] \in Nat /\ MaxThreads \in Nat
      BY ServerAssumption, Zenon DEF ServerInv, SrvTypeOK
    <3>4. Cardinality(T) <= MaxThreads + MaxOf(overlap[s] - 1, 0)
      BY Zenon DEF T, ServerInv, CapHeld
    <3>5. MaxThreads + MaxOf(overlap[s] - 1, 0) \in Nat
      BY <3>3 DEF MaxOf
    <3>6. Cardinality(P) <= MaxThreads + MaxOf(overlap[s] - 1, 0)
      BY <3>2, <3>4, <3>5
    <3> QED
      BY <3>6, Zenon DEF P
  <2> QED
    BY <2>1, Zenon DEF OvershootBounded
<1>6. LiveSessionResolves
  <2> SUFFICES ASSUME NEW s \in SrvConns, a13, liveConns[s] > 0, at[s] # "register"
               PROVE  s \in registry
    BY Zenon DEF LiveSessionResolves
  <2>1. On(at, sess, s, Counted) # {}
    <3>1. Cardinality(On(at, sess, s, Counted)) # 0
      BY DEF ServerInv, LiveCounted, SrvTypeOK
    <3>2. On(at, sess, s, Counted) \in SUBSET SrvConns
      BY Zenon DEF On
    <3> QED
      BY <3>1, <3>2, SomeConns, Zenon
  <2>2. PICK c \in SrvConns : sess[c] = s
    BY <2>1, Zenon DEF On
  <2>3. s # SrvNone
    BY ServerAssumption DEF SrvConns, SrvNone
  <2> QED
    BY <2>2, <2>3, Zenon DEF ServerInv, Registered
<1>7. EchoesCounted
  BY Zenon DEF ServerInv, Accounted, EchoesCounted, LeftSlot, AtIn, Past
<1>8. ReadDeadlineLifted
  BY Zenon DEF ServerInv, DeadlinesSet, ReadDeadlineLifted
<1> QED
  BY <1>1, <1>4, <1>5, <1>6, <1>7, <1>8, Zenon

\* No step brings a session back to life.
LEMMA RevivesNone ==
    ASSUME ServerInv, [ServerNext]_srvVars, NEW s \in SrvConns, liveConns[s] = 0, liveConns'[s] > 0
    PROVE  sess[s] = SrvNone /\ sess'[s] = s
<1> USE DEF ServerInv, SrvTypeOK
<1>1. ASSUME NEW c \in SrvConns, Admitted(c)
      PROVE  sess[s] = SrvNone /\ sess'[s] = s
  <2>1. sess[c] = SrvNone
    BY <1>1, Zenon DEF Admitted, ArcsHeld
  <2>2. sess' = [sess EXCEPT ![c] = c] /\ liveConns' = [liveConns EXCEPT ![c] = 1]
    BY <1>1 DEF Admitted
  <2>3. s = c
    BY <2>2
  <2> QED
    BY <2>1, <2>2, <2>3, Zenon
<1>2. ASSUME NEW c \in SrvConns, AcceptNew(c)
      PROVE  sess[s] = SrvNone /\ sess'[s] = s
  <2>1. sess[c] = SrvNone
    BY <1>2, Zenon DEF AcceptNew, ArcsHeld
  <2>2. sess' = [sess EXCEPT ![c] = c] /\ liveConns' = [liveConns EXCEPT ![c] = 1]
    BY <1>2, Zenon DEF AcceptNew
  <2>3. s = c
    BY <2>2
  <2> QED
    BY <2>1, <2>2, <2>3
<1>3. ASSUME NEW c \in SrvConns, Bump(c)
      PROVE  FALSE
  <2>1. sess[c] \in SrvConns
    BY <1>3, Zenon DEF Bump, ArcsHeld
  <2>2. liveConns' = [liveConns EXCEPT ![sess[c]] = @ + 1] /\ liveConns[sess[c]] > 0
    BY <1>3 DEF Bump, MayBump
  <2> QED
    BY <2>1, <2>2
<1>4. ASSUME NEW c \in SrvConns, ServeEnds(c)
      PROVE  FALSE
  BY <1>4 DEF ServeEnds, ArcsHeld
<1>5. ASSUME UNCHANGED liveConns
      PROVE  FALSE
  BY <1>5
<1> QED
  BY <1>1, <1>2, <1>3, <1>4, <1>5, Zenon DEF ServerNext, RunStep, WorkerStep, RunPoll,
     RunAccept, RunAcceptFails, Shutdown, Connect, HandshakeFails, RegisterSession,
     CapCheck, Push, CallbackLive, CallbackPush, RetireSlot, AcceptEcho, FirstFrame,
     srvVars

\* register_session leaves no dead session in the registry.
LEMMA PrunesRegistry ==
    ASSUME ServerInv, [ServerNext]_srvVars, registered' > registered
    PROVE  \A s \in registry' : ArcAlive(s)
<1>1. ASSUME NEW c \in SrvConns, RegisterSession(c)
      PROVE  \A s \in registry' : ArcAlive(s)
  BY <1>1, Zenon DEF RegisterSession, Prune, ArcAlive, ServerInv, ArcsHeld
<1>2. ASSUME UNCHANGED registered
      PROVE  FALSE
  BY <1>2 DEF ServerInv, SrvTypeOK
<1> QED
  BY <1>1, <1>2, Zenon DEF ServerNext, RunStep, WorkerStep, RunPoll, RunAccept,
     RunAcceptFails, Shutdown, Connect, Admitted, HandshakeFails, AcceptNew, CapCheck,
     Bump, Push, CallbackLive, CallbackPush, RetireSlot, AcceptEcho, FirstFrame,
     ServeEnds, srvVars

-----------------------------------------------------------------------------
(* RpcServer: the theorems *)

INSTANCE FiniteSetTheorems

\* The sets of connections are finite, and sizes behave as Counting says.
LEMMA CountingHolds == Counting
<1> SUFFICES ASSUME NEW S \in SUBSET SrvConns
             PROVE  /\ Cardinality(S) \in Nat
                    /\ Cardinality(S) = 0 <=> S = {}
                    /\ \A c \in SrvConns \ S : Cardinality(S \cup {c}) = Cardinality(S) + 1
                    /\ \A c \in S : Cardinality(S \ {c}) = Cardinality(S) - 1
                    /\ \A T \in SUBSET SrvConns :
                         /\ S \subseteq T => Cardinality(S) <= Cardinality(T)
                         /\ S \cap T = {} => Cardinality(S \cup T) = Cardinality(S) + Cardinality(T)
  BY Zenon DEF Counting
<1>1. IsFiniteSet(SrvConns)
  BY FS_Interval, ServerAssumption DEF SrvConns
<1>2. \A T \in SUBSET SrvConns : IsFiniteSet(T)
  BY <1>1, FS_Subset, Zenon
<1>3. \A T \in SUBSET SrvConns : Cardinality(T) \in Nat
  BY <1>2, FS_CardinalityType, Zenon
<1>4. Cardinality(S) = 0 <=> S = {}
  BY <1>2, FS_EmptySet, Zenon
<1>5. \A c \in SrvConns \ S : Cardinality(S \cup {c}) = Cardinality(S) + 1
  BY <1>2, FS_AddElement, Zenon
<1>6. \A c \in S : Cardinality(S \ {c}) = Cardinality(S) - 1
  BY <1>2, FS_RemoveElement, Zenon
<1>7. ASSUME NEW T \in SUBSET SrvConns
      PROVE  /\ S \subseteq T => Cardinality(S) <= Cardinality(T)
             /\ S \cap T = {} => Cardinality(S \cup T) = Cardinality(S) + Cardinality(T)
  <2>1. IsFiniteSet(S) /\ IsFiniteSet(T) /\ Cardinality(S) \in Nat /\ Cardinality(T) \in Nat
    BY <1>2, <1>3, Zenon
  <2>2. S \subseteq T => Cardinality(S) <= Cardinality(T)
    BY <2>1, FS_Subset, Zenon
  <2>3. Cardinality(S \cup T) = Cardinality(S) + Cardinality(T) - Cardinality(S \cap T) /\ Cardinality({}) = 0
    BY <2>1, FS_Union, FS_EmptySet, Zenon
  <2> QED
    BY <2>1, <2>2, <2>3
<1> QED
  BY <1>3, <1>4, <1>5, <1>6, <1>7, Zenon

\* The invariant holds in every state.
THEOREM ServerInvariant == ServerSpec => []ServerInv
<1>1. ServerInit => ServerInv
  BY CountingHolds, ServerStarts, Zenon
<1>2. ServerInv /\ [ServerNext]_srvVars => ServerInv'
  BY CountingHolds, ServerStep, Zenon
<1> QED
  BY <1>1, <1>2, PTL DEF ServerSpec

\* The RPC server keeps its promises for every number of clients, connections
\* and threads: the bounds of set_max_connections and set_max_threads, exact
\* live counts, a registry without dead or missing sessions, no session that
\* comes back to life, and an account of every connection.
THEOREM ServerCorrect == ServerSpec => ServerSafe
<1>1. ServerInv /\ [ServerNext]_srvVars
        => (\A s \in SrvConns : liveConns[s] = 0 /\ liveConns'[s] > 0 => sess[s] = SrvNone /\ sess'[s] = s)
  BY RevivesNone, Zenon
<1>2. ServerInv /\ [ServerNext]_srvVars
        => (registered' > registered => \A s \in registry' : ArcAlive(s))
  BY PrunesRegistry, Zenon
<1>3. ServerSpec => NeverRevived
  BY <1>1, ServerInvariant, PTL DEF ServerSpec, NeverRevived
<1>4. ServerSpec => RegistryPruned
  BY <1>2, ServerInvariant, PTL DEF ServerSpec, RegistryPruned
<1>5. ServerInv => /\ WorkersBounded /\ ServedSessionsLive /\ OvershootBounded
                   /\ LiveSessionResolves /\ EchoesCounted /\ ReadDeadlineLifted
  BY CountingHolds, ServerInvSays, Zenon
<1> QED
  BY <1>5, ServerInvariant, <1>3, <1>4, PTL DEF ServerSafe
=============================================================================
