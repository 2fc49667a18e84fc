---------------------------- MODULE SessionProofs ----------------------------
(***************************************************************************)
(* Proofs about a session: its connection pool (ConnPool) and its lifecycle  *)
(* (SessionLifecycle).  For every number of callers, connections and slots   *)
(* no connection is ever used by two threads, no wakeup is lost and callback *)
(* slots never push the pool past its cap; LiveCountInv is inductive for     *)
(* every finite set of connections.  EventuallyDead is left to TLC.          *)
(***************************************************************************)
EXTENDS ConnPool, SessionLifecycle, TLAPS

(* SessionLifecycle *)

\* Type correctness of the word, the loop locals and the control state.
LEMMA TypeInvariant == Spec => []TypeOK
<1>1. Init => TypeOK
  BY DEF Init, TypeOK, Words, Stages, Live
<1>2. TypeOK /\ [Next]_vars => TypeOK'
  <2> SUFFICES ASSUME TypeOK, [Next]_vars PROVE TypeOK'
    BY Zenon
  <2> USE DEF TypeOK, Stages, Words, ToStage, ReadWord, Live, Dying, Dead
  <2>1. ASSUME NEW c \in Conns, BumpLoad(c) \/ BumpCas(c) PROVE TypeOK'
    BY <2>1 DEF BumpLoad, BumpCas
  <2>2. ASSUME NEW c \in Conns, DropLoad(c) \/ DropCas(c) PROVE TypeOK'
    BY <2>2 DEF DropLoad, DropCas
  <2>3. ASSUME NEW c \in Conns, SendObituaries(c) \/ MarkDead(c) PROVE TypeOK'
    BY <2>3 DEF SendObituaries, MarkDead
  <2>4. CASE UNCHANGED vars
    BY <2>4, Zenon DEF vars
  <2>5. QED
    BY <2>1, <2>2, <2>3, <2>4, Zenon DEF Next, Step, AllLeft
<1>3. QED
  BY <1>1, <1>2, PTL DEF Spec

\* The connections are finitely many, and so their sets have sizes: the facts
\* about cardinalities that the live count rests on (ConnsCounted proves them).
Counting ==
    \A S \in SUBSET Conns :
        /\ Cardinality(S) \in Nat
        /\ Cardinality(S) = 0 <=> S = {}
        /\ \A c \in Conns \ S : Cardinality(S \cup {c}) = Cardinality(S) + 1
        /\ \A c \in S : Cardinality(S \ {c}) = Cardinality(S) - 1

\* One attached connection more or fewer changes their number by one.
LEMMA AttachedCount ==
    ASSUME Counting, NEW c \in Conns
    PROVE  /\ Cardinality(Attached) \in Nat
           /\ Cardinality(Attached) = 0 <=> Attached = {}
           /\ Cardinality(Attached) = 1 /\ c \in Attached => Attached = {c}
           /\ Attached = {c} => Cardinality(Attached) = 1
           /\ Attached' = Attached \cup {c} /\ c \notin Attached
                => Cardinality(Attached') = Cardinality(Attached) + 1
           /\ Attached' = Attached \ {c} /\ c \in Attached
                => Cardinality(Attached') = Cardinality(Attached) - 1
<1>1. Attached \in SUBSET Conns /\ Attached \ {c} \in SUBSET Conns /\ {} \in SUBSET Conns
  BY Zenon DEF Attached
<1>2. /\ Cardinality(Attached) \in Nat /\ (Cardinality(Attached) = 0 <=> Attached = {})
      /\ c \notin Attached => Cardinality(Attached \cup {c}) = Cardinality(Attached) + 1
      /\ c \in Attached => Cardinality(Attached \ {c}) = Cardinality(Attached) - 1
  BY <1>1, Zenon DEF Counting
<1>3. Cardinality(Attached \ {c}) = 0 => Attached \ {c} = {}
  BY <1>1, Zenon DEF Counting
<1>4. Cardinality(Attached) = 1 /\ c \in Attached => Attached = {c}
  BY <1>2, <1>3
<1>5. Attached = {c} => Cardinality(Attached) = 1
  <2> SUFFICES ASSUME Attached = {c} PROVE Cardinality(Attached) = 1
    BY Zenon
  <2>1. Attached \ {c} = {} /\ Cardinality({}) = 0
    BY <1>1, Zenon DEF Counting
  <2>2. QED
    BY <1>2, <2>1
<1>6. QED
  BY <1>2, <1>4, <1>5, Zenon

\* Each load and compare-exchange keeps the live count equal to the number of
\* attached connections, and Dying in the hands of one worker.
LEMMA LiveCountStep ==
    ASSUME Counting, TypeOK, LiveCountInv, [Next]_vars
    PROVE  LiveCountInv'
<1> USE DEF ToStage, Live, Dying, Dead
<1>1. ASSUME NEW c \in Conns, BumpLoad(c) \/ DropLoad(c) PROVE LiveCountInv'
  <2>1. Attached' = Attached /\ Closing' = Closing
    BY <1>1, Zenon DEF BumpLoad, DropLoad, ReadWord, Attached, Closing, TypeOK, LiveCountInv
  <2>2. QED
    BY <1>1, <2>1, Zenon DEF BumpLoad, DropLoad, ReadWord, LiveCountInv, TypeOK
<1>2. ASSUME NEW c \in Conns, BumpCas(c) \/ DropCas(c), word # seen[c] PROVE LiveCountInv'
  <2>1. Attached' = Attached /\ Closing' = Closing
    BY <1>2, Zenon DEF BumpCas, DropCas, ReadWord, Attached, Closing, TypeOK, LiveCountInv
  <2>2. QED
    BY <1>2, <2>1, Zenon DEF BumpCas, DropCas, ReadWord, LiveCountInv, TypeOK
<1>3. ASSUME NEW c \in Conns, BumpCas(c), word = seen[c] PROVE LiveCountInv'
  <2>1. Attached' = Attached \cup {c} /\ c \notin Attached /\ Closing' = Closing
    BY <1>3, Zenon DEF BumpCas, ReadWord, Attached, Closing, TypeOK
  <2>2. word.tag = "Live" /\ word.n \in Int /\ word' = Live(word.n + 1)
    BY <1>3, Zenon DEF BumpCas, ReadWord, LiveCountInv, TypeOK, Words
  <2>3. Cardinality(Attached') = Cardinality(Attached) + 1
    BY <2>1, AttachedCount, Zenon
  <2>4. \A d \in Conns : stage'[d] \in {"bump_cas", "drop_cas"} => seen'[d].tag = "Live"
    BY <1>3, Zenon DEF BumpCas, ReadWord, LiveCountInv, TypeOK
  <2>5. QED
    BY <2>1, <2>2, <2>3, <2>4, Zenon DEF LiveCountInv
<1>4. ASSUME NEW c \in Conns, DropCas(c), word = seen[c] PROVE LiveCountInv'
  <2>1. Attached' = Attached \ {c} /\ c \in Attached
    BY <1>4, Zenon DEF DropCas, ReadWord, Attached, TypeOK
  <2>2. word.tag = "Live" /\ word.n = Cardinality(Attached) /\ Closing = {}
    BY <1>4, Zenon DEF DropCas, LiveCountInv
  <2>3. \A d \in Conns : stage'[d] \in {"bump_cas", "drop_cas"} => seen'[d].tag = "Live"
    BY <1>4, Zenon DEF DropCas, ReadWord, LiveCountInv, TypeOK
  <2>4. CASE word.n = 1
    <3>1. Attached' = {}
      BY <2>1, <2>2, <2>4, AttachedCount, Zenon
    <3>2. Closing' = {c} /\ word' = Dying
      BY <1>4, <2>2, <2>4, Zenon DEF DropCas, ReadWord, Closing, TypeOK
    <3>3. QED
      BY <2>3, <3>1, <3>2, Zenon DEF LiveCountInv
  <2>5. CASE word.n # 1
    <3>1. Closing' = {} /\ word' = Live(word.n - 1)
      BY <1>4, <2>2, <2>5, Zenon DEF DropCas, ReadWord, Closing, TypeOK
    <3>2. Cardinality(Attached') = Cardinality(Attached) - 1
      BY <2>1, AttachedCount, Zenon
    <3>3. Attached' # {}
      <4>1. Attached # {c}
        BY <2>2, <2>5, AttachedCount, Zenon
      <4>2. QED
        BY <2>1, <4>1, Zenon
    <3>4. QED
      BY <2>2, <2>3, <3>1, <3>2, <3>3, Zenon DEF LiveCountInv
  <2>6. QED
    BY <2>4, <2>5, Zenon
<1>5. ASSUME NEW c \in Conns, SendObituaries(c) PROVE LiveCountInv'
  <2>1. Attached' = Attached /\ Closing' = Closing
    BY <1>5, Zenon DEF SendObituaries, Attached, Closing, TypeOK
  <2>2. QED
    BY <1>5, <2>1, Zenon DEF SendObituaries, LiveCountInv, TypeOK
<1>6. ASSUME NEW c \in Conns, MarkDead(c) PROVE LiveCountInv'
  <2>1. c \in Closing
    BY <1>6, Zenon DEF MarkDead, Closing
  <2>2. word = Dying /\ Closing = {c} /\ Attached = {}
    BY <2>1, Zenon DEF LiveCountInv, TypeOK, Words
  <2>3. Attached' = {} /\ Closing' = {} /\ word' = Dead
    BY <1>6, <2>2, Zenon DEF MarkDead, Attached, Closing, TypeOK
  <2>4. QED
    BY <1>6, <2>3 DEF MarkDead, LiveCountInv, TypeOK
<1>7. CASE UNCHANGED vars
  BY <1>7, Zenon DEF vars, LiveCountInv, Attached, Closing
<1>8. QED
  BY <1>1, <1>2, <1>3, <1>4, <1>5, <1>6, <1>7, Zenon DEF Next, Step, AllLeft

\* A session starts with its opener attached.
LEMMA LiveCountStarts == ASSUME Counting, Init PROVE LiveCountInv
<1>1. Attached = {Opener} /\ Closing = {}
  BY ConnsAssumption, Zenon DEF Init, Attached, Closing
<1>2. Cardinality(Attached) = 1
  BY <1>1, ConnsAssumption, AttachedCount, Zenon
<1>3. QED
  BY <1>1, <1>2, Zenon DEF Init, LiveCountInv, Live

\* Only the worker that took the 1 -> 0 edge sends the obituaries.
LEMMA ObituaryStep ==
    ASSUME TypeOK, LiveCountInv, ObituaryOnce, [Next]_vars
    PROVE  ObituaryOnce'
<1> USE DEF ToStage, ReadWord, Live, Dying, Dead
<1>1. ASSUME NEW c \in Conns, BumpLoad(c) \/ DropLoad(c) PROVE ObituaryOnce'
  BY <1>1, Zenon DEF BumpLoad, DropLoad, ObituaryOnce, LiveCountInv, TypeOK, Attached
<1>2. ASSUME NEW c \in Conns, BumpCas(c) PROVE ObituaryOnce'
  BY <1>2 DEF BumpCas, ObituaryOnce, LiveCountInv, TypeOK, Attached
<1>3. ASSUME NEW c \in Conns, DropCas(c) PROVE ObituaryOnce'
  BY <1>3 DEF DropCas, ObituaryOnce, LiveCountInv, TypeOK, Attached
<1>4. ASSUME NEW c \in Conns, SendObituaries(c) PROVE ObituaryOnce'
  <2>1. obits = 0 /\ obits' = 1 /\ word' = word
    BY <1>4 DEF SendObituaries, ObituaryOnce
  <2>2. Closing = {c} /\ word.tag = "Dying" /\ Attached = {}
    BY <1>4, Zenon DEF SendObituaries, Closing, LiveCountInv, TypeOK, Words
  <2>3. Attached' = {}
    BY <1>4, <2>2, Zenon DEF SendObituaries, Attached, TypeOK
  <2>4. \A d \in Conns : stage'[d] # "last"
    BY <1>4, <2>2, Zenon DEF SendObituaries, Closing, TypeOK
  <2>5. QED
    BY <2>1, <2>2, <2>3, <2>4 DEF ObituaryOnce
<1>5. ASSUME NEW c \in Conns, MarkDead(c) PROVE ObituaryOnce'
  <2>1. Closing = {c} /\ obits = 1 /\ word.tag = "Dying" /\ Attached = {}
    BY <1>5, Zenon DEF MarkDead, Closing, ObituaryOnce, LiveCountInv, TypeOK, Words
  <2>2. Attached' = {} /\ obits' = 1 /\ \A d \in Conns : stage'[d] \notin {"last", "fired"}
    BY <1>5, <2>1, Zenon DEF MarkDead, Attached, Closing, TypeOK
  <2>3. word'.tag # "Live"
    BY <1>5, <2>1, Zenon DEF MarkDead
  <2>4. QED
    BY <2>2, <2>3 DEF ObituaryOnce
<1>6. CASE UNCHANGED vars
  BY <1>6, Zenon DEF vars, ObituaryOnce, Attached
<1>7. QED
  BY <1>1, <1>2, <1>3, <1>4, <1>5, <1>6, Zenon DEF Next, Step, AllLeft

\* No step attaches to a session that left Live.
LEMMA RevivesNot ==
    ASSUME TypeOK, LiveCountInv, Next, word.tag # "Live"
    PROVE  word'.tag # "Live" /\ Attached' \subseteq Attached
<1> USE DEF ToStage, ReadWord, Live, Dying, Dead
<1>1. ASSUME NEW c \in Conns, Step(c) PROVE word'.tag # "Live" /\ Attached' \subseteq Attached
  BY <1>1 DEF Step, BumpLoad, BumpCas, DropLoad, DropCas, SendObituaries, MarkDead,
              Attached, LiveCountInv, TypeOK
<1>2. CASE AllLeft
  BY <1>2, Zenon DEF AllLeft, vars, Attached
<1>3. QED
  BY <1>1, <1>2, Zenon DEF Next

\* No connection is refused by drop_connection.
Welcome == \A c \in Conns : stage[c] # "refused"

\* The worker that marks the session dead finds it Dying.
LEMMA ContractFrom == ASSUME TypeOK, LiveCountInv, Welcome PROVE ContractKept
<1> SUFFICES ASSUME NEW c \in Conns, stage[c] = "fired" PROVE word = Dying
  BY Zenon DEF ContractKept, Welcome
<1>1. c \in Closing
  BY Zenon DEF Closing
<1>2. word.tag = "Dying" /\ word.n = 0
  BY <1>1, Zenon DEF LiveCountInv, TypeOK, Words
<1>3. QED
  BY <1>2, Zenon DEF TypeOK, Words, Dying

\* drop_connection is only entered while the session is Live.
LEMMA WelcomeStep ==
    ASSUME TypeOK, LiveCountInv, Welcome, [Next]_vars
    PROVE  Welcome'
<1> USE DEF Welcome
<1>1. \A c \in Attached : word.tag = "Live"
  BY Zenon DEF LiveCountInv
<1>2. ASSUME NEW c \in Conns, Step(c) PROVE \A d \in Conns : stage'[d] # "refused"
  <2>1. c \in Attached \/ ~(DropLoad(c) \/ DropCas(c))
    BY Zenon DEF Attached, DropLoad, DropCas
  <2>2. CASE DropLoad(c) \/ DropCas(c)
    BY <1>1, <2>1, <2>2, Zenon DEF DropLoad, DropCas, ReadWord, ToStage, TypeOK
  <2>3. CASE BumpLoad(c) \/ BumpCas(c) \/ SendObituaries(c) \/ MarkDead(c)
    BY <2>3, Zenon DEF BumpLoad, BumpCas, SendObituaries, MarkDead, ReadWord, ToStage, TypeOK
  <2>4. QED
    BY <1>2, <2>2, <2>3, Zenon DEF Step
<1>3. CASE UNCHANGED vars
  BY <1>3, Zenon DEF vars
<1>4. QED
  BY <1>2, <1>3, Zenon DEF Next, AllLeft

-----------------------------------------------------------------------------
(* ConnPool *)

GuardSet == [slot : Ids, reentrant : BOOLEAN]

\* The guards of a thread that drives slot s: the first owns it, the nested
\* ones re-enter it.
Stack(g, s) ==
    /\ g \in Seq(GuardSet) /\ Len(g) > 0
    /\ \A i \in 1 .. Len(g) : g[i].slot = s /\ (g[i].reentrant <=> i # 1)

InCall(t) ==
    \/ pc[t] \in {"hold", "send", "poisoned"}
    \/ pc[t] = "notify" /\ then[t] = "poisoned"

Shape == \A t \in Threads :
    \/ ~InCall(t) /\ guards[t] = <<>> /\ driving[t] = <<>>
    \/ InCall(t) /\ \E s \in Ids : driving[t] = <<s>> /\ Stack(guards[t], s)

Owned ==
    /\ \A t \in Threads, s \in Ids : driving[t] = <<s>> => s < nextId /\ (s \in slots => excl[s] = t)
    /\ \A s \in slots : s < nextId /\ (excl[s] # NoThread => driving[excl[s]] = <<s>>)
    /\ \A t, u \in Threads : t # u /\ driving[t] # <<>> => driving[t] # driving[u]

Core ==
    /\ slots \subseteq Ids /\ nextId \in Nat
    /\ excl \in [Ids -> Threads \cup {NoThread}]
    /\ driving \in [Threads -> Seq(Ids)]
    /\ guards \in [Threads -> Seq(GuardSet)]
    /\ pc \in [Threads -> Labels] /\ then \in [Threads -> Labels]
    /\ Shape /\ Owned

Afters == {"idle", "pin", "exit", "poisoned", "done"}

Control ==
    /\ \A t \in Threads :
        /\ pc[t] = "wait" => then[t] = "find" \/ (then[t] = "pin" /\ t \in Workers)
        /\ pc[t] = "notify" => then[t] \in Afters
        /\ pc[t] = "scan" <=> lock = t
    /\ lock # NoThread => slots # {}

Rest ==
    /\ lock \in Threads \cup {NoThread}
    /\ live \in Int
    /\ mine \in [Workers -> Ids \cup {0}]
    /\ closed \subseteq Ids /\ queue \in Int /\ left \in [Threads -> Int]

IInv == Core /\ Rest /\ Control /\ NoLostWakeup

-----------------------------------------------------------------------------
(* Stacks of guards *)

\* What pushing a guard does to a stack of guards.
LEMMA AppendFacts ==
    \A g \in Seq(GuardSet), x \in GuardSet :
        /\ Append(g, x) \in Seq(GuardSet)
        /\ Len(Append(g, x)) = Len(g) + 1
        /\ \A i \in 1 .. Len(g) : Append(g, x)[i] = g[i]
        /\ Append(g, x)[Len(g) + 1] = x
OBVIOUS

\* What popping one does.
LEMMA FrontFacts ==
    \A g \in Seq(GuardSet) : Len(g) > 0 =>
        /\ Front(g) \in Seq(GuardSet)
        /\ Len(Front(g)) = Len(g) - 1
        /\ \A i \in 1 .. Len(g) - 1 : Front(g)[i] = g[i]
<1>1. \A g \in Seq(GuardSet), n \in Nat : n <= Len(g) =>
        /\ SubSeq(g, 1, Len(g) - n) \in Seq(GuardSet)
        /\ Len(SubSeq(g, 1, Len(g) - n)) = Len(g) - n
        /\ \A i \in 1 .. Len(g) - n : SubSeq(g, 1, Len(g) - n)[i] = g[i]
  OBVIOUS
<1>2. \A n \in Nat : n > 0 => 1 <= n OBVIOUS
<1>3. \A g \in Seq(GuardSet) : Len(g) \in Nat OBVIOUS
<1> QED BY <1>1, <1>2, <1>3, Zenon DEF Front

\* A stack is empty when it has no guard.
LEMMA EmptyFacts == \A g \in Seq(GuardSet) : Len(g) \in Nat /\ (g = <<>> <=> Len(g) = 0)
OBVIOUS

\* The guards that the actions make have their type.
LEMMA GuardType == \A s \in Ids : Guard(s, TRUE) \in GuardSet /\ Guard(s, FALSE) \in GuardSet
BY Zenon DEF Guard, GuardSet

\* A thread that drives one slot has one marker on its DRIVING stack.
LEMMA OneMarker == \A s \in Ids :
    /\ Append(<<>>, s) = <<s>> /\ <<s>> # <<>> /\ <<s>> \in Seq(Ids)
    /\ Last(<<s>>) = s /\ Front(<<s>>) = <<>>
    /\ \A r \in Ids : <<r>> = <<s>> => r = s
BY DEF Last, Front

\* The stack of a thread that claims its first slot.
LEMMA StackOne ==
    ASSUME NEW s \in Ids
    PROVE  Append(<<>>, Guard(s, FALSE)) \in Seq(GuardSet) /\ Stack(Append(<<>>, Guard(s, FALSE)), s)
<1>1. <<>> \in Seq(GuardSet) /\ Len(<<>>) = 0 OBVIOUS
<1>2. PICK g : g = Append(<<>>, Guard(s, FALSE)) BY Zenon
<1>3. g \in Seq(GuardSet) /\ Len(g) = 1 /\ g[1] = Guard(s, FALSE)
  <2>1. g \in Seq(GuardSet) /\ Len(g) = 0 + 1 /\ g[0 + 1] = Guard(s, FALSE)
    BY <1>1, <1>2, AppendFacts, GuardType, Zenon
  <2>2. 0 + 1 = 1 OBVIOUS
  <2> QED BY <2>1, <2>2, Zenon
<1>4. \A i \in 1 .. Len(g) : i = 1 BY <1>3
<1>5. Stack(g, s) BY <1>3, <1>4 DEF Stack, Guard
<1> QED BY <1>2, <1>3, <1>5, Zenon

\* A nested guard goes on top.
LEMMA StackPush ==
    ASSUME NEW s \in Ids, NEW g, Stack(g, s)
    PROVE  Append(g, Guard(s, TRUE)) \in Seq(GuardSet) /\ Stack(Append(g, Guard(s, TRUE)), s)
<1>1. g \in Seq(GuardSet) /\ Len(g) \in Nat /\ Len(g) > 0 BY EmptyFacts, Zenon DEF Stack
<1>2. PICK h : h = Append(g, Guard(s, TRUE)) BY Zenon
<1>3. PICK n \in Nat : n = Len(g) /\ n > 0 BY <1>1, Zenon
<1>4. /\ h \in Seq(GuardSet) /\ Len(h) = n + 1 /\ h[n + 1] = Guard(s, TRUE)
      /\ \A i \in 1 .. n : h[i] = g[i]
  BY <1>1, <1>2, <1>3, AppendFacts, GuardType, Zenon
<1>5. ASSUME NEW i \in 1 .. Len(h) PROVE h[i].slot = s /\ (h[i].reentrant <=> i # 1)
  <2>1. CASE i = n + 1
    <3>1. h[i].slot = s /\ h[i].reentrant = TRUE BY <2>1, <1>4 DEF Guard
    <3>2. i # 1 BY <2>1, <1>3
    <3> QED BY <3>1, <3>2, Zenon
  <2>2. CASE i # n + 1
    <3>1. i \in 1 .. n BY <2>2, <1>4, <1>3
    <3> QED BY <3>1, <1>3, <1>4, Zenon DEF Stack
  <2> QED BY <2>1, <2>2, Zenon
<1>6. Stack(h, s) BY <1>3, <1>4, <1>5 DEF Stack
<1> QED BY <1>2, <1>4, <1>6, Zenon

\* The top guard goes.
LEMMA StackPop ==
    ASSUME NEW s \in Ids, NEW g, Stack(g, s), Last(g).reentrant
    PROVE  Front(g) \in Seq(GuardSet) /\ Stack(Front(g), s)
<1>1. PICK n \in Nat : n = Len(g) /\ n > 0 BY EmptyFacts, Zenon DEF Stack
<1>2. n \in 1 .. Len(g) /\ Last(g) = g[n] BY <1>1 DEF Last
<1>3. n # 1 BY <1>2, Zenon DEF Stack
<1>4. PICK h : h = Front(g) BY Zenon
<1>5. /\ h \in Seq(GuardSet) /\ Len(h) = n - 1
      /\ \A i \in 1 .. n - 1 : h[i] = g[i]
  BY <1>1, <1>4, FrontFacts, Zenon DEF Stack
<1>6. n - 1 > 0 /\ \A i \in 1 .. n - 1 : i \in 1 .. n BY <1>1, <1>3
<1>7. \A i \in 1 .. n - 1 : g[i].slot = s /\ (g[i].reentrant <=> i # 1) BY <1>1, <1>6, Zenon DEF Stack
<1>8. Stack(h, s) BY <1>5, <1>6, <1>7, Zenon DEF Stack
<1> QED BY <1>4, <1>5, <1>8, Zenon

\* A guard on top that is not reentrant is the only one.
LEMMA StackBase ==
    ASSUME NEW s \in Ids, NEW g, Stack(g, s), ~Last(g).reentrant
    PROVE  Front(g) = <<>> /\ Last(g).slot = s
<1>1. PICK n \in Nat : n = Len(g) /\ n > 0 BY EmptyFacts, Zenon DEF Stack
<1>2. n \in 1 .. Len(g) /\ Last(g) = g[n] BY <1>1 DEF Last
<1>3. n = 1 /\ Last(g).slot = s BY <1>2, Zenon DEF Stack
<1>4. Front(g) \in Seq(GuardSet) /\ Len(Front(g)) = 1 - 1 BY <1>1, <1>3, FrontFacts, ZenonT(60) DEF Stack
<1>5. 1 - 1 = 0 OBVIOUS
<1> QED BY <1>3, <1>4, <1>5, EmptyFacts, Zenon

\* A stack names one slot only.
LEMMA StackUses ==
    ASSUME NEW s \in Ids, NEW g, Stack(g, s)
    PROVE  {g[i].slot : i \in DOMAIN g} = {s}
<1>1. DOMAIN g = 1 .. Len(g) /\ 1 \in 1 .. Len(g) BY EmptyFacts DEF Stack
<1> QED BY <1>1, Zenon DEF Stack

-----------------------------------------------------------------------------
(* What the building blocks of the actions preserve *)

\* A thread claims a free slot.
LEMMA ClaimStep ==
    ASSUME Core, NEW t \in Threads, NEW s \in slots, excl[s] \in {NoThread, t}, ~InCall(t),
           NEW to \in {"hold", "send"}, Claim(t, s, to)
    PROVE  Core'
<1>1. s \in Ids /\ guards[t] = <<>> /\ driving[t] = <<>> BY Zenon DEF Core, Shape
<1>2. excl[s] = NoThread BY <1>1, OneMarker, PoolAssumption, ZenonT(60) DEF Core, Owned
<1>3. /\ driving' = [driving EXCEPT ![t] = <<s>>]
      /\ guards' = [guards EXCEPT ![t] = Append(<<>>, Guard(s, FALSE))]
      /\ excl' = [excl EXCEPT ![s] = t]
      /\ pc' = [pc EXCEPT ![t] = to] /\ then' = then /\ slots' = slots /\ nextId' = nextId
  BY <1>1, OneMarker, Zenon DEF Claim, Core, Goto
<1>4. /\ driving' \in [Threads -> Seq(Ids)] /\ guards' \in [Threads -> Seq(GuardSet)]
      /\ excl' \in [Ids -> Threads \cup {NoThread}] /\ pc' \in [Threads -> Labels]
  BY <1>1, <1>3, OneMarker, StackOne, Zenon DEF Core, Labels
<1>5. Shape'
  <2> SUFFICES ASSUME NEW u \in Threads
               PROVE  \/ ~InCall(u)' /\ guards'[u] = <<>> /\ driving'[u] = <<>>
                      \/ InCall(u)' /\ \E r \in Ids : driving'[u] = <<r>> /\ Stack(guards'[u], r)
    BY Zenon DEF Shape
  <2>1. CASE u = t
    <3>1. InCall(u)' BY <2>1, <1>3, Zenon DEF InCall, Core
    <3>2. driving'[u] = <<s>> /\ Stack(guards'[u], s) BY <2>1, <1>1, <1>3, StackOne, Zenon DEF Core
    <3> QED BY <3>1, <3>2, <1>1, Zenon
  <2>2. CASE u # t
    <3>1. guards'[u] = guards[u] /\ driving'[u] = driving[u] /\ (InCall(u)' <=> InCall(u))
      BY <2>2, <1>3, Zenon DEF InCall, Core
    <3> QED BY <3>1, Zenon DEF Core, Shape
  <2> QED BY <2>1, <2>2, Zenon
<1>6. Owned'
  <2>1. \A u \in Threads : u # t => driving'[u] = driving[u] BY <1>3, Zenon DEF Core
  <2>2. driving'[t] = <<s>> BY <1>3, Zenon DEF Core
  <2>3. \A r \in Ids : r # s => excl'[r] = excl[r] BY <1>3, Zenon DEF Core
  <2>4. excl'[s] = t BY <1>1, <1>3, Zenon DEF Core
  <2>5. \A u \in Threads : driving[u] # <<s>> BY <1>1, <1>2, PoolAssumption, ZenonT(60) DEF Core, Owned
  <2>6. \A u \in Threads, r \in Ids : driving'[u] = <<r>> => r < nextId' /\ (r \in slots' => excl'[r] = u)
    <3> SUFFICES ASSUME NEW u \in Threads, NEW r \in Ids, driving'[u] = <<r>>
                 PROVE  r < nextId /\ (r \in slots => excl'[r] = u)
      BY <1>3, Zenon
    <3>1. CASE u = t BY <3>1, <2>2, <2>4, <1>1, OneMarker DEF Core, Owned
    <3>2. CASE u # t
      <4>1. driving[u] = <<r>> /\ r # s BY <3>2, <2>1, <2>5, Zenon
      <4> QED BY <4>1, <2>3, Zenon DEF Core, Owned
    <3> QED BY <3>1, <3>2, Zenon
  <2>7. \A r \in slots' : r < nextId' /\ (excl'[r] # NoThread => driving'[excl'[r]] = <<r>>)
    <3> SUFFICES ASSUME NEW r \in slots
                 PROVE  r < nextId /\ (excl'[r] # NoThread => driving'[excl'[r]] = <<r>>)
      BY <1>3, Zenon
    <3>1. CASE r = s BY <3>1, <2>2, <2>4, Zenon DEF Core, Owned
    <3>2. CASE r # s
      <4>1. r \in Ids /\ excl'[r] = excl[r] /\ r < nextId BY <3>2, <2>3, Zenon DEF Core, Owned
      <4>2. ASSUME excl[r] # NoThread PROVE driving'[excl[r]] = <<r>>
        <5>1. excl[r] \in Threads /\ driving[excl[r]] = <<r>> BY <4>1, <4>2 DEF Core, Owned
        <5>2. excl[r] # t BY <5>1, <1>1, <4>1, OneMarker, Zenon
        <5> QED BY <5>1, <5>2, <2>1, Zenon
      <4> QED BY <4>1, <4>2, Zenon
    <3> QED BY <3>1, <3>2, Zenon
  <2>8. \A u, v \in Threads : u # v /\ driving'[u] # <<>> => driving'[u] # driving'[v]
    BY <2>1, <2>2, <2>5, Zenon DEF Core, Owned
  <2> QED BY <2>6, <2>7, <2>8, Zenon DEF Owned
<1> QED BY <1>3, <1>4, <1>5, <1>6, Zenon DEF Core

\* A thread gives its slot back.
LEMMA ReleaseStep ==
    ASSUME Core, NEW t \in Threads, InCall(t), NEW to \in Afters \ {"poisoned"}, Release(t, to)
    PROVE  /\ Core'
           /\ slots' = slots /\ lock' = lock /\ lock = NoThread
           /\ pc' = [pc EXCEPT ![t] = "notify"] /\ then' = [then EXCEPT ![t] = to]
<1>1. PICK s \in Ids : driving[t] = <<s>> /\ Stack(guards[t], s) BY Zenon DEF Core, Shape
<1>2. ~Last(guards[t]).reentrant BY Zenon DEF Release
<1>3. Front(guards[t]) = <<>> /\ Last(guards[t]).slot = s BY <1>1, <1>2, StackBase, Zenon
<1>4. /\ driving' = [driving EXCEPT ![t] = <<>>]
      /\ guards' = [guards EXCEPT ![t] = <<>>]
      /\ excl' = [excl EXCEPT ![s] = IF s \in slots THEN NoThread ELSE excl[s]]
      /\ pc' = [pc EXCEPT ![t] = "notify"] /\ then' = [then EXCEPT ![t] = to]
      /\ slots' = slots /\ nextId' = nextId /\ lock' = lock /\ lock = NoThread
  BY <1>1, <1>3, OneMarker, Zenon DEF Release, Core, GotoThen, Unlocked
<1>5. <<>> \in Seq(Ids) /\ <<>> \in Seq(GuardSet) OBVIOUS
<1>6. /\ driving' \in [Threads -> Seq(Ids)] /\ guards' \in [Threads -> Seq(GuardSet)]
      /\ pc' \in [Threads -> Labels] /\ then' \in [Threads -> Labels]
  BY <1>4, <1>5, Zenon DEF Core, Labels, Afters
<1>7. excl' \in [Ids -> Threads \cup {NoThread}] BY <1>4, Zenon DEF Core
<1>8. Shape'
  <2> SUFFICES ASSUME NEW u \in Threads
               PROVE  \/ ~InCall(u)' /\ guards'[u] = <<>> /\ driving'[u] = <<>>
                      \/ InCall(u)' /\ \E r \in Ids : driving'[u] = <<r>> /\ Stack(guards'[u], r)
    BY Zenon DEF Shape
  <2>1. CASE u = t
    <3>1. ~InCall(u)' BY <2>1, <1>4, Zenon DEF InCall, Core, Afters
    <3> QED BY <3>1, <2>1, <1>4, Zenon DEF Core
  <2>2. CASE u # t
    <3>1. guards'[u] = guards[u] /\ driving'[u] = driving[u] /\ (InCall(u)' <=> InCall(u))
      BY <2>2, <1>4, Zenon DEF InCall, Core
    <3> QED BY <3>1, Zenon DEF Core, Shape
  <2> QED BY <2>1, <2>2, Zenon
<1>9. Owned'
  <2>1. \A u \in Threads : u # t => driving'[u] = driving[u] BY <1>4, Zenon DEF Core
  <2>2. driving'[t] = <<>> BY <1>4, Zenon DEF Core
  <2>3. \A r \in Ids : r # s => excl'[r] = excl[r] BY <1>4, Zenon DEF Core
  <2>4. s \in slots => excl'[s] = NoThread BY <1>1, <1>4, Zenon DEF Core
  <2>5. \A u \in Threads : u # t => driving[u] # <<s>> BY <1>1, OneMarker, ZenonT(60) DEF Core, Owned
  <2>6. \A u \in Threads, r \in Ids : driving'[u] = <<r>> => r < nextId' /\ (r \in slots' => excl'[r] = u)
    <3> SUFFICES ASSUME NEW u \in Threads, NEW r \in Ids, driving'[u] = <<r>>
                 PROVE  r < nextId /\ (r \in slots => excl'[r] = u)
      BY <1>4, Zenon
    <3>1. u # t BY <2>2, OneMarker, Zenon
    <3>2. driving[u] = <<r>> /\ r # s BY <3>1, <2>1, <2>5, Zenon
    <3> QED BY <3>2, <2>3, Zenon DEF Core, Owned
  <2>7. \A r \in slots' : r < nextId' /\ (excl'[r] # NoThread => driving'[excl'[r]] = <<r>>)
    <3> SUFFICES ASSUME NEW r \in slots
                 PROVE  r < nextId /\ (excl'[r] # NoThread => driving'[excl'[r]] = <<r>>)
      BY <1>4, Zenon
    <3>1. CASE r = s BY <3>1, <2>4, Zenon DEF Core, Owned
    <3>2. CASE r # s
      <4>1. r \in Ids /\ excl'[r] = excl[r] /\ r < nextId BY <3>2, <2>3, Zenon DEF Core, Owned
      <4>2. ASSUME excl[r] # NoThread PROVE driving'[excl[r]] = <<r>>
        <5>1. excl[r] \in Threads /\ driving[excl[r]] = <<r>> BY <4>1, <4>2 DEF Core, Owned
        <5>2. excl[r] # t BY <5>1, <1>1, <4>1, <3>2, OneMarker, Zenon
        <5> QED BY <5>1, <5>2, <2>1, Zenon
      <4> QED BY <4>1, <4>2, Zenon
    <3> QED BY <3>1, <3>2, Zenon
  <2>8. \A u, v \in Threads : u # v /\ driving'[u] # <<>> => driving'[u] # driving'[v]
    BY <2>1, <2>2, ZenonT(60) DEF Core, Owned
  <2> QED BY <2>6, <2>7, <2>8, Zenon DEF Owned
<1> QED BY <1>4, <1>6, <1>7, <1>8, <1>9, Zenon DEF Core

\* Nothing is taken or given back, and slots at most leave the pool.
LEMMA QuietStep ==
    ASSUME Core, slots' \subseteq slots, UNCHANGED <<nextId, excl, mark>>,
           pc' \in [Threads -> Labels], then' \in [Threads -> Labels],
           \A t \in Threads : InCall(t)' <=> InCall(t)
    PROVE  Core'
<1>1. nextId' = nextId /\ excl' = excl /\ driving' = driving /\ guards' = guards BY Zenon DEF mark
<1>2. Shape' BY <1>1, Zenon DEF Core, Shape
<1>3. Owned' BY <1>1 DEF Core, Owned
<1> QED BY <1>1, <1>2, <1>3, Zenon DEF Core

\* A slot joins the pool.
LEMMA AddStep ==
    ASSUME Core, nextId \in Ids, AddSlot, UNCHANGED mark,
           pc' \in [Threads -> Labels], then' \in [Threads -> Labels],
           \A t \in Threads : InCall(t)' <=> InCall(t)
    PROVE  Core'
<1>1. /\ nextId' = nextId + 1 /\ slots' = slots \cup {nextId} /\ driving' = driving /\ guards' = guards
      /\ excl' = [excl EXCEPT ![nextId] = NoThread]
  BY Zenon DEF mark, AddSlot
<1>2. Shape' BY <1>1, Zenon DEF Core, Shape
<1>3. \A n \in Nat, i \in Ids : i < n => i < n + 1 /\ i # n BY PoolAssumption DEF Ids
<1>4. nextId \in Nat /\ nextId < nextId + 1 /\ nextId + 1 \in Nat BY DEF Core
<1>5. excl' \in [Ids -> Threads \cup {NoThread}] BY <1>1, Zenon DEF Core
<1>6. Owned'
  <2>1. \A r \in Ids : r # nextId => excl'[r] = excl[r] BY <1>1, Zenon DEF Core
  <2>2. excl'[nextId] = NoThread BY <1>1, Zenon DEF Core
  <2>3. \A t \in Threads, s \in Ids : driving'[t] = <<s>> => s < nextId' /\ (s \in slots' => excl'[s] = t)
    <3> SUFFICES ASSUME NEW t \in Threads, NEW s \in Ids, driving[t] = <<s>>
                 PROVE  s < nextId' /\ (s \in slots' => excl'[s] = t)
      BY <1>1, Zenon
    <3>1. s < nextId /\ (s \in slots => excl[s] = t) BY Zenon DEF Core, Owned
    <3>2. s < nextId' /\ s # nextId BY <3>1, <1>1, <1>3, <1>4, Zenon
    <3> QED BY <3>1, <3>2, <2>1, <1>1, Zenon
  <2>4. \A s \in slots' : s < nextId' /\ (excl'[s] # NoThread => driving'[excl'[s]] = <<s>>)
    <3> SUFFICES ASSUME NEW s \in slots'
                 PROVE  s < nextId' /\ (excl'[s] # NoThread => driving'[excl'[s]] = <<s>>)
      BY Zenon
    <3>1. CASE s = nextId BY <3>1, <2>2, <1>1, <1>4, Zenon
    <3>2. CASE s # nextId
      <4>1. s \in slots /\ s \in Ids /\ s < nextId BY <3>2, <1>1, Zenon DEF Core, Owned
      <4>2. s < nextId' BY <4>1, <1>1, <1>3, <1>4, Zenon
      <4> QED BY <4>1, <4>2, <3>2, <2>1, <1>1, Zenon DEF Core, Owned
    <3> QED BY <3>1, <3>2, Zenon
  <2> QED BY <2>3, <2>4, <1>1, Zenon DEF Core, Owned
<1> QED BY <1>1, <1>2, <1>4, <1>5, <1>6, Zenon DEF Core

\* A nested call re-enters the slot its thread drives.
LEMMA NestStep ==
    ASSUME Core, NEW t \in Threads, Nest(t)
    PROVE  Core'
<1>1. InCall(t) /\ UNCHANGED <<slots, nextId, excl, driving, pc, then>> BY Zenon DEF Nest, InCall, pool
<1>2. PICK s \in Ids : driving[t] = <<s>> /\ Stack(guards[t], s) BY <1>1, Zenon DEF Core, Shape
<1>3. guards' = [guards EXCEPT ![t] = Append(guards[t], Guard(s, TRUE))] BY <1>2, OneMarker, Zenon DEF Nest
<1>4. guards' \in [Threads -> Seq(GuardSet)] BY <1>2, <1>3, StackPush, Zenon DEF Core
<1>5. Stack(guards'[t], s) BY <1>2, <1>3, StackPush, Zenon DEF Core
<1>6. \A u \in Threads : u # t => guards'[u] = guards[u] BY <1>3, Zenon DEF Core
<1>7. \A u \in Threads : InCall(u)' <=> InCall(u) BY <1>1, Zenon DEF InCall
<1>8. Shape' BY <1>1, <1>2, <1>5, <1>6, <1>7, Zenon DEF Core, Shape
<1>9. Owned' BY <1>1, Zenon DEF Core, Owned
<1> QED BY <1>1, <1>4, <1>8, <1>9, Zenon DEF Core

\* A nested call returns.
LEMMA UnnestStep ==
    ASSUME Core, NEW t \in Threads, Unnest(t)
    PROVE  Core'
<1>1. InCall(t) /\ UNCHANGED <<slots, nextId, excl, driving, pc, then>> BY Zenon DEF Unnest, InCall, pool
<1>2. PICK s \in Ids : driving[t] = <<s>> /\ Stack(guards[t], s) BY <1>1 DEF Core, Shape
<1>3. guards' = [guards EXCEPT ![t] = Front(guards[t])] /\ Last(guards[t]).reentrant BY Zenon DEF Unnest
<1>4. guards' \in [Threads -> Seq(GuardSet)] BY <1>2, <1>3, StackPop, Zenon DEF Core
<1>5. Stack(guards'[t], s) BY <1>2, <1>3, StackPop, Zenon DEF Core
<1>6. \A u \in Threads : u # t => guards'[u] = guards[u] BY <1>3, Zenon DEF Core
<1>7. \A u \in Threads : InCall(u)' <=> InCall(u) BY <1>1 DEF InCall
<1>8. Shape' BY <1>1, <1>2, <1>5, <1>6, <1>7 DEF Core, Shape
<1>9. Owned' BY <1>1 DEF Core, Owned
<1> QED BY <1>1, <1>4, <1>8, <1>9 DEF Core

\* A step that wakes everybody afterwards.
LEMMA WakesStep ==
    ASSUME NEW t \in Threads, pc \in [Threads -> Labels], pc' = [pc EXCEPT ![t] = "notify"]
    PROVE  NoLostWakeup'
BY Zenon DEF NoLostWakeup

\* A step of t that frees no slot, and does not put t to sleep.
LEMMA BusyStep ==
    ASSUME Core, NoLostWakeup, NEW t \in Threads, pc[t] # "notify", NEW to \in Labels \ {"wait"},
           pc' = [pc EXCEPT ![t] = to] \/ pc' = pc,
           \A u \in Threads : pc[u] = "wait" => then'[u] = then[u] /\ mine'[u] = mine[u],
           slots' = slots, \A s \in slots : excl[s] # NoThread => excl'[s] # NoThread
    PROVE  NoLostWakeup'
<1> SUFFICES ASSUME NEW u \in Threads, pc'[u] = "wait"
             PROVE  \/ \E v \in Threads : pc'[v] = "notify"
                    \/ then'[u] = "find" /\ slots' # {} /\ Free' = {}
                    \/ then'[u] = "pin" /\ mine'[u] \in slots' /\ excl'[mine'[u]] # NoThread
  BY Zenon DEF NoLostWakeup
<1>1. pc[u] = "wait" /\ then'[u] = then[u] /\ mine'[u] = mine[u] BY Zenon DEF Core
<1>2. \A v \in Threads : pc[v] = "notify" => pc'[v] = "notify" BY Zenon DEF Core
<1>3. Free = {} => Free' = {} BY Zenon DEF Free
<1> QED BY <1>1, <1>2, <1>3, Zenon DEF NoLostWakeup

\* A thread goes from one place outside a call to another.
LEMMA MoveStep ==
    ASSUME Core, Control, NoLostWakeup, NEW t \in Threads,
           pc[t] \in {"idle", "find", "try", "pin", "exit", "out", "callback"},
           NEW to \in {"idle", "find", "try", "exit", "remove", "add", "callback", "done"},
           Goto(t, to), UNCHANGED <<slots, nextId, excl, lock, mark, mine>>
    PROVE  Core' /\ Control' /\ NoLostWakeup'
<1>1. pc' = [pc EXCEPT ![t] = to] /\ then' = then /\ slots' = slots /\ excl' = excl /\ lock' = lock /\ mine' = mine
  BY Zenon DEF Goto
<1>2. \A u \in Threads : u # t => pc'[u] = pc[u] BY <1>1, Zenon DEF Core
<1>3. pc'[t] = to BY <1>1, Zenon DEF Core
<1>4. pc' \in [Threads -> Labels] BY <1>1, Zenon DEF Core, Labels
<1>5. \A u \in Threads : InCall(u)' <=> InCall(u) BY <1>1, <1>2, <1>3, Zenon DEF InCall
<1>6. Core' BY <1>1, <1>4, <1>5, QuietStep, Zenon DEF Core
<1>7. Control' BY <1>1, <1>2, <1>3 DEF Control
<1>8. NoLostWakeup' BY <1>1, BusyStep, Zenon DEF Labels
<1> QED BY <1>6, <1>7, <1>8, Zenon

\* A thread sets out to wake the others; the pool may have changed.
LEMMA NotifyStep ==
    ASSUME Core, Control, NEW t \in Threads, pc[t] # "scan", lock = NoThread, NEW to \in Afters,
           GotoThen(t, "notify", to), UNCHANGED lock
    PROVE  Control' /\ NoLostWakeup' /\ pc' \in [Threads -> Labels] /\ then' \in [Threads -> Labels]
<1>1. pc' = [pc EXCEPT ![t] = "notify"] /\ then' = [then EXCEPT ![t] = to] /\ lock' = NoThread BY Zenon DEF GotoThen
<1>2. \A u \in Threads : u # t => pc'[u] = pc[u] /\ then'[u] = then[u] BY <1>1, Zenon DEF Core
<1>3. pc'[t] = "notify" /\ then'[t] = to BY <1>1, Zenon DEF Core
<1>4. Control' BY <1>1, <1>2, <1>3 DEF Control
<1> QED BY <1>1, <1>4, WakesStep, Zenon DEF Core, Labels, Afters

\* A thread that gets a slot keeps the control invariants.
LEMMA ClaimedStep ==
    ASSUME Core, Control, NoLostWakeup, NEW t \in Threads, pc[t] \in {"scan", "pin", "try"},
           NEW s \in slots, excl[s] \in {NoThread, t}, NEW to \in {"hold", "send"}, Claim(t, s, to),
           lock' = NoThread, lock \in {NoThread, t}, UNCHANGED mine
    PROVE  Core' /\ Control' /\ NoLostWakeup'
<1>1. ~InCall(t) BY Zenon DEF InCall
<1>2. Core' BY <1>1, ClaimStep, Zenon
<1>3. /\ pc' = [pc EXCEPT ![t] = to] /\ then' = then /\ slots' = slots
      /\ excl' = [excl EXCEPT ![s] = t] /\ mine' = mine
  BY Zenon DEF Claim, Goto
<1>4. \A r \in slots : excl[r] # NoThread => excl'[r] # NoThread BY <1>3, PoolAssumption, Zenon DEF Core
<1>5. NoLostWakeup' BY <1>3, <1>4, BusyStep, Zenon DEF Labels
<1>6. \A u \in Threads : u # t => pc'[u] = pc[u] BY <1>3, Zenon DEF Core
<1>7. pc'[t] = to BY <1>3, Zenon DEF Core
<1>8. Control' BY <1>3, <1>6, <1>7, PoolAssumption, Zenon DEF Control
<1> QED BY <1>2, <1>5, <1>8, Zenon

\* A thread goes to sleep where no slot can serve it.
LEMMA SleepStep ==
    ASSUME Core, Control, NoLostWakeup, NEW t \in Threads, pc[t] \in {"scan", "pin"},
           NEW to, GotoThen(t, "wait", to), UNCHANGED <<slots, nextId, excl, mark, mine>>,
           \/ to = "find" /\ slots # {} /\ Free = {}
           \/ to = "pin" /\ t \in Workers /\ mine[t] \in slots /\ excl[mine[t]] # NoThread,
           lock' = NoThread, lock \in {NoThread, t}
    PROVE  Core' /\ Control' /\ NoLostWakeup'
<1>1. /\ pc' = [pc EXCEPT ![t] = "wait"] /\ then' = [then EXCEPT ![t] = to]
      /\ slots' = slots /\ excl' = excl /\ mine' = mine /\ Free' = Free
  BY Zenon DEF GotoThen, Free
<1>2. \A u \in Threads : u # t => pc'[u] = pc[u] /\ then'[u] = then[u] BY <1>1, Zenon DEF Core
<1>3. pc'[t] = "wait" /\ then'[t] = to BY <1>1, Zenon DEF Core
<1>4. pc' \in [Threads -> Labels] /\ then' \in [Threads -> Labels] BY <1>1, Zenon DEF Core, Labels
<1>5. \A u \in Threads : InCall(u)' <=> InCall(u) BY <1>2, <1>3, Zenon DEF InCall
<1>6. Core' BY <1>1, <1>4, <1>5, QuietStep, Zenon DEF Core
<1>7. Control' BY <1>1, <1>2, <1>3, PoolAssumption DEF Control
<1>8. NoLostWakeup'
  <2> SUFFICES ASSUME NEW u \in Threads, pc'[u] = "wait"
               PROVE  \/ \E v \in Threads : pc'[v] = "notify"
                      \/ then'[u] = "find" /\ slots' # {} /\ Free' = {}
                      \/ then'[u] = "pin" /\ mine'[u] \in slots' /\ excl'[mine'[u]] # NoThread
    BY Zenon DEF NoLostWakeup
  <2>1. CASE u = t BY <2>1, <1>1, <1>3, Zenon
  <2>2. CASE u # t
    <3>1. \A v \in Threads : pc[v] = "notify" => pc'[v] = "notify" BY <1>2, Zenon
    <3> QED BY <2>2, <3>1, <1>1, <1>2, Zenon DEF NoLostWakeup
  <2> QED BY <2>1, <2>2, Zenon
<1> QED BY <1>6, <1>7, <1>8, Zenon

-----------------------------------------------------------------------------
(* The inductive invariant *)

\* The invariant holds in the pool of a new session.
LEMMA InitInv == PoolInit => IInv
<1> SUFFICES ASSUME PoolInit PROVE IInv BY Zenon
<1>1. 1 \in Ids /\ <<>> \in Seq(Ids) /\ <<>> \in Seq(GuardSet) /\ 1 < 2 BY PoolAssumption DEF Ids
<1>2. \A t \in Threads : pc[t] \in {"pin", "out", "idle"} /\ then[t] = "idle" /\ guards[t] = <<>> /\ driving[t] = <<>>
  BY Zenon DEF PoolInit
<1>3. Shape BY <1>2, Zenon DEF Shape, InCall
<1>4. Owned BY <1>1, <1>2, OneMarker, Zenon DEF Owned, PoolInit
<1>5. pc \in [Threads -> Labels] /\ then \in [Threads -> Labels] BY Zenon DEF PoolInit, Labels
<1>6. Core BY <1>1, <1>3, <1>4, <1>5, Zenon DEF Core, PoolInit
<1>7. Rest BY <1>1, PoolAssumption DEF Rest, PoolInit, Threads
<1>8. Control BY <1>2, PoolAssumption, Zenon DEF Control, PoolInit
<1>9. NoLostWakeup BY <1>2, Zenon DEF NoLostWakeup
<1> QED BY <1>6, <1>7, <1>8, <1>9, Zenon DEF IInv

\* Finding a slot, nesting and waking.
LEMMA FindSteps ==
    ASSUME IInv, NEW t \in Threads
    PROVE  /\ FindEnter(t) => IInv'
           /\ FindScan(t) => IInv'
           /\ Notify(t) => IInv'
           /\ Nest(t) => IInv'
           /\ NestRetired(t) => IInv'
           /\ Unnest(t) => IInv'
<1> USE DEF IInv
<1>1. ASSUME FindEnter(t) PROVE IInv'
  <2>1. pc[t] = "find" /\ lock = NoThread /\ UNCHANGED <<slots, nextId, excl, driving, guards, live, mine, closed, queue, left>>
    BY <1>1, Zenon DEF FindEnter, Unlocked, pool, mark, env
  <2>2. CASE Goto(t, "idle") /\ UNCHANGED lock
    <3>1. Core' /\ Control' /\ NoLostWakeup' BY <2>1, <2>2, MoveStep, Zenon DEF mark
    <3> QED BY <3>1, <2>1, <2>2, Zenon DEF Rest
  <2>3. CASE slots # {} /\ lock' = t /\ Goto(t, "scan")
    <3>1. pc' = [pc EXCEPT ![t] = "scan"] /\ then' = then BY <2>3, Zenon DEF Goto
    <3>2. \A u \in Threads : u # t => pc'[u] = pc[u] BY <3>1, Zenon DEF Core
    <3>3. pc'[t] = "scan" BY <3>1, Zenon DEF Core
    <3>4. pc' \in [Threads -> Labels] BY <3>1, Zenon DEF Core, Labels
    <3>5. \A u \in Threads : InCall(u)' <=> InCall(u) BY <2>1, <3>1, <3>2, <3>3, Zenon DEF InCall
    <3>6. Core' BY <2>1, <3>1, <3>4, <3>5, QuietStep, Zenon DEF Core, mark
    <3>7. Control' BY <2>1, <2>3, <3>1, <3>2, <3>3, PoolAssumption, Zenon DEF Control
    <3>8. NoLostWakeup' BY <2>1, <3>1, BusyStep, Zenon DEF Labels
    <3>9. Rest' BY <2>1, <2>3, Zenon DEF Rest
    <3> QED BY <3>6, <3>7, <3>8, <3>9, Zenon
  <2> QED BY <1>1, <2>2, <2>3, Zenon DEF FindEnter
<1>2. ASSUME FindScan(t) PROVE IInv'
  <2>1. pc[t] = "scan" /\ lock = t /\ lock' = NoThread /\ UNCHANGED <<live, mine, closed, queue, left>>
    BY <1>2, Zenon DEF FindScan, env
  <2>2. Rest' BY <2>1, Zenon DEF Rest
  <2>3. CASE \E s \in Ids : FirstOf(Usable(t), s) /\ Claim(t, s, IF t = Reaper THEN "send" ELSE "hold")
    <3>1. PICK s \in Ids : FirstOf(Usable(t), s) /\ Claim(t, s, IF t = Reaper THEN "send" ELSE "hold")
      BY <2>3, Zenon
    <3>2. PICK to \in {"hold", "send"} : to = IF t = Reaper THEN "send" ELSE "hold" BY Zenon
    <3>3. s \in slots /\ excl[s] \in {NoThread, t} BY <3>1, Zenon DEF FirstOf, Usable
    <3>4. Claim(t, s, to) BY <3>1, <3>2, Zenon
    <3> QED BY <2>1, <2>2, <3>3, <3>4, ClaimedStep, Zenon
  <2>4. CASE Usable(t) = {} /\ GotoThen(t, "wait", "find") /\ UNCHANGED <<pool, mark>>
    <3>1. Free = {} BY <2>4, Zenon DEF Free, Usable
    <3>2. slots # {} BY <2>1, PoolAssumption, Zenon DEF Control
    <3>3. UNCHANGED <<slots, nextId, excl, mark, mine>> BY <2>4, <2>1, Zenon DEF pool
    <3>4. Core' /\ Control' /\ NoLostWakeup' BY <2>1, <2>4, <3>1, <3>2, <3>3, SleepStep, Zenon
    <3> QED BY <3>4, <2>2, Zenon
  <2> QED BY <1>2, <2>3, <2>4, Zenon DEF FindScan
<1>3. ASSUME Notify(t) PROVE IInv'
  <2>1. UNCHANGED <<slots, nextId, excl, lock, driving, guards, live, then, mine, closed, queue, left>>
    BY <1>3, Zenon DEF Notify, pool, mark, env
  <2>2. pc[t] = "notify" /\ pc' = [u \in Threads |-> IF u = t \/ pc[u] = "wait" THEN then[u] ELSE pc[u]]
    BY <1>3, Zenon DEF Notify
  <2>3. pc' \in [Threads -> Labels] BY <2>2, Zenon DEF Core
  <2>4. \A u \in Threads : pc'[u] = IF u = t \/ pc[u] = "wait" THEN then[u] ELSE pc[u] BY <2>2, Zenon
  <2>5. \A u \in Threads : InCall(u)' <=> InCall(u) BY <2>1, <2>2, <2>4, Zenon DEF InCall, Control, Afters
  <2>6. Core' BY <2>1, <2>3, <2>5, QuietStep, Zenon DEF Core, mark
  <2>7. \A u \in Threads : pc'[u] # "wait" BY <2>2, <2>4, Zenon DEF Control, Afters
  <2>8. Control' BY <2>1, <2>2, <2>4, <2>7, Zenon DEF Control, Afters
  <2>9. NoLostWakeup' BY <2>7, Zenon DEF NoLostWakeup
  <2> QED BY <2>1, <2>6, <2>8, <2>9, Zenon DEF Rest
<1>4. ASSUME Nest(t) PROVE IInv'
  <2>1. UNCHANGED <<slots, excl, lock, live, pc, then, mine, closed, queue>> /\ pc[t] = "hold"
    BY <1>4, Zenon DEF Nest, pool, Spend
  <2>2. left' \in [Threads -> Int] BY <1>4 DEF Nest, Spend, Rest
  <2>3. Core' BY <1>4, NestStep, Zenon
  <2>4. Control' /\ Rest' BY <2>1, <2>2, Zenon DEF Control, Rest
  <2>5. NoLostWakeup' BY <2>1, Zenon DEF NoLostWakeup, Free
  <2> QED BY <2>3, <2>4, <2>5, Zenon
<1>5. ASSUME NestRetired(t) PROVE IInv'
  <2>1. UNCHANGED <<slots, nextId, excl, driving, guards, lock, live, pc, then, mine, closed>>
    BY <1>5, Zenon DEF NestRetired, pool, mark
  <2>2. left' \in [Threads -> Int] /\ queue' \in Int BY <1>5 DEF NestRetired, Rest
  <2>3. \A u \in Threads : InCall(u)' <=> InCall(u) BY <2>1, Zenon DEF InCall
  <2>4. Core' BY <2>1, <2>3, QuietStep, Zenon DEF Core, mark
  <2>5. Control' /\ Rest' BY <2>1, <2>2, Zenon DEF Control, Rest
  <2>6. NoLostWakeup' BY <2>1, Zenon DEF NoLostWakeup, Free
  <2> QED BY <2>4, <2>5, <2>6
<1>6. ASSUME Unnest(t) PROVE IInv'
  <2>1. UNCHANGED <<slots, excl, lock, live, pc, then, mine, closed, queue, left>>
    BY <1>6, Zenon DEF Unnest, pool, env
  <2>2. Core' BY <1>6, UnnestStep
  <2>3. Control' /\ Rest' BY <2>1, Zenon DEF Control, Rest
  <2>4. NoLostWakeup' BY <2>1, Zenon DEF NoLostWakeup, Free
  <2> QED BY <2>2, <2>3, <2>4
<1> QED BY <1>1, <1>2, <1>3, <1>4, <1>5, <1>6, Zenon

\* Giving a slot back, from whatever call.
LEMMA ReleasedStep ==
    ASSUME IInv, NEW t \in Threads, pc[t] \in {"hold", "send", "poisoned"},
           NEW to \in Afters \ {"poisoned"}, Release(t, to)
    PROVE  Core' /\ Control' /\ NoLostWakeup' /\ UNCHANGED <<lock, live>>
<1>1. InCall(t) BY Zenon DEF InCall
<1>2. /\ Core' /\ slots' = slots /\ lock' = lock /\ lock = NoThread
      /\ pc' = [pc EXCEPT ![t] = "notify"] /\ then' = [then EXCEPT ![t] = to]
  BY <1>1, ReleaseStep, Zenon DEF IInv
<1>3. Control' /\ NoLostWakeup' BY <1>2, NotifyStep, Zenon DEF IInv, GotoThen
<1> QED BY <1>2, <1>3, Zenon DEF Release

\* What callers and the reaper do besides finding a slot.
LEMMA CallerSteps ==
    ASSUME IInv, NEW t \in Threads
    PROVE  /\ StartCall(t) => IInv'
           /\ StartDrop(t) => IInv'
           /\ TryFind(t) => IInv'
           /\ EndCall(t) => IInv'
           /\ Poison(t) => IInv'
           /\ DropPoisoned(t) => IInv'
           /\ Reap => IInv'
<1> USE DEF IInv
<1>1. ASSUME Spend(t) PROVE left' \in [Threads -> Int] /\ UNCHANGED <<mine, closed, queue>>
  BY <1>1 DEF Spend, Rest
<1>2. ASSUME StartCall(t) PROVE IInv'
  <2>1. pc[t] = "idle" /\ Goto(t, "find") /\ UNCHANGED <<slots, nextId, excl, lock, mark, live>> /\ Spend(t)
    BY <1>2, Zenon DEF StartCall, pool
  <2>2. Core' /\ Control' /\ NoLostWakeup' BY <2>1, <1>1, MoveStep, Zenon
  <2> QED BY <2>1, <2>2, <1>1, Zenon DEF Rest
<1>3. ASSUME StartDrop(t) PROVE IInv'
  <2>1. pc[t] = "idle" /\ Goto(t, "try") /\ UNCHANGED <<slots, nextId, excl, lock, mark, live>> /\ Spend(t)
    BY <1>3, Zenon DEF StartDrop, pool
  <2>2. Core' /\ Control' /\ NoLostWakeup' BY <2>1, <1>1, MoveStep, Zenon
  <2> QED BY <2>1, <2>2, <1>1, Zenon DEF Rest
<1>4. ASSUME TryFind(t) PROVE IInv'
  <2>1. pc[t] = "try" /\ lock = NoThread /\ UNCHANGED <<lock, live>> BY <1>4, Zenon DEF TryFind, Unlocked
  <2>2. CASE (\E s \in Ids : FirstOf(Free, s) /\ Claim(t, s, "send")) /\ UNCHANGED env
    <3>1. PICK s \in Ids : FirstOf(Free, s) /\ Claim(t, s, "send") BY <2>2, Zenon
    <3>2. s \in slots /\ excl[s] \in {NoThread, t} BY <3>1, Zenon DEF FirstOf, Free
    <3>3. UNCHANGED <<mine, closed, queue, left>> BY <2>2, Zenon DEF env
    <3>4. Core' /\ Control' /\ NoLostWakeup' BY <2>1, <3>1, <3>2, <3>3, ClaimedStep, Zenon
    <3> QED BY <2>1, <3>3, <3>4, Zenon DEF Rest
  <2>3. CASE Free = {} /\ queue' = queue + 1 /\ Goto(t, "idle") /\ UNCHANGED <<pool, mark, mine, closed, left>>
    <3>1. UNCHANGED <<slots, nextId, excl, mark, mine, closed, left>> BY <2>3, Zenon DEF pool
    <3>2. Core' /\ Control' /\ NoLostWakeup' BY <2>1, <2>3, <3>1, MoveStep, Zenon
    <3> QED BY <2>1, <2>3, <3>1, <3>2 DEF Rest
  <2> QED BY <1>4, <2>2, <2>3, Zenon DEF TryFind
<1>5. ASSUME EndCall(t) \/ DropPoisoned(t) PROVE IInv'
  <2>1. pc[t] \in {"hold", "send", "poisoned"} /\ Release(t, "idle") /\ UNCHANGED <<mine, closed, queue, left>>
    BY <1>5, Zenon DEF EndCall, DropPoisoned, env
  <2>2. Core' /\ Control' /\ NoLostWakeup' /\ UNCHANGED <<lock, live>> BY <2>1, ReleasedStep, Zenon DEF Afters
  <2> QED BY <2>1, <2>2, Zenon DEF Rest
<1>6. ASSUME Poison(t) PROVE IInv'
  <2>1. /\ pc[t] = "hold" /\ lock = NoThread /\ GotoThen(t, "notify", "poisoned")
        /\ slots' \subseteq slots /\ UNCHANGED <<nextId, excl, mark, lock, live, mine, closed, queue, left>>
    BY <1>6, Zenon DEF Poison, Unlocked, RemoveSlot, env
  <2>2. Control' /\ NoLostWakeup' /\ pc' \in [Threads -> Labels] /\ then' \in [Threads -> Labels]
    BY <2>1, NotifyStep, Zenon DEF Afters
  <2>3. pc' = [pc EXCEPT ![t] = "notify"] /\ then' = [then EXCEPT ![t] = "poisoned"] BY <2>1, Zenon DEF GotoThen
  <2>4. \A u \in Threads : InCall(u)' <=> InCall(u) BY <2>1, <2>3, Zenon DEF InCall, Core
  <2>5. Core' BY <2>1, <2>2, <2>4, QuietStep, Zenon
  <2> QED BY <2>1, <2>2, <2>5, Zenon DEF Rest
<1>7. ASSUME Reap PROVE IInv'
  <2>1. /\ pc[Reaper] = "idle" /\ queue' = queue - 1
        /\ UNCHANGED <<slots, nextId, excl, lock, mark, live, mine, closed, left>>
    BY <1>7, Zenon DEF Reap, pool
  <2>2. PICK to \in {"idle", "find"} : Goto(Reaper, to) BY <1>7, Zenon DEF Reap
  <2>3. Core' /\ Control' /\ NoLostWakeup' BY <2>1, <2>2, MoveStep, Zenon DEF Threads
  <2> QED BY <2>1, <2>3 DEF Rest
<1> QED BY <1>2, <1>3, <1>4, <1>5, <1>6, <1>7, Zenon

\* A step of a worker that changes the pool and then wakes everybody.
LEMMA PoolChange ==
    ASSUME IInv, NEW w \in Workers, pc[w] \in {"add", "callback", "remove"}, lock = NoThread,
           NEW to \in {"pin", "done"}, GotoThen(w, "notify", to), UNCHANGED <<lock, mark>>,
           \/ nextId \in Ids /\ AddSlot
           \/ slots' \subseteq slots /\ UNCHANGED <<nextId, excl>>
    PROVE  Core' /\ Control' /\ NoLostWakeup'
<1>1. w \in Threads BY Zenon DEF Threads
<1>2. Control' /\ NoLostWakeup' /\ pc' \in [Threads -> Labels] /\ then' \in [Threads -> Labels]
  BY <1>1, NotifyStep, Zenon DEF Afters, IInv
<1>3. pc' = [pc EXCEPT ![w] = "notify"] /\ then' = [then EXCEPT ![w] = to] BY Zenon DEF GotoThen
<1>4. \A u \in Threads : InCall(u)' <=> InCall(u) BY <1>1, <1>3, Zenon DEF InCall, Core, IInv
<1>5. Core' BY <1>2, <1>4, QuietStep, AddStep, Zenon DEF IInv
<1> QED BY <1>2, <1>5, Zenon

\* The steps of the workers keep the invariant.
LEMMA WorkerSteps ==
    ASSUME IInv, NEW w \in Workers
    PROVE  /\ PinSlot(w) => IInv'
           /\ Attach(w) => IInv'
           /\ Gate(w) => IInv'
           /\ AddIncoming(w) => IInv'
           /\ AddCallback(w) => IInv'
           /\ ServeOne(w) => IInv'
           /\ ServeLoopEnds(w) => IInv'
           /\ DropConnection(w) => IInv'
           /\ Retire(w) => IInv'
<1> USE DEF IInv
<1>1. w \in Threads BY Zenon DEF Threads
<1>2. ASSUME PinSlot(w) PROVE IInv'
  <2>1. pc[w] = "pin" /\ lock = NoThread /\ UNCHANGED <<lock, live, mine, closed, queue, left>>
    BY <1>2, Zenon DEF PinSlot, Unlocked, env
  <2>2. Rest' BY <2>1, Zenon DEF Rest
  <2>3. CASE Goto(w, "exit") /\ UNCHANGED <<pool, mark>>
    BY <2>1, <2>2, <2>3, <1>1, MoveStep, Zenon DEF pool
  <2>4. CASE mine[w] \in slots /\ excl[mine[w]] \in {NoThread, w} /\ Claim(w, mine[w], "hold")
    BY <2>1, <2>2, <2>4, <1>1, ClaimedStep, Zenon
  <2>5. CASE /\ mine[w] \in slots /\ excl[mine[w]] \notin {NoThread, w}
             /\ GotoThen(w, "wait", "pin") /\ UNCHANGED <<pool, mark>>
    <3>1. UNCHANGED <<slots, nextId, excl, mark, mine>> BY <2>5, <2>1, Zenon DEF pool
    <3>2. Core' /\ Control' /\ NoLostWakeup' BY <2>1, <2>5, <3>1, <1>1, SleepStep, Zenon
    <3> QED BY <3>2, <2>2, Zenon
  <2> QED BY <1>2, <2>3, <2>4, <2>5, Zenon DEF PinSlot
<1>3. ASSUME Attach(w) PROVE IInv'
  <2>1. /\ pc[w] = "out" /\ UNCHANGED <<slots, nextId, excl, lock, mark, mine, closed, queue, left>>
        /\ live' \in Int
    BY <1>3 DEF Attach, pool, env, Rest
  <2>2. PICK to \in {"done", "add"} : Goto(w, to) BY <1>3, Zenon DEF Attach
  <2>3. Core' /\ Control' /\ NoLostWakeup' BY <2>1, <2>2, <1>1, MoveStep, Zenon
  <2> QED BY <2>1, <2>3, Zenon DEF Rest
<1>4. ASSUME Gate(w) PROVE IInv'
  <2>1. pc[w] = "out" /\ UNCHANGED <<slots, nextId, excl, lock, mark, live, mine, closed, queue, left>>
    BY <1>4, Zenon DEF Gate, pool, env
  <2>2. PICK to \in {"done", "callback"} : Goto(w, to) BY <1>4, Zenon DEF Gate
  <2>3. Core' /\ Control' /\ NoLostWakeup' BY <2>1, <2>2, <1>1, MoveStep, Zenon
  <2> QED BY <2>1, <2>3, Zenon DEF Rest
<1>5. ASSUME AddIncoming(w) PROVE IInv'
  <2>1. /\ pc[w] = "add" /\ lock = NoThread /\ nextId \in Ids /\ AddSlot /\ GotoThen(w, "notify", "pin")
        /\ UNCHANGED <<lock, mark, live, closed, queue, left>>
    BY <1>5, Zenon DEF AddIncoming, Unlocked
  <2>2. mine' \in [Workers -> Ids \cup {0}] BY <1>5, <2>1, Zenon DEF AddIncoming, Rest
  <2>3. Core' /\ Control' /\ NoLostWakeup' BY <2>1, PoolChange, Zenon
  <2> QED BY <2>1, <2>2, <2>3, Zenon DEF Rest
<1>6. ASSUME AddCallback(w) PROVE IInv'
  <2>1. /\ pc[w] = "callback" /\ lock = NoThread /\ nextId \in Ids
        /\ UNCHANGED <<lock, mark, live, mine, closed, queue, left>>
    BY <1>6, Zenon DEF AddCallback, Unlocked, env
  <2>2. Rest' BY <2>1, Zenon DEF Rest
  <2>3. CASE AddSlot /\ GotoThen(w, "notify", "done") BY <2>1, <2>2, <2>3, PoolChange, Zenon
  <2>4. CASE Goto(w, "done") /\ UNCHANGED pool BY <2>1, <2>2, <2>4, <1>1, MoveStep, Zenon DEF pool
  <2> QED BY <1>6, <2>3, <2>4, Zenon DEF AddCallback
<1>7. ASSUME ServeOne(w) PROVE IInv'
  <2>1. pc[w] = "hold" /\ Release(w, "pin") /\ UNCHANGED <<mine, closed, queue>> /\ left' \in [Threads -> Int]
    <3>1. pc[w] = "hold" /\ Release(w, "pin") /\ Spend(w) BY <1>7, Zenon DEF ServeOne
    <3>2. left' \in [Threads -> Int] /\ UNCHANGED <<mine, closed, queue>> BY <3>1, <1>1 DEF Spend, Rest
    <3> QED BY <3>1, <3>2, Zenon
  <2>2. Core' /\ Control' /\ NoLostWakeup' /\ UNCHANGED <<lock, live>> BY <2>1, <1>1, ReleasedStep, Zenon DEF Afters
  <2> QED BY <2>1, <2>2, Zenon DEF Rest
<1>8. ASSUME ServeLoopEnds(w) PROVE IInv'
  <2>1. pc[w] = "hold" /\ Release(w, "exit") /\ UNCHANGED <<mine, closed, queue, left>>
    BY <1>8, Zenon DEF ServeLoopEnds, env
  <2>2. Core' /\ Control' /\ NoLostWakeup' /\ UNCHANGED <<lock, live>> BY <2>1, <1>1, ReleasedStep, Zenon DEF Afters
  <2> QED BY <2>1, <2>2, Zenon DEF Rest
<1>9. ASSUME DropConnection(w) PROVE IInv'
  <2>1. /\ pc[w] = "exit" /\ UNCHANGED <<slots, nextId, excl, lock, mark, mine, closed, queue, left>>
        /\ live' \in Int /\ Goto(w, "remove")
    BY <1>9 DEF DropConnection, pool, env, Rest
  <2>2. Core' /\ Control' /\ NoLostWakeup' BY <2>1, <1>1, MoveStep, Zenon
  <2> QED BY <2>1, <2>2, Zenon DEF Rest
<1>10. ASSUME Retire(w) PROVE IInv'
  <2>1. /\ pc[w] = "remove" /\ lock = NoThread /\ slots' \subseteq slots /\ UNCHANGED <<nextId, excl>>
        /\ GotoThen(w, "notify", "done") /\ UNCHANGED <<lock, mark, live, mine, closed, queue, left>>
    BY <1>10, Zenon DEF Retire, Unlocked, RemoveSlot, env
  <2>2. Core' /\ Control' /\ NoLostWakeup' BY <2>1, PoolChange, Zenon
  <2> QED BY <2>1, <2>2, Zenon DEF Rest
<1> QED BY <1>2, <1>3, <1>4, <1>5, <1>6, <1>7, <1>8, <1>9, <1>10, Zenon

\* Every step of the pool keeps the inductive invariant.
LEMMA NextInv == IInv /\ [PoolNext]_poolVars => IInv'
<1> SUFFICES ASSUME IInv, [PoolNext]_poolVars PROVE IInv' OBVIOUS
<1>1. Callers \subseteq Threads /\ Workers \subseteq Threads /\ Reaper \in Threads BY Zenon DEF Threads
<1>2. ASSUME NEW c \in Callers, StartCall(c) \/ StartDrop(c) \/ CallerStep(c) PROVE IInv'
  BY <1>1, <1>2, FindSteps, CallerSteps, Zenon DEF CallerStep, Find
<1>3. ASSUME ReaperStep PROVE IInv'
  BY <1>1, <1>3, FindSteps, CallerSteps, Zenon DEF ReaperStep, Find
<1>4. ASSUME NEW w \in Workers, Attach(w) \/ Gate(w) \/ WorkerStep(w) PROVE IInv'
  BY <1>1, <1>4, FindSteps, WorkerSteps, Zenon DEF WorkerStep
<1>5. ASSUME NEW t \in Threads, Nest(t) \/ NestRetired(t) \/ Unnest(t) PROVE IInv'
  BY <1>5, FindSteps, Zenon
<1>6. ASSUME NEW s \in Ids, Close(s) PROVE IInv'
  <2>1. /\ UNCHANGED <<slots, nextId, excl, lock, driving, guards, live, pc, then, mine, queue, left>>
        /\ closed' = closed \cup {s}
    BY <1>6, Zenon DEF Close, pool, mark
  <2>2. \A u \in Threads : InCall(u)' <=> InCall(u) BY <2>1, Zenon DEF InCall
  <2>3. Core' BY <2>1, <2>2, QuietStep, Zenon DEF Core, mark, IInv
  <2>4. Control' /\ Rest' BY <2>1, Zenon DEF Control, Rest, IInv
  <2>5. NoLostWakeup' BY <2>1, Zenon DEF NoLostWakeup, Free, IInv
  <2> QED BY <2>3, <2>4, <2>5, Zenon DEF IInv
<1>7. ASSUME UNCHANGED poolVars PROVE IInv'
  <2>1. Core'
    <3>1. Shape' BY <1>7, Zenon DEF poolVars, IInv, Core, Shape, InCall
    <3>2. Owned' BY <1>7, Zenon DEF poolVars, IInv, Core, Owned
    <3> QED BY <1>7, <3>1, <3>2, Zenon DEF poolVars, IInv, Core
  <2>2. Control' /\ Rest' BY <1>7, Zenon DEF poolVars, IInv, Control, Rest
  <2>3. NoLostWakeup' BY <1>7, Zenon DEF poolVars, IInv, NoLostWakeup, Free
  <2> QED BY <2>1, <2>2, <2>3, Zenon DEF IInv
<1> QED BY <1>2, <1>3, <1>4, <1>5, <1>6, <1>7, Zenon DEF PoolNext, Settled

\* The invariant holds in every reachable state.
LEMMA InvAlways == PoolSpec => []IInv
BY InitInv, NextInv, PTL DEF PoolSpec

-----------------------------------------------------------------------------
\* Every variable keeps its type.
THEOREM TypeCorrect == PoolSpec => []PoolTypeOK
<1>1. IInv => PoolTypeOK BY Zenon DEF IInv, Core, Rest, PoolTypeOK, GuardSet
<1> QED BY <1>1, InvAlways, PTL

\* No two threads ever use one connection, for any number of callers, workers,
\* slots and nested calls (find_conn, try_find_conn, find_conn_pinned and the
\* drop of ConnGuard against remove_slot).
THEOREM ExclusiveUse == PoolSpec => []Exclusive
<1>1. IInv => Exclusive
  <2> SUFFICES ASSUME IInv PROVE Exclusive BY Zenon
  <2>1. \A t \in Threads : driving[t] = <<>> => Uses(t) = {}
    <3>1. \A t \in Threads : driving[t] = <<>> => guards[t] = <<>>
      BY OneMarker, Zenon DEF IInv, Core, Shape
    <3>2. DOMAIN <<>> = {} OBVIOUS
    <3> QED BY <3>1, <3>2, Zenon DEF Uses
  <2>2. \A t \in Threads, s \in Ids : driving[t] = <<s>> => Uses(t) = {s}
    <3> SUFFICES ASSUME NEW t \in Threads, NEW s \in Ids, driving[t] = <<s>> PROVE Uses(t) = {s} BY Zenon
    <3>1. PICK r \in Ids : driving[t] = <<r>> /\ Stack(guards[t], r) BY OneMarker, Zenon DEF IInv, Core, Shape
    <3>2. r = s BY <3>1, OneMarker, Zenon
    <3> QED BY <3>1, <3>2, StackUses DEF Uses
  <2>3. \A t \in Threads : driving[t] = <<>> \/ \E s \in Ids : driving[t] = <<s>> BY Zenon DEF IInv, Core, Shape
  <2>4. ASSUME NEW t \in Threads, NEW u \in Threads, t # u PROVE Uses(t) \cap Uses(u) = {}
    <3>1. CASE driving[t] = <<>> \/ driving[u] = <<>> BY <3>1, <2>1, Zenon
    <3>2. CASE driving[t] # <<>> /\ driving[u] # <<>>
      <4>1. PICK s \in Ids : driving[t] = <<s>> BY <3>2, <2>3, Zenon
      <4>2. PICK r \in Ids : driving[u] = <<r>> BY <3>2, <2>3, Zenon
      <4>3. driving[t] # driving[u] BY <3>2, <2>4, Zenon DEF IInv, Core, Owned
      <4>4. s # r BY <4>1, <4>2, <4>3, Zenon
      <4> QED BY <4>1, <4>2, <4>4, <2>2
    <3> QED BY <3>1, <3>2, Zenon
  <2>5. ASSUME NEW s \in slots, excl[s] # NoThread PROVE Uses(excl[s]) = {s}
    <3>1. s \in Ids /\ excl[s] \in Threads /\ driving[excl[s]] = <<s>> BY <2>5, Zenon DEF IInv, Core, Owned
    <3> QED BY <3>1, <2>2, Zenon
  <2> QED BY <2>4, <2>5, Zenon DEF Exclusive
<1> QED BY <1>1, InvAlways, PTL

\* No wakeup of slot_cv is lost, for any number of waiting threads.
THEOREM WakeupsKept == PoolSpec => []NoLostWakeup
<1>1. IInv => NoLostWakeup BY Zenon DEF IInv
<1> QED BY <1>1, InvAlways, PTL

-----------------------------------------------------------------------------
(* The cap *)

\* A worker serves a slot that was numbered before it.
MineOld == \A w \in Workers : mine[w] < nextId

\* It holds before the first worker.
LEMMA MineOldInit == PoolInit => MineOld
BY DEF PoolInit, MineOld

\* Only add_incoming_slot and add_callback_slot number a slot.
LEMMA Numbering ==
    ASSUME PoolNext
    PROVE  \/ UNCHANGED <<mine, nextId>> /\ slots' \subseteq slots
           \/ \E w \in Workers : AddIncoming(w)
           \/ \E w \in Workers : AddCallback(w)
<1> DEFINE Q == UNCHANGED <<mine, nextId>> /\ slots' \subseteq slots
<1>1. ASSUME NEW t, Find(t) PROVE Q
  <2>1. CASE FindEnter(t) BY <2>1, Zenon DEF FindEnter, pool, env
  <2>2. CASE FindScan(t) BY <2>2, Zenon DEF FindScan, Claim, pool, env
  <2>3. CASE Notify(t) BY <2>3, Zenon DEF Notify, pool, env
  <2> QED BY <1>1, <2>1, <2>2, <2>3, Zenon DEF Find
<1>2. ASSUME NEW t, EndCall(t) PROVE Q BY <1>2, Zenon DEF EndCall, Release, env
<1>3. ASSUME NEW c \in Callers, StartCall(c) \/ StartDrop(c) PROVE Q
  BY <1>3, Zenon DEF StartCall, StartDrop, Spend, pool
<1>4. ASSUME NEW c \in Callers, CallerStep(c) PROVE Q
  <2>1. CASE TryFind(c) BY <2>1, Zenon DEF TryFind, Claim, pool, env
  <2>2. CASE Poison(c) BY <2>2, Zenon DEF Poison, RemoveSlot, env
  <2>3. CASE DropPoisoned(c) BY <2>3, Zenon DEF DropPoisoned, Release, env
  <2> QED BY <1>4, <1>1, <1>2, <2>1, <2>2, <2>3, Zenon DEF CallerStep
<1>5. ASSUME ReaperStep PROVE Q
  <2>1. CASE Reap BY <2>1, Zenon DEF Reap, pool
  <2> QED BY <1>5, <1>1, <1>2, <2>1, Zenon DEF ReaperStep
<1>6. ASSUME NEW w \in Workers, Attach(w) \/ Gate(w) PROVE Q
  BY <1>6, Zenon DEF Attach, Gate, pool, env
<1>7. ASSUME NEW w \in Workers, WorkerStep(w) PROVE Q \/ AddIncoming(w) \/ AddCallback(w)
  <2>1. CASE PinSlot(w) BY <2>1, Zenon DEF PinSlot, Claim, pool, env
  <2>2. CASE Notify(w) BY <2>2, <1>1, Zenon DEF Find
  <2>3. CASE ServeOne(w) BY <2>3, Zenon DEF ServeOne, Release, Spend
  <2>4. CASE ServeLoopEnds(w) BY <2>4, Zenon DEF ServeLoopEnds, Release, env
  <2>5. CASE DropConnection(w) BY <2>5, Zenon DEF DropConnection, pool, env
  <2>6. CASE Retire(w) BY <2>6, Zenon DEF Retire, RemoveSlot, env
  <2> QED BY <1>7, <2>1, <2>2, <2>3, <2>4, <2>5, <2>6, Zenon DEF WorkerStep
<1>8. ASSUME NEW t \in Threads, Nest(t) \/ NestRetired(t) \/ Unnest(t) PROVE Q
  BY <1>8, Zenon DEF Nest, NestRetired, Unnest, Spend, pool, env
<1>9. ASSUME NEW s \in Ids, Close(s) PROVE Q BY <1>9, Zenon DEF Close, pool
<1>10. ASSUME Settled PROVE Q BY <1>10, Zenon DEF Settled, poolVars
<1> HIDE DEF Q
<1>11. Q \/ (\E w \in Workers : AddIncoming(w)) \/ (\E w \in Workers : AddCallback(w))
  BY <1>3, <1>4, <1>5, <1>6, <1>7, <1>8, <1>9, <1>10, Zenon DEF PoolNext
<1> QED BY <1>11, Zenon DEF Q

\* A worker is given the number of a slot as it is numbered.
LEMMA MineOldNext == IInv /\ MineOld /\ [PoolNext]_poolVars => MineOld'
<1> SUFFICES ASSUME IInv, MineOld, [PoolNext]_poolVars PROVE MineOld' BY Zenon
<1>1. nextId \in Nat /\ mine \in [Workers -> Ids \cup {0}] BY Zenon DEF IInv, Core, Rest
<1>2. \A w \in Workers : mine[w] \in Int BY <1>1, PoolAssumption DEF Ids
<1>3. CASE UNCHANGED <<mine, nextId>> BY <1>3, Zenon DEF MineOld
<1>4. ASSUME NEW w \in Workers, AddIncoming(w) PROVE MineOld'
  <2>1. nextId' = nextId + 1 /\ mine' = [mine EXCEPT ![w] = nextId] BY <1>4, Zenon DEF AddIncoming, AddSlot
  <2> QED BY <2>1, <1>1, <1>2 DEF MineOld
<1>5. ASSUME NEW w \in Workers, AddCallback(w) PROVE MineOld'
  <2>1. mine' = mine /\ nextId' \in {nextId, nextId + 1} BY <1>5, Zenon DEF AddCallback, AddSlot, pool, env
  <2> QED BY <2>1, <1>1, <1>2 DEF MineOld
<1>6. CASE UNCHANGED poolVars BY <1>6, <1>3, Zenon DEF poolVars
<1> QED BY <1>3, <1>4, <1>5, <1>6, Numbering, Zenon

INSTANCE FiniteSetTheorems

\* add_slot_inner_capped keeps the cap, for any number of connections that attach
\* at once: whatever grows the pool past it is an incoming connection.
THEOREM CapRespected == PoolSpec => CapHeld
<1> DEFINE Within == Cardinality(slots') > Cardinality(slots) /\ mine' = mine => Cardinality(slots') <= SlotCap
<1>1. IInv /\ MineOld /\ [PoolNext]_poolVars => [Within]_poolVars
  <2> SUFFICES ASSUME IInv, MineOld, PoolNext PROVE Within BY Zenon
  <2>1. nextId \in Nat /\ mine \in [Workers -> Ids \cup {0}] /\ slots \subseteq Ids BY Zenon DEF IInv, Core, Rest
  <2>2. IsFiniteSet(slots) /\ Cardinality(slots) \in Nat
    <3>1. IsFiniteSet(Ids) BY FS_Interval, PoolAssumption DEF Ids
    <3> QED BY <3>1, <2>1, FS_Subset, FS_CardinalityType, Zenon
  <2>3. CASE slots' \subseteq slots
    <3>1. IsFiniteSet(slots') /\ Cardinality(slots') <= Cardinality(slots) BY <2>2, <2>3, FS_Subset, Zenon
    <3>2. Cardinality(slots') \in Nat BY <3>1, FS_CardinalityType, Zenon
    <3> QED BY <2>2, <3>1, <3>2
  <2>4. ASSUME NEW w \in Workers, AddIncoming(w) PROVE mine' # mine
    <3>1. mine'[w] = nextId BY <2>4, <2>1, Zenon DEF AddIncoming
    <3>2. mine[w] < nextId BY Zenon DEF MineOld
    <3> QED BY <3>1, <3>2, <2>1
  <2>5. ASSUME NEW w \in Workers, AddCallback(w) PROVE Within
    <3>1. CASE slots' = slots BY <3>1, <2>3, Zenon
    <3>2. CASE slots' = slots \cup {nextId} /\ Cardinality(slots) < SlotCap
      <4>1. Cardinality(slots \cup {nextId})
              = IF nextId \in slots THEN Cardinality(slots) ELSE Cardinality(slots) + 1
        BY <2>2, FS_AddElement, Zenon
      <4>2. Cardinality(slots') \in {Cardinality(slots), Cardinality(slots) + 1} BY <3>2, <4>1, Zenon
      <4> QED BY <3>2, <4>2, <2>2, PoolAssumption
    <3> QED BY <2>5, <3>1, <3>2, Zenon DEF AddCallback, AddSlot, pool
  <2> QED BY <2>3, <2>4, <2>5, Numbering, Zenon
<1>2. PoolSpec => []MineOld
  BY MineOldInit, MineOldNext, InvAlways, PTL DEF PoolSpec
<1>3. [Within]_poolVars => [Cardinality(slots') > Cardinality(slots) /\ mine' = mine
                               => Cardinality(slots') <= SlotCap]_poolVars
  BY Zenon
<1> HIDE DEF Within
<1> QED BY <1>1, <1>2, <1>3, InvAlways, PTL DEF PoolSpec, CapHeld

\* All that the pool promises, for any number of threads, slots and nested
\* calls: find_conn and its siblings, add_slot_inner and remove_slot.
THEOREM PoolCorrect == PoolSpec => PoolSafe
BY ExclusiveUse, WakeupsKept, CapRespected, PTL DEF PoolSafe

-----------------------------------------------------------------------------
(* SessionLifecycle: the theorems *)

\* The connections are finitely many.
LEMMA ConnsCounted == Counting
<1> SUFFICES ASSUME NEW S \in SUBSET Conns
             PROVE  /\ Cardinality(S) \in Nat
                    /\ Cardinality(S) = 0 <=> S = {}
                    /\ \A c \in Conns \ S : Cardinality(S \cup {c}) = Cardinality(S) + 1
                    /\ \A c \in S : Cardinality(S \ {c}) = Cardinality(S) - 1
  BY Zenon DEF Counting
<1>1. IsFiniteSet(S)
  BY ConnsAssumption, FS_Subset, Zenon
<1>2. Cardinality(S) \in Nat /\ (Cardinality(S) = 0 <=> S = {})
  BY <1>1, FS_CardinalityType, FS_EmptySet, Zenon
<1>3. QED
  BY <1>1, <1>2, FS_AddElement, FS_RemoveElement, Zenon

\* The live count of a session is the number of connections attached to it,
\* and nobody is attached once it is Dying or Dead (try_bump_live and
\* drop_connection, for any number of connections).
THEOREM LiveCountCorrect == Spec => []LiveCountInv
<1>1. Init => LiveCountInv
  BY ConnsCounted, LiveCountStarts, Zenon
<1>2. TypeOK /\ LiveCountInv /\ [Next]_vars => LiveCountInv'
  BY ConnsCounted, LiveCountStep, Zenon
<1>3. QED
  BY <1>1, <1>2, TypeInvariant, PTL DEF Spec

\* The session obituaries are sent once, by the last connection to leave
\* (serve_blocking_on_inner's tail).
THEOREM ObituaryExactlyOnce == Spec => []ObituaryOnce
<1>1. Init => ObituaryOnce
  BY DEF Init, ObituaryOnce, Live, Dead, Attached
<1>2. QED
  BY <1>1, ObituaryStep, TypeInvariant, LiveCountCorrect, PTL DEF Spec

\* A session that left Live is never attached to again (the multi-attacker
\* case try_bump_live's comment describes).
THEOREM AntiResurrection == Spec => NoResurrection
<1>1. TypeOK /\ LiveCountInv /\ [Next]_vars
        => [word.tag # "Live" => word'.tag # "Live" /\ Attached' \subseteq Attached]_vars
  BY RevivesNot, Zenon
<1>2. QED
  BY <1>1, TypeInvariant, LiveCountCorrect, PTL DEF Spec, NoResurrection

\* drop_connection is only called in Live and mark_dead only in Dying: their
\* debug assertions hold for any number of connections.
THEOREM ContractsHold == Spec => []ContractKept
<1>1. Init => Welcome
  BY Zenon DEF Init, Welcome
<1>2. QED
  BY <1>1, ContractFrom, WelcomeStep, TypeInvariant, LiveCountCorrect, PTL DEF Spec

\* All of LifecycleSafe, for any number of connections.
THEOREM LifecycleCorrect == Spec => LifecycleSafe
BY LiveCountCorrect, ObituaryExactlyOnce, ContractsHold, AntiResurrection, PTL DEF LifecycleSafe
=============================================================================
