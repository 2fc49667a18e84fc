------------------------- MODULE NestedCallsProofs -------------------------
(* Proofs about NestedCalls. *)
EXTENDS NestedCalls, TLAPS

\* The discipline under which calls may nest on a connection: outer calls come
\* from the client only, none is a oneway, and no deadline is set.
Disciplined == Oneway = {} /\ Initiators = {"client"} /\ Timed = {}

A  == stack["client"]
B  == stack["server"]
IA == inbox["client"]
IB == inbox["server"]

\* The stacks a of the client and b of the server mirror each other above the
\* worker's loop frame: a call of one end is being served by the other.
Mirrors(a, b) ==
    /\ a # <<>> => a[1].kind = "call"
    /\ b # <<>> => b[1] = Loop
    /\ \A i \in 1 .. Len(a) : a[i].kind \in {"call", "serve"} /\ a[i].call \in Calls
    /\ \A i \in 2 .. Len(b) : b[i].kind \in {"call", "serve"} /\ b[i].call \in Calls
    /\ \A i \in 1 .. Len(a) - 1 : a[i].kind # a[i + 1].kind
    /\ \A i \in 1 .. Len(a) : i + 1 <= Len(b) =>
          a[i].call = b[i + 1].call /\ a[i].kind # b[i + 1].kind

Mirror == Mirrors(A, B)

\* Where control is: at one end, or in the one message on the wire.
Quiet == IA = <<>> /\ IB = <<>> /\ A = <<>> /\ Len(B) <= 1

ServerRuns ==
    /\ IA = <<>> /\ IB = <<>>
    /\ A # <<>> /\ A[Len(A)].kind = "call" /\ Len(B) = Len(A) + 1

ClientRuns ==
    /\ IA = <<>> /\ IB = <<>>
    /\ A # <<>> /\ A[Len(A)].kind = "serve" /\ Len(B) = Len(A) + 1

\* A message of the client's innermost call: its request, or the reply to it.
ClientCalls ==
    /\ \/ IA = <<>> /\ IB = <<Msg("transact", A[Len(A)].call)>>
       \/ IB = <<>> /\ IA = <<Msg("reply", A[Len(A)].call)>>
    /\ A # <<>> /\ A[Len(A)].kind = "call"
    /\ Len(B) = Len(A) \/ (Len(A) = 1 /\ B = <<>>)

ServerCalls ==
    /\ \/ IB = <<>> /\ IA = <<Msg("transact", B[Len(B)].call)>>
       \/ IA = <<>> /\ IB = <<Msg("reply", B[Len(B)].call)>>
    /\ A # <<>> /\ A[Len(A)].kind = "call"
    /\ B[Len(B)].kind = "call" /\ Len(B) = Len(A) + 2

IInv ==
    /\ open = [e \in Ends |-> TRUE]
    /\ Mirror
    /\ Quiet \/ ServerRuns \/ ClientRuns \/ ClientCalls \/ ServerCalls
    /\ OwnReply

-----------------------------------------------------------------------------
\* What pushing, popping and reading do to a stack or an inbox.
LEMMA AppendFacts ==
    \A s \in Seq(Frames), x \in Frames :
        /\ Append(s, x) \in Seq(Frames) /\ Append(s, x) # <<>>
        /\ Len(Append(s, x)) = Len(s) + 1
        /\ \A i \in 1 .. Len(s) : Append(s, x)[i] = s[i]
        /\ Append(s, x)[Len(s) + 1] = x
OBVIOUS

\* What is left of a stack when n frames return.
LEMMA PrefixFacts ==
    \A s \in Seq(Frames), n \in Nat : n <= Len(s) =>
        /\ SubSeq(s, 1, Len(s) - n) \in Seq(Frames)
        /\ Len(SubSeq(s, 1, Len(s) - n)) = Len(s) - n
        /\ \A i \in 1 .. Len(s) - n : SubSeq(s, 1, Len(s) - n)[i] = s[i]
OBVIOUS

\* A stack is empty when it has no frame.
LEMMA EmptyFacts == \A s \in Seq(Frames) : Len(s) \in Nat /\ (s = <<>> <=> Len(s) = 0)
OBVIOUS

\* A message sent to an empty inbox is the next one read.
LEMMA InboxFacts ==
    \A m \in Messages : /\ Append(<<>>, m) = <<m>> /\ <<m>> # <<>>
                        /\ Head(<<m>>) = m /\ Tail(<<m>>) = <<>>
OBVIOUS

-----------------------------------------------------------------------------
\* The frames and messages that the actions make have their types.
LEMMA MsgType ==
    /\ Loop \in Frames
    /\ \A c \in Calls : Msg("call", c) \in Frames /\ Msg("serve", c) \in Frames
    /\ \A c \in Calls : Msg("transact", c) \in Messages /\ Msg("reply", c) \in Messages
BY Zenon DEF Loop, Msg, Frames, Messages

\* Every variable keeps its type.
LEMMA TypeInvariant == Spec => []TypeOK
<1>1. Init => TypeOK
  BY DEF Init, TypeOK
<1>2. TypeOK /\ [Next]_vars => TypeOK'
  <2> SUFFICES ASSUME TypeOK, [Next]_vars PROVE TypeOK'
    BY Zenon
  <2> USE DEF TypeOK
  <2>1. \A e \in Ends : Peer(e) \in Ends
    BY Zenon DEF Ends, Peer
  <2>2. \A e \in Ends, n \in Nat : Under(e, n) \in Seq(Frames)
    BY DEF Under
  <2>3. \A e \in Ends, m \in Messages : Send(e, m) => inbox' \in [Ends -> Seq(Messages)]
    BY <2>1 DEF Send
  <2>4. \A e \in Ends, n \in Nat : Unwind(e, n) => /\ stack' \in [Ends -> Seq(Frames)]
                                                /\ open' \in [Ends -> BOOLEAN]
    BY <2>2, SMTT(30) DEF Unwind
  <2>5. ASSUME NEW e \in Ends, NEW c \in Calls, Transact(e, c) PROVE TypeOK'
    <3>1. inbox' \in [Ends -> Seq(Messages)]
      BY <2>3, <2>5, MsgType, Zenon DEF Transact, MayCall
    <3>2. stack' \in [Ends -> Seq(Frames)]
      <4>1. Push(e, "call", c) => stack' \in [Ends -> Seq(Frames)]
        BY MsgType DEF Push
      <4>2. QED
        BY <2>5, <4>1, Zenon DEF Transact, MayCall
    <3>3. QED
      BY <2>5, <3>1, <3>2, Zenon DEF Transact, MayCall
  <2>6. ASSUME NEW e \in Ends, inbox[e] # <<>> PROVE Head(inbox[e]) \in Messages /\ Tail(inbox[e]) \in Seq(Messages)
    BY <2>6
  <2>7. ASSUME NEW e \in Ends, TakeReply(e) PROVE TypeOK'
    BY <2>2, <2>6, <2>7, Zenon DEF TakeReply, Messages
  <2>8. ASSUME NEW e \in Ends, Dispatch(e) PROVE TypeOK'
    <3>1. Head(inbox[e]).call \in Calls
      BY <2>6, <2>8, Zenon DEF Dispatch, Messages
    <3>2. QED
      BY <2>6, <2>8, <3>1, MsgType DEF Dispatch, Push
  <2>9. ASSUME NEW e \in Ends, CallFails(e) PROVE TypeOK'
    BY <2>4, <2>9, Zenon DEF CallFails, Expires
  <2>10. ASSUME NEW e \in Ends, Finish(e) PROVE TypeOK'
    <3>1. TopCall(e) \in Calls
      BY <2>10 DEF Finish, Top, TopCall, Frames, Loop, Msg
    <3>3. inbox' \in [Ends -> Seq(Messages)]
      BY <2>3, <2>10, <3>1, MsgType, Zenon DEF Finish
    <3>2. Under(e, Ending(e)) \in Seq(Frames)
      BY <2>2, Zenon DEF Ending
    <3>4. QED
      BY <2>10, <3>2, <3>3, Zenon DEF Finish
  <2>11. ASSUME NEW e \in Ends, FinishFails(e) PROVE TypeOK'
    BY <2>4, <2>11, Zenon DEF FinishFails
  <2>12. ASSUME Worker PROVE TypeOK'
    <3>1. "server" \in Ends
      BY Zenon DEF Ends
    <3>2. CASE Pin
      <4>1. stack' = [stack EXCEPT !["server"] = Append(@, Loop)]
        BY <3>2, Zenon DEF Pin, Push, Loop
      <4>2. Append(stack["server"], Loop) \in Seq(Frames)
        BY <3>1, MsgType
      <4>3. stack' \in [Ends -> Seq(Frames)]
        BY <3>1, <4>1, <4>2, Zenon
      <4>4. QED
        BY <3>2, <4>3, Zenon DEF Pin
    <3>3. CASE IgnoreReply
      BY <2>6, <3>1, <3>3 DEF IgnoreReply
    <3>4. CASE ServeEnds
      BY <2>4, <3>1, <3>4, Zenon DEF ServeEnds
    <3>5. QED
      BY <2>12, <3>2, <3>3, <3>4, Zenon DEF Worker
  <2>14. ASSUME NEW e \in Ends, NEW c \in Calls, SendFails(e, c) PROVE TypeOK'
    BY <2>14, Zenon DEF SendFails
  <2>13. QED
    BY <2>5, <2>14, <2>7, <2>8, <2>9, <2>10, <2>11, <2>12, Zenon DEF Next, Step, vars
<1>3. QED
  BY <1>1, <1>2, PTL DEF Spec

-----------------------------------------------------------------------------
\* Pushing a frame that answers the other stack, and popping, keep the mirror.
LEMMA PushClient ==
    ASSUME NEW a \in Seq(Frames), NEW b \in Seq(Frames), Mirrors(a, b), NEW f \in Frames,
           f.kind \in {"call", "serve"}, f.call \in Calls,
           a = <<>> => f.kind = "call",
           a # <<>> => f.kind # a[Len(a)].kind,
           Len(a) + 2 <= Len(b) => f.call = b[Len(a) + 2].call /\ f.kind # b[Len(a) + 2].kind
    PROVE  Mirrors(Append(a, f), b)
<1> DEFINE d == Append(a, f)
<1>1. /\ Len(d) = Len(a) + 1 /\ d[Len(a) + 1] = f /\ Len(a) \in Nat /\ Len(b) \in Nat
      /\ \A i \in 1 .. Len(a) : d[i] = a[i]
      /\ a = <<>> <=> Len(a) = 0
  BY AppendFacts, EmptyFacts, Zenon
<1> HIDE DEF d
<1>2. d[1].kind = "call"
  BY <1>1 DEF Mirrors
<1>3. \A i \in 1 .. Len(d) : d[i].kind \in {"call", "serve"} /\ d[i].call \in Calls
  BY <1>1 DEF Mirrors
<1>4. \A i \in 1 .. Len(d) - 1 : d[i].kind # d[i + 1].kind
  <2> TAKE i \in 1 .. Len(d) - 1
  <2>1. CASE i = Len(a)
    BY <1>1, <2>1
  <2>2. CASE i \in 1 .. Len(a) - 1
    BY <1>1, <2>2 DEF Mirrors
  <2>3. QED
    BY <1>1, <2>1, <2>2
<1>5. \A i \in 1 .. Len(d) : i + 1 <= Len(b) => d[i].call = b[i + 1].call /\ d[i].kind # b[i + 1].kind
  <2> TAKE i \in 1 .. Len(d)
  <2>1. CASE i = Len(a) + 1
    BY <1>1, <2>1
  <2>2. CASE i \in 1 .. Len(a)
    BY <1>1, <2>2 DEF Mirrors
  <2>3. QED
    BY <1>1, <2>1, <2>2
<1>6. QED
  BY <1>2, <1>3, <1>4, <1>5, Zenon DEF Mirrors, d

\* The same for the server, above the loop frame of its worker.
LEMMA PushServer ==
    ASSUME NEW a \in Seq(Frames), NEW b \in Seq(Frames), Mirrors(a, b), NEW f \in Frames,
           b # <<>>, f.kind \in {"call", "serve"}, f.call \in Calls,
           Len(b) <= Len(a) => f.call = a[Len(b)].call /\ f.kind # a[Len(b)].kind
    PROVE  Mirrors(a, Append(b, f))
<1> DEFINE d == Append(b, f)
<1>1. /\ Len(d) = Len(b) + 1 /\ d[Len(b) + 1] = f /\ Len(a) \in Nat /\ Len(b) \in Nat
      /\ \A i \in 1 .. Len(b) : d[i] = b[i]
      /\ Len(b) # 0
  BY AppendFacts, EmptyFacts, Zenon
<1> HIDE DEF d
<1>2. d[1] = Loop
  BY <1>1 DEF Mirrors
<1>3. \A i \in 2 .. Len(d) : d[i].kind \in {"call", "serve"} /\ d[i].call \in Calls
  BY <1>1 DEF Mirrors
<1>4. \A i \in 1 .. Len(a) : i + 1 <= Len(d) => a[i].call = d[i + 1].call /\ a[i].kind # d[i + 1].kind
  <2> TAKE i \in 1 .. Len(a)
  <2>1. CASE i = Len(b)
    BY <1>1, <2>1
  <2>2. CASE i + 1 \in 1 .. Len(b)
    BY <1>1, <2>2 DEF Mirrors
  <2>3. QED
    BY <1>1, <2>1, <2>2
<1>5. QED
  BY <1>2, <1>3, <1>4, Zenon DEF Mirrors, d

\* Frames return at either end.
LEMMA Pop ==
    ASSUME NEW a \in Seq(Frames), NEW b \in Seq(Frames), Mirrors(a, b),
           NEW m \in Nat, m <= Len(a), NEW n \in Nat, n <= Len(b)
    PROVE  Mirrors(SubSeq(a, 1, Len(a) - m), SubSeq(b, 1, Len(b) - n))
<1> DEFINE c == SubSeq(a, 1, Len(a) - m)
           d == SubSeq(b, 1, Len(b) - n)
<1>1. /\ Len(c) = Len(a) - m /\ Len(d) = Len(b) - n /\ Len(a) \in Nat /\ Len(b) \in Nat
      /\ \A i \in 1 .. Len(a) - m : c[i] = a[i]
      /\ \A i \in 1 .. Len(b) - n : d[i] = b[i]
      /\ c = <<>> <=> Len(c) = 0
      /\ d = <<>> <=> Len(d) = 0
      /\ a = <<>> <=> Len(a) = 0
      /\ b = <<>> <=> Len(b) = 0
  <2>1. c \in Seq(Frames) /\ d \in Seq(Frames)
    BY PrefixFacts, Zenon
  <2>2. QED
    BY <2>1, PrefixFacts, EmptyFacts, Zenon
<1> HIDE DEF c, d
<1>2. (c # <<>> => c[1].kind = "call") /\ (d # <<>> => d[1] = Loop)
  BY <1>1 DEF Mirrors
<1>3. /\ \A i \in 1 .. Len(c) : c[i].kind \in {"call", "serve"} /\ c[i].call \in Calls
      /\ \A i \in 2 .. Len(d) : d[i].kind \in {"call", "serve"} /\ d[i].call \in Calls
  <2>1. \A i \in 1 .. Len(c) : i \in 1 .. Len(a) /\ c[i] = a[i]
    BY <1>1
  <2>2. \A i \in 2 .. Len(d) : i \in 2 .. Len(b) /\ d[i] = b[i]
    BY <1>1
  <2>3. QED
    BY <2>1, <2>2, Zenon DEF Mirrors
<1>4. \A i \in 1 .. Len(c) - 1 : c[i].kind # c[i + 1].kind
  <2>1. \A i \in 1 .. Len(c) - 1 : i \in 1 .. Len(a) - 1 /\ c[i] = a[i] /\ c[i + 1] = a[i + 1]
    BY <1>1
  <2>2. QED
    BY <2>1, Zenon DEF Mirrors
<1>5. \A i \in 1 .. Len(c) : i + 1 <= Len(d) => c[i].call = d[i + 1].call /\ c[i].kind # d[i + 1].kind
  <2>1. \A i \in 1 .. Len(c) : i \in 1 .. Len(a) /\ c[i] = a[i]
    BY <1>1
  <2>2. \A i \in 1 .. Len(c) : i + 1 <= Len(d) => i + 1 <= Len(b) /\ d[i + 1] = b[i + 1]
    BY <1>1
  <2>3. QED
    BY <2>1, <2>2, Zenon DEF Mirrors
<1>6. QED
  BY <1>2, <1>3, <1>4, <1>5, Zenon DEF Mirrors, c, d

\* Popping one frame of one stack.
LEMMA PopOne ==
    ASSUME NEW a \in Seq(Frames), NEW b \in Seq(Frames), Mirrors(a, b)
    PROVE  /\ a # <<>> => Mirrors(SubSeq(a, 1, Len(a) - 1), b)
           /\ b # <<>> => Mirrors(a, SubSeq(b, 1, Len(b) - 1))
<1>1. PICK n \in Nat : n = 0
  BY Zenon
<1>2. PICK m \in Nat : m = 1
  BY Zenon
<1>3. /\ Len(a) \in Nat /\ (a = <<>> <=> Len(a) = 0) /\ Len(b) \in Nat /\ (b = <<>> <=> Len(b) = 0)
      /\ n <= Len(a) /\ n <= Len(b) /\ (a # <<>> => m <= Len(a)) /\ (b # <<>> => m <= Len(b))
  BY <1>1, <1>2, EmptyFacts
<1>4. SubSeq(a, 1, Len(a) - n) = a /\ SubSeq(b, 1, Len(b) - n) = b
  BY <1>1
<1>5. a # <<>> => Mirrors(SubSeq(a, 1, Len(a) - m), SubSeq(b, 1, Len(b) - n))
  BY <1>3, Pop, Zenon
<1>6. b # <<>> => Mirrors(SubSeq(a, 1, Len(a) - n), SubSeq(b, 1, Len(b) - m))
  BY <1>3, Pop, Zenon
<1>7. QED
  BY <1>2, <1>4, <1>5, <1>6, Zenon

\* The stacks of the two ends have lengths.
LEMMA Lengths ==
    ASSUME TypeOK
    PROVE  /\ Len(A) \in Nat /\ (A = <<>> <=> Len(A) = 0)
           /\ Len(B) \in Nat /\ (B = <<>> <=> Len(B) = 0)
BY EmptyFacts, Zenon DEF TypeOK, A, B, Ends

\* What the mirror says of the server's top frame in each situation.
LEMMA ServerTop ==
    ASSUME TypeOK, Mirror
    PROVE  /\ Quiet => B = <<>> \/ B[Len(B)].kind = "loop"
           /\ ServerRuns => B # <<>> /\ B[Len(B)] = Msg("serve", A[Len(A)].call)
           /\ ClientRuns => B # <<>> /\ B[Len(B)] = Msg("call", A[Len(A)].call)
           /\ ClientCalls => B = <<>> \/ B[Len(B)].kind \in {"loop", "call"}
<1>1. \A i \in 1 .. Len(B) : B[i] \in Frames
  BY DEF TypeOK, B, Ends
<1>2. CASE Quiet
  BY <1>2, Lengths DEF Quiet, Mirror, Mirrors, Loop, Msg, ServerRuns, ClientRuns, ClientCalls
<1>3. ASSUME ServerRuns \/ ClientRuns
      PROVE  /\ Len(A) \in 1 .. Len(A) /\ Len(A) + 1 = Len(B) /\ Len(B) \in 2 .. Len(B)
             /\ B[Len(B)].call = A[Len(A)].call /\ B[Len(B)].kind # A[Len(A)].kind
             /\ B[Len(B)].kind \in {"call", "serve"}
  <2>1. Len(A) \in 1 .. Len(A) /\ Len(A) + 1 = Len(B) /\ Len(B) \in 2 .. Len(B)
    BY <1>3, Lengths DEF ServerRuns, ClientRuns
  <2>2. QED
    BY <2>1, Lengths, SMTT(30) DEF Mirror, Mirrors
<1>4. \A f \in Frames : f.kind \in {"call", "serve"} => f = Msg(f.kind, f.call)
  BY DEF Frames, Msg, Loop
<1>5. ServerRuns => B # <<>> /\ B[Len(B)] = Msg("serve", A[Len(A)].call)
  BY <1>1, <1>3, <1>4, Lengths DEF ServerRuns
<1>6. ClientRuns => B # <<>> /\ B[Len(B)] = Msg("call", A[Len(A)].call)
  BY <1>1, <1>3, <1>4, Lengths DEF ClientRuns
<1>7. ASSUME ClientCalls PROVE B = <<>> \/ B[Len(B)].kind \in {"loop", "call"}
  <2>1. CASE Len(B) <= 1
    BY <2>1, Lengths DEF Mirror, Mirrors, Loop, Msg
  <2>2. CASE Len(B) >= 2
    <3>1. Len(B) = Len(A) /\ Len(A) - 1 \in 1 .. Len(A) - 1 /\ Len(A) - 1 \in 1 .. Len(A)
          /\ (Len(A) - 1) + 1 = Len(A) /\ Len(A) \in 2 .. Len(B)
      BY <1>7, <2>2, Lengths DEF ClientCalls
    <3>2. A[Len(A) - 1].kind # A[Len(A)].kind /\ A[Len(A) - 1].kind \in {"call", "serve"}
      BY <3>1 DEF Mirror, Mirrors
    <3>3. A[Len(A) - 1].kind # B[Len(A)].kind /\ B[Len(A)].kind \in {"call", "serve"}
      BY <3>1 DEF Mirror, Mirrors
    <3>4. QED
      BY <1>7, <3>1, <3>2, <3>3, Zenon DEF ClientCalls
  <2>3. QED
    BY <2>1, <2>2, Lengths
<1>8. QED
  BY <1>2, <1>5, <1>6, <1>7, Zenon DEF Quiet, ServerRuns, ClientRuns, ClientCalls

\* Under the discipline the connection always looks like IInv.
LEMMA IInvStep ==
    ASSUME Disciplined, TypeOK, IInv, [Next]_vars
    PROVE  IInv'
<1>1. /\ A \in Seq(Frames) /\ B \in Seq(Frames)
      /\ IA \in Seq(Messages) /\ IB \in Seq(Messages)
      /\ "client" \in Ends /\ "server" \in Ends
      /\ Peer("client") = "server" /\ Peer("server") = "client"
      /\ open["client"] /\ open["server"]
  BY Zenon DEF TypeOK, Ends, Peer, IInv, A, B, IA, IB
<1>2. /\ Len(A) \in Nat /\ (A = <<>> <=> Len(A) = 0)
      /\ Len(B) \in Nat /\ (B = <<>> <=> Len(B) = 0)
  BY Lengths, Zenon
<1>3. \A n \in Nat : n = 0 \/ n = 1 \/ n > 1
  OBVIOUS
<1>4. \A c \in Calls : /\ Head(<<Msg("reply", c)>>) = Msg("reply", c)
                     /\ Head(<<Msg("transact", c)>>) = Msg("transact", c)
                     /\ Msg("reply", c).kind = "reply" /\ Msg("reply", c).call = c
                     /\ Msg("transact", c).kind = "transact" /\ Msg("transact", c).call = c
  BY InboxFacts, MsgType, Zenon DEF Msg
<1>5. ASSUME NEW c \in Calls, Transact("client", c) PROVE IInv'
  <2>1. /\ A' = Append(A, Msg("call", c)) /\ B' = B
        /\ IB' = Append(IB, Msg("transact", c)) /\ IA' = IA
        /\ got' = got /\ open' = open
        /\ A = <<>> \/ A[Len(A)].kind = "serve"
    BY <1>1, <1>5, Zenon DEF Transact, MayCall, Disciplined, Push, Send, Top, TypeOK, A, B, IA, IB
  <2>2. Quiet \/ ClientRuns
    BY <2>1, Zenon DEF IInv, ServerRuns, ClientCalls, ServerCalls
  <2>3. /\ Len(A') = Len(A) + 1 /\ A'[Len(A) + 1] = Msg("call", c) /\ A' # <<>>
    BY <1>1, <2>1, MsgType, AppendFacts, Zenon
  <2>4. IB' = <<Msg("transact", c)>> /\ IA' = <<>>
    BY <2>1, <2>2, MsgType, InboxFacts, Zenon DEF Quiet, ClientRuns
  <2>5. A'[Len(A')] = Msg("call", c) /\ A'[Len(A')].kind = "call" /\ A'[Len(A')].call = c
    BY <2>3 DEF Msg
  <2>6. Len(B') = Len(A') \/ (Len(A') = 1 /\ B' = <<>>)
    BY <2>1, <2>2, <2>3, Lengths DEF Quiet, ClientRuns
  <2>7. ClientCalls'
    BY <2>3, <2>4, <2>5, <2>6, Zenon DEF ClientCalls
  <2>8. Mirror'
    <3>1. ~(Len(A) + 2 <= Len(B))
      BY <2>2, Lengths DEF Quiet, ClientRuns
    <3>2. Mirrors(Append(A, Msg("call", c)), B)
      BY <1>1, <2>1, <3>1, Lengths, MsgType, PushClient, Zenon DEF IInv, Mirror, Msg
    <3>3. QED
      BY <2>1, <3>2, Zenon DEF Mirror
  <2>9. QED
    BY <2>1, <2>7, <2>8, Zenon DEF IInv, OwnReply
<1>6. ASSUME NEW c \in Calls, Transact("server", c) PROVE IInv'
  <2>1. /\ B' = Append(B, Msg("call", c)) /\ A' = A
        /\ IA' = Append(IA, Msg("transact", c)) /\ IB' = IB
        /\ got' = got /\ open' = open
        /\ B # <<>> /\ B[Len(B)].kind = "serve"
    BY <1>1, <1>6, Zenon DEF Transact, MayCall, Disciplined, Push, Send, Top, TypeOK, A, B, IA, IB
  <2>2. ServerRuns
    BY <2>1, ServerTop DEF IInv, ServerCalls, Msg
  <2>3. /\ Len(B') = Len(B) + 1 /\ B'[Len(B) + 1] = Msg("call", c) /\ B' # <<>>
    BY <1>1, <2>1, MsgType, AppendFacts, Zenon
  <2>4. IA' = <<Msg("transact", c)>> /\ IB' = <<>>
    BY <2>1, <2>2, MsgType, InboxFacts, Zenon DEF ServerRuns
  <2>5. B'[Len(B')] = Msg("call", c) /\ B'[Len(B')].kind = "call" /\ B'[Len(B')].call = c
    BY <2>3 DEF Msg
  <2>6. Len(B') = Len(A') + 2 /\ A' # <<>> /\ A'[Len(A')].kind = "call"
    BY <2>1, <2>2, <2>3, Lengths DEF ServerRuns
  <2>7. ServerCalls'
    BY <2>4, <2>5, <2>6, Zenon DEF ServerCalls
  <2>8. Mirror'
    <3>1. ~(Len(B) <= Len(A))
      BY <2>2, Lengths DEF ServerRuns
    <3>2. Mirrors(A, Append(B, Msg("call", c)))
      BY <1>1, <2>1, <3>1, MsgType, PushServer, Zenon DEF IInv, Mirror, Msg
    <3>3. QED
      BY <2>1, <3>2, Zenon DEF Mirror
  <2>9. QED
    BY <2>1, <2>7, <2>8, Zenon DEF IInv, OwnReply
<1>7. ASSUME Dispatch("client") PROVE IInv'
  <2>1. /\ A # <<>> /\ IA # <<>> /\ Head(IA).kind = "transact"
        /\ A' = Append(A, Msg("serve", Head(IA).call)) /\ B' = B
        /\ IA' = Tail(IA) /\ IB' = IB /\ got' = got /\ open' = open
    BY <1>1, <1>7, Zenon DEF Dispatch, Push, Top, TypeOK, A, B, IA, IB
  <2>2. ServerCalls /\ IB = <<>>
        /\ IA = <<Msg("transact", B[Len(B)].call)>> /\ B[Len(B)].call \in Calls
    <3>1. ~Quiet /\ ~ServerRuns /\ ~ClientRuns
      BY <2>1, Zenon DEF Quiet, ServerRuns, ClientRuns
    <3>2. ~ClientCalls
      BY <1>4, <2>1 DEF ClientCalls, Msg
    <3>3. ServerCalls
      BY <3>1, <3>2, Zenon DEF IInv
    <3>4. Len(B) \in 2 .. Len(B)
      BY <3>3, Lengths DEF ServerCalls
    <3>5. B[Len(B)].call \in Calls
      BY <3>4, Zenon DEF IInv, Mirror, Mirrors
    <3>6. QED
      BY <1>4, <2>1, <3>3, <3>5, Zenon DEF ServerCalls, Msg
  <2>3. PICK c \in Calls : c = B[Len(B)].call
    BY <2>2, Zenon
  <2>4. IA' = <<>> /\ IB' = <<>> /\ A' = Append(A, Msg("serve", c))
    BY <2>1, <2>2, <2>3, MsgType, InboxFacts DEF Msg
  <2>5. /\ Len(A') = Len(A) + 1 /\ A'[Len(A) + 1] = Msg("serve", c) /\ A' # <<>>
    BY <1>1, <2>4, MsgType, AppendFacts, Zenon
  <2>6. ClientRuns'
    BY <2>1, <2>2, <2>4, <2>5, Lengths DEF ClientRuns, ServerCalls, Msg
  <2>7. Mirrors(Append(A, Msg("serve", c)), B)
    <3>1. Len(A) + 2 = Len(B) /\ B[Len(A) + 2].call = c /\ B[Len(A) + 2].kind = "call"
          /\ A[Len(A)].kind = "call"
      BY <2>2, <2>3, Zenon DEF ServerCalls
    <3>2. QED
      BY <1>1, <2>1, <3>1, MsgType, PushClient, Zenon DEF IInv, Mirror, Msg
  <2>8. QED
    BY <2>1, <2>4, <2>6, <2>7, Zenon DEF IInv, OwnReply, Mirror
<1>8. ASSUME Dispatch("server") PROVE IInv'
  <2>1. /\ B # <<>> /\ IB # <<>> /\ Head(IB).kind = "transact"
        /\ B' = Append(B, Msg("serve", Head(IB).call)) /\ A' = A
        /\ IB' = Tail(IB) /\ IA' = IA /\ got' = got /\ open' = open
    BY <1>1, <1>8, Zenon DEF Dispatch, Push, Top, TypeOK, A, B, IA, IB
  <2>2. ClientCalls /\ IA = <<>>
        /\ IB = <<Msg("transact", A[Len(A)].call)>> /\ A[Len(A)].call \in Calls
    <3>1. ~Quiet /\ ~ServerRuns /\ ~ClientRuns
      BY <2>1, Zenon DEF Quiet, ServerRuns, ClientRuns
    <3>2. ~ServerCalls
      BY <1>4, <2>1 DEF ServerCalls, Msg
    <3>3. ClientCalls
      BY <3>1, <3>2, Zenon DEF IInv
    <3>4. Len(A) \in 1 .. Len(A)
      BY <3>3, Lengths DEF ClientCalls
    <3>5. A[Len(A)].call \in Calls
      BY <3>4, Zenon DEF IInv, Mirror, Mirrors
    <3>6. QED
      BY <1>4, <2>1, <3>3, <3>5, Zenon DEF ClientCalls, Msg
  <2>3. PICK c \in Calls : c = A[Len(A)].call
    BY <2>2, Zenon
  <2>4. IA' = <<>> /\ IB' = <<>> /\ B' = Append(B, Msg("serve", c))
    BY <2>1, <2>2, <2>3, MsgType, InboxFacts DEF Msg
  <2>5. Len(B') = Len(B) + 1 /\ Len(B) = Len(A)
    BY <1>1, <2>1, <2>2, <2>4, MsgType, AppendFacts DEF ClientCalls
  <2>6. ServerRuns'
    BY <2>1, <2>2, <2>4, <2>5, Lengths, Zenon DEF ServerRuns, ClientCalls
  <2>7. Mirrors(A, Append(B, Msg("serve", c)))
    <3>1. A[Len(B)].call = c /\ A[Len(B)].kind = "call"
      BY <2>2, <2>3, <2>5, Zenon DEF ClientCalls
    <3>2. QED
      BY <1>1, <2>1, <3>1, MsgType, PushServer, Zenon DEF IInv, Mirror, Msg
  <2>8. QED
    BY <2>1, <2>4, <2>6, <2>7, Zenon DEF IInv, OwnReply, Mirror
<1>9. ASSUME TakeReply("client") PROVE IInv'
  <2>1. /\ A # <<>> /\ A[Len(A)].kind = "call" /\ IA # <<>> /\ Head(IA).kind = "reply"
        /\ A' = SubSeq(A, 1, Len(A) - 1) /\ B' = B
        /\ IA' = Tail(IA) /\ IB' = IB /\ open' = open
        /\ got' = [got EXCEPT ![A[Len(A)].call] = Head(IA).call]
    BY <1>1, <1>9, Zenon DEF TakeReply, Under, Top, TopCall, TypeOK, A, B, IA, IB
  <2>2. ClientCalls /\ IB = <<>> /\ IA = <<Msg("reply", A[Len(A)].call)>> /\ A[Len(A)].call \in Calls
    <3>1. ~Quiet /\ ~ServerRuns /\ ~ClientRuns
      BY <2>1, Zenon DEF Quiet, ServerRuns, ClientRuns
    <3>2. ~ServerCalls
      BY <1>4, <2>1 DEF ServerCalls, Msg
    <3>3. ClientCalls
      BY <3>1, <3>2 DEF IInv
    <3>4. Len(A) \in 1 .. Len(A)
      BY <3>3, Lengths DEF ClientCalls
    <3>5. A[Len(A)].call \in Calls
      BY <3>4 DEF IInv, Mirror, Mirrors
    <3>6. QED
      BY <1>4, <2>1, <3>3, <3>5, Zenon DEF ClientCalls, Msg
  <2>3. PICK c \in Calls : c = A[Len(A)].call
    BY <2>2, Zenon
  <2>4. IA' = <<>> /\ IB' = <<>> /\ Head(IA).call = c
    BY <2>1, <2>2, <2>3, MsgType, InboxFacts DEF Msg
  <2>5. OwnReply'
    BY <2>1, <2>3, <2>4, Zenon DEF IInv, OwnReply, TypeOK
  <2>6. /\ Len(A') = Len(A) - 1 /\ (A' = <<>> <=> Len(A') = 0)
        /\ \A i \in 1 .. Len(A) - 1 : A'[i] = A[i]
    <3>1. 1 \in Nat /\ 1 <= Len(A) /\ A' = SubSeq(A, 1, Len(A) - 1)
      BY <1>2, <2>1
    <3>2. A' \in Seq(Frames) /\ Len(A') = Len(A) - 1 /\ \A i \in 1 .. Len(A) - 1 : A'[i] = A[i]
      BY <1>1, <3>1, PrefixFacts, Zenon
    <3>3. A' = <<>> <=> Len(A') = 0
      BY <3>2, EmptyFacts, Zenon
    <3>4. QED
      BY <3>2, <3>3, Zenon
  <2>7. Mirror'
    <3>1. A # <<>> /\ Mirrors(A, B)
      BY <2>1, Zenon DEF IInv, Mirror
    <3>2. Mirrors(SubSeq(A, 1, Len(A) - 1), B)
      BY <1>1, <3>1, PopOne, Zenon
    <3>3. QED
      BY <2>1, <3>2, Zenon DEF Mirror
  <2>8. Quiet' \/ ClientRuns'
    <3>1. CASE Len(A) = 1
      <4>1. A' = <<>>
        BY <2>6, <3>1
      <4>2. B' = B /\ (Len(B) = 1 \/ B = <<>>)
        BY <2>1, <2>2, <3>1, Zenon DEF ClientCalls
      <4>3. Len(B') <= 1
        BY <1>2, <4>2
      <4>4. Quiet'
        BY <2>4, <4>1, <4>3, Zenon DEF Quiet
      <4>5. QED
        BY <4>4, Zenon
    <3>2. CASE Len(A) > 1
      <4>1. /\ Len(A) - 1 \in 1 .. Len(A) - 1 /\ (Len(A) - 1) + 1 = Len(A)
            /\ Len(A) - 1 \in 1 .. Len(A) /\ Len(B) = Len(A)
        BY <2>2, <3>2, Lengths DEF ClientCalls
      <4>2. A[Len(A) - 1].kind # "call" /\ A[Len(A) - 1].kind \in {"call", "serve"}
        BY <2>1, <4>1, Zenon DEF IInv, Mirror, Mirrors
      <4>3. A'[Len(A')].kind = "serve" /\ A' # <<>> /\ Len(B') = Len(A') + 1
        BY <2>1, <2>6, <4>1, <4>2, Lengths
      <4>4. QED
        BY <2>4, <4>3, Zenon DEF ClientRuns
    <3>3. A # <<>>
      BY <2>1, Zenon
    <3>4. Len(A) = 1 \/ Len(A) > 1
      BY <1>2, <1>3, <3>3, Zenon
    <3>5. QED
      BY <3>1, <3>2, <3>4, Zenon
  <2>9. QED
    BY <2>1, <2>5, <2>7, <2>8, Zenon DEF IInv
<1>10. ASSUME TakeReply("server") PROVE IInv'
  <2>1. /\ B # <<>> /\ B[Len(B)].kind = "call" /\ IB # <<>> /\ Head(IB).kind = "reply"
        /\ B' = SubSeq(B, 1, Len(B) - 1) /\ A' = A
        /\ IB' = Tail(IB) /\ IA' = IA /\ open' = open
        /\ got' = [got EXCEPT ![B[Len(B)].call] = Head(IB).call]
    BY <1>1, <1>10, Zenon DEF TakeReply, Under, Top, TopCall, TypeOK, A, B, IA, IB
  <2>2. ServerCalls /\ IA = <<>> /\ IB = <<Msg("reply", B[Len(B)].call)>> /\ B[Len(B)].call \in Calls
    <3>1. ~Quiet /\ ~ServerRuns /\ ~ClientRuns
      BY <2>1, Zenon DEF Quiet, ServerRuns, ClientRuns
    <3>2. ~ClientCalls
      BY <1>4, <2>1 DEF ClientCalls, Msg
    <3>3. ServerCalls
      BY <3>1, <3>2 DEF IInv
    <3>4. Len(B) \in 2 .. Len(B)
      BY <3>3, Lengths DEF ServerCalls
    <3>5. B[Len(B)].call \in Calls
      BY <3>4 DEF IInv, Mirror, Mirrors
    <3>6. QED
      BY <1>4, <2>1, <3>3, <3>5, Zenon DEF ServerCalls, Msg
  <2>3. PICK c \in Calls : c = B[Len(B)].call
    BY <2>2, Zenon
  <2>4. IA' = <<>> /\ IB' = <<>> /\ Head(IB).call = c
    BY <2>1, <2>2, <2>3, MsgType, InboxFacts DEF Msg
  <2>5. OwnReply'
    BY <2>1, <2>3, <2>4, Zenon DEF IInv, OwnReply, TypeOK
  <2>6. Len(B') = Len(B) - 1
    <3>1. 1 \in Nat /\ 1 <= Len(B) /\ B' = SubSeq(B, 1, Len(B) - 1)
      BY <1>2, <2>1
    <3>2. QED
      BY <1>1, <3>1, PrefixFacts, Zenon
  <2>7. Mirror'
    <3>1. B # <<>> /\ Mirrors(A, B)
      BY <2>1, Zenon DEF IInv, Mirror
    <3>2. Mirrors(A, SubSeq(B, 1, Len(B) - 1))
      BY <1>1, <3>1, PopOne, Zenon
    <3>3. QED
      BY <2>1, <3>2, Zenon DEF Mirror
  <2>8. ServerRuns'
    BY <2>1, <2>2, <2>4, <2>6, Lengths DEF ServerCalls, ServerRuns
  <2>9. QED
    BY <2>1, <2>5, <2>7, <2>8, Zenon DEF IInv
<1>11. ASSUME Finish("client") PROVE IInv'
  <2>1. /\ A # <<>> /\ A[Len(A)].kind = "serve" /\ B' = B
        /\ A' = SubSeq(A, 1, Len(A) - Ending("client"))
        /\ IB' = Append(IB, Msg("reply", A[Len(A)].call)) /\ IA' = IA
        /\ got' = got /\ open' = open
    BY <1>1, <1>11, Zenon DEF Finish, Disciplined, Send, Under, Top, TopCall, TypeOK, A, B,
       IA, IB
  <2>2. ClientRuns
    BY <2>1, Zenon DEF IInv, Quiet, ServerRuns, ClientCalls, ServerCalls
  <2>3. A[1].kind = "call" /\ Len(A) > 1 /\ Len(B) = Len(A) + 1 /\ Mirrors(A, B)
    <3>1. A[1].kind = "call" /\ Len(B) = Len(A) + 1 /\ Mirrors(A, B) /\ A # <<>>
      BY <2>1, <2>2, Zenon DEF IInv, Mirror, Mirrors, ClientRuns
    <3>2. Len(A) # 1
      BY <2>1, <3>1, Zenon
    <3>3. Len(A) > 1
      BY <1>2, <1>3, <3>1, <3>2, Zenon
    <3>4. QED
      BY <3>1, <3>3, Zenon
  <2>4. Ending("client") = 1
    BY <2>3 DEF Ending, A, Loop, Msg
  <2>5. /\ Len(A') = Len(A) - 1 /\ A' # <<>>
        /\ \A i \in 1 .. Len(A) - 1 : A'[i] = A[i]
    <3>1. 1 \in Nat /\ 1 <= Len(A) /\ A' = SubSeq(A, 1, Len(A) - 1)
      BY <1>2, <2>1, <2>3, <2>4
    <3>2. A' \in Seq(Frames) /\ Len(A') = Len(A) - 1 /\ \A i \in 1 .. Len(A) - 1 : A'[i] = A[i]
      BY <1>1, <3>1, PrefixFacts, Zenon
    <3>3. A' = <<>> <=> Len(A') = 0
      BY <3>2, EmptyFacts, Zenon
    <3>4. QED
      BY <1>2, <2>3, <3>2, <3>3
  <2>6. Mirror'
    <3>1. A # <<>> /\ Mirrors(A, B)
      BY <2>1, <2>3, Zenon
    <3>2. Mirrors(SubSeq(A, 1, Len(A) - 1), B)
      BY <1>1, <3>1, PopOne, Zenon
    <3>3. QED
      BY <2>1, <2>4, <3>2, Zenon DEF Mirror
  <2>7. B[Len(B)] = Msg("call", A[Len(A)].call) /\ A[Len(A)].call \in Calls
    <3>1. Len(A) \in 1 .. Len(A)
      BY <1>2, <2>3
    <3>2. QED
      BY <2>2, <2>3, <3>1, ServerTop, Zenon DEF IInv, Mirror, Mirrors
  <2>8. PICK c \in Calls : c = A[Len(A)].call
    BY <2>7, Zenon
  <2>9. IB' = <<Msg("reply", c)>> /\ IA' = <<>>
    BY <2>1, <2>2, <2>8, MsgType, InboxFacts, Zenon DEF ClientRuns
  <2>10. A'[Len(A')].kind = "call"
    <3>1. /\ Len(A) - 1 \in 1 .. Len(A) - 1 /\ (Len(A) - 1) + 1 = Len(A)
          /\ Len(A) - 1 \in 1 .. Len(A)
      BY <1>2, <2>3
    <3>2. A[Len(A) - 1].kind # A[Len(A)].kind /\ A[Len(A) - 1].kind \in {"call", "serve"}
      BY <2>3, <3>1 DEF Mirrors
    <3>3. QED
      BY <2>1, <2>5, <3>1, <3>2, Zenon
  <2>11. Len(B') = Len(A') + 2 /\ B' = B
    <3>1. \A n \in Nat : n + 1 = (n - 1) + 2
      OBVIOUS
    <3>2. Len(A) + 1 = (Len(A) - 1) + 2
      BY <1>2, <3>1, Zenon
    <3>3. B' = B /\ Len(B) = Len(A) + 1 /\ Len(A') = Len(A) - 1
      BY <2>1, <2>3, <2>5, Zenon
    <3>4. QED
      BY <3>2, <3>3, Zenon
  <2>12. ServerCalls'
    BY <2>5, <2>7, <2>8, <2>9, <2>10, <2>11 DEF ServerCalls, Msg
  <2>13. QED
    BY <2>1, <2>6, <2>12, Zenon DEF IInv, OwnReply
<1>12. ASSUME Finish("server") PROVE IInv'
  <2>1. /\ B # <<>> /\ B[Len(B)].kind = "serve" /\ A' = A
        /\ B' = SubSeq(B, 1, Len(B) - Ending("server"))
        /\ IA' = Append(IA, Msg("reply", B[Len(B)].call)) /\ IB' = IB
        /\ got' = got /\ open' = open
    BY <1>1, <1>12, Zenon DEF Finish, Disciplined, Send, Under, Top, TopCall, TypeOK, A, B,
       IA, IB
  <2>2. ServerRuns
    BY <2>1, ServerTop DEF IInv, ServerCalls, Msg
  <2>3. Mirrors(A, B) /\ B[1] = Loop /\ Len(B) = Len(A) + 1 /\ A # <<>> /\ A[Len(A)].kind = "call"
    BY <2>1, <2>2, Zenon DEF IInv, Mirror, Mirrors, ServerRuns
  <2>4. Ending("server") = IF Len(A) = 1 THEN 2 ELSE 1
    <3>1. Len(B) = 2 <=> Len(A) = 1
      <4>1. \A m, n \in Nat : m = n + 1 => (m = 2 <=> n = 1)
        OBVIOUS
      <4>2. Len(B) = Len(A) + 1
        BY <2>3, Zenon
      <4>3. QED
        BY <1>2, <4>1, <4>2, Zenon
    <3>2. QED
      BY <2>3, <3>1, Zenon DEF Ending, B
  <2>5. PICK n \in Nat : n = Ending("server") /\ n <= Len(B)
    BY <1>2, <2>3, <2>4
  <2>6. B' \in Seq(Frames) /\ Len(B') = Len(B) - n
    BY <1>1, <2>1, <2>5, PrefixFacts, Zenon
  <2>7. Mirror'
    <3>1. Mirrors(SubSeq(A, 1, Len(A) - 0), SubSeq(B, 1, Len(B) - n))
      BY <1>1, <1>2, <2>3, <2>5, Pop
    <3>2. SubSeq(A, 1, Len(A) - 0) = A
      BY <1>1
    <3>3. QED
      BY <2>1, <2>5, <3>1, <3>2, Zenon DEF Mirror
  <2>8. A[Len(A)].call \in Calls /\ B[Len(B)].call = A[Len(A)].call
    <3>1. Len(A) \in 1 .. Len(A)
      BY <1>2, <2>3
    <3>2. QED
      BY <2>2, <2>3, <3>1, ServerTop DEF IInv, Mirror, Mirrors, Msg
  <2>9. PICK c \in Calls : c = A[Len(A)].call
    BY <2>8, Zenon
  <2>10. IA' = <<Msg("reply", c)>> /\ IB' = <<>>
    BY <2>1, <2>2, <2>8, <2>9, MsgType, InboxFacts, Zenon DEF ServerRuns
  <2>11. Len(B') = Len(A) \/ (Len(A) = 1 /\ B' = <<>>)
    BY <1>2, <2>3, <2>4, <2>5, <2>6, EmptyFacts
  <2>12. ClientCalls'
    BY <2>1, <2>3, <2>9, <2>10, <2>11, Zenon DEF ClientCalls
  <2>13. QED
    BY <2>1, <2>7, <2>12, Zenon DEF IInv, OwnReply
<1>13. ASSUME Pin PROVE IInv'
  <2>1. B = <<>> /\ B' = Append(<<>>, Loop) /\ A' = A /\ IA' = IA /\ IB' = IB /\ got' = got /\ open' = open
    BY <1>1, <1>13, Zenon DEF Pin, Push, TypeOK, A, B, IA, IB, Loop
  <2>2. Len(B') = 1 /\ B'[1] = Loop /\ B' # <<>>
    BY <2>1
  <2>3. Mirror'
    BY <1>1, <1>2, <2>1, <2>2 DEF IInv, Mirror, Mirrors
  <2>4. Quiet \/ (ClientCalls /\ Len(A) = 1)
    BY <1>2, <2>1 DEF IInv, ServerRuns, ClientRuns, ClientCalls, ServerCalls
  <2>5. Quiet' \/ ClientCalls'
    BY <2>1, <2>2, <2>4 DEF Quiet, ClientCalls
  <2>6. QED
    BY <2>1, <2>3, <2>5, Zenon DEF IInv, OwnReply
<1>14. ~IgnoreReply
  <2> SUFFICES ASSUME IgnoreReply PROVE FALSE
    BY Zenon
  <2>1. B # <<>> /\ B[Len(B)].kind = "loop" /\ IB # <<>> /\ Head(IB).kind = "reply"
    BY Zenon DEF IgnoreReply, Top, B, IB
  <2>2. ClientCalls
    BY <2>1, Zenon DEF IInv, Quiet, ServerRuns, ClientRuns, ServerCalls
  <2>3. Len(A) \in 1 .. Len(A) /\ IB = <<Msg("transact", A[Len(A)].call)>>
    BY <1>2, <2>1, <2>2 DEF ClientCalls
  <2>4. PICK c \in Calls : c = A[Len(A)].call
    BY <2>3, Zenon DEF IInv, Mirror, Mirrors
  <2>5. QED
    BY <1>4, <2>1, <2>3, <2>4, Zenon
<1>15. /\ ~ServeEnds
       /\ \A e \in Ends : ~CallFails(e) /\ ~FinishFails(e) /\ \A c \in Calls : ~SendFails(e, c)
  BY <1>1, Zenon DEF ServeEnds, SendFails, CallFails, Expires, FinishFails, Disciplined, Ends, Peer
<1>16. ASSUME UNCHANGED vars PROVE IInv'
  BY <1>16, Zenon DEF vars, IInv, Mirror, Quiet, ServerRuns, ClientRuns, ClientCalls, ServerCalls,
     OwnReply, A, B, IA, IB
<1>17. QED
  BY <1>5, <1>6, <1>7, <1>8, <1>9, <1>10, <1>11, <1>12, <1>13, <1>14, <1>15, <1>16, Zenon DEF Next,
     Step, Worker, Ends

\* As long as the client alone starts calls on a connection, all of them
\* twoway, and no deadline cuts a nested call short, every caller returns with
\* the reply to its own call, at any nesting depth.
THEOREM RepliesMatch ==
    ASSUME Disciplined
    PROVE  Spec => []OwnReply
<1>1. Init => IInv
  <2> SUFFICES ASSUME Init PROVE IInv
    BY Zenon
  <2>1. A = <<>> /\ B = <<>> /\ IA = <<>> /\ IB = <<>>
    BY Zenon DEF Init, Ends, A, B, IA, IB
  <2>2. Mirror /\ Quiet
    BY <2>1 DEF Mirror, Mirrors, Quiet
  <2>3. QED
    BY <2>2, Zenon DEF Init, IInv, OwnReply
<1>2. TypeOK /\ IInv /\ [Next]_vars => IInv'
  BY IInvStep, Zenon
<1>3. IInv => OwnReply
  BY Zenon DEF IInv
<1>4. QED
  BY <1>1, <1>2, <1>3, TypeInvariant, PTL DEF Spec
-----------------------------------------------------------------------------
(* One answer per call, whatever the discipline *)

Waiting(e) == 1 .. Len(inbox[e])
Depth(e) == 1 .. Len(stack[e])

\* A call is carried by one thing at a time: a message, the frame that serves it,
\* or the call that took its reply.
WireOnce ==
    \A e, f \in Ends : \A i \in Waiting(e), j \in Waiting(f) :
        inbox[e][i].call = inbox[f][j].call => e = f /\ i = j

ServedOnce ==
    \A e, f \in Ends : \A i \in Depth(e), j \in Depth(f) :
        /\ stack[e][i].kind = "serve" /\ stack[f][j].kind = "serve"
        /\ stack[e][i].call = stack[f][j].call
        => e = f /\ i = j

TakenOnce == \A a, b \in Calls : got[a] = got[b] /\ got[a] # None => a = b

WireNotServed ==
    \A e, f \in Ends : \A i \in Waiting(e), j \in Depth(f) :
        stack[f][j].kind = "serve" => inbox[e][i].call # stack[f][j].call

WireNotTaken == \A e \in Ends : \A i \in Waiting(e) : \A b \in Calls : got[b] # inbox[e][i].call

ServedNotTaken ==
    \A e \in Ends : \A j \in Depth(e) : \A b \in Calls :
        stack[e][j].kind = "serve" => got[b] # stack[e][j].call

\* Only a call that was made is carried, and no oneway is answered.
CarriedWasMade ==
    /\ \A e \in Ends : \A i \in Waiting(e) : st[inbox[e][i].call] # "new"
    /\ \A e \in Ends : \A j \in Depth(e) : stack[e][j].kind = "serve" => st[stack[e][j].call] # "new"
    /\ \A b \in Calls : got[b] # None => st[got[b]] # "new"

TwowayAnswered ==
    /\ \A e \in Ends : \A i \in Waiting(e) : inbox[e][i].kind = "reply" => inbox[e][i].call \notin Oneway
    /\ \A b \in Calls : got[b] # None => got[b] \notin Oneway

OneCarrier ==
    /\ WireOnce /\ ServedOnce /\ TakenOnce
    /\ WireNotServed /\ WireNotTaken /\ ServedNotTaken
    /\ CarriedWasMade /\ TwowayAnswered

\* What a step may do with the carriers: those of the calls other than c stay (d[f]
\* messages are read from the inbox of f, frames go), and c has one new carrier or none.
WireMoves(mode, e, n, c, d) ==
    \A f \in Ends : \A i \in Waiting(f)' :
        \/ /\ i + d[f] \in Waiting(f)
           /\ inbox'[f][i] = inbox[f][i + d[f]] /\ inbox[f][i + d[f]].call # c
        \/ mode = "wire" /\ f = e /\ i = n /\ inbox'[f][i].call = c

ServeMoves(mode, e, n, c) ==
    \A f \in Ends : \A j \in Depth(f)' :
        stack'[f][j].kind = "serve" =>
            \/ j \in Depth(f) /\ stack'[f][j] = stack[f][j] /\ stack[f][j].call # c
            \/ mode = "serve" /\ f = e /\ j = n /\ stack'[f][j].call = c

TakenMoves(mode, k, c) ==
    \A b \in Calls :
        \/ got'[b] = None
        \/ got'[b] = got[b] /\ got[b] # c
        \/ mode = "taken" /\ b = k /\ got'[b] = c

\* A step that moves the carriers so keeps each call carried once.
LEMMA CarriersMove ==
    ASSUME TypeOK, TypeOK', OneCarrier, NEW mode, NEW e, NEW n, NEW c, NEW k,
           NEW d \in [Ends -> Nat],
           WireMoves(mode, e, n, c, d), ServeMoves(mode, e, n, c), TakenMoves(mode, k, c)
    PROVE  /\ WireOnce' /\ ServedOnce' /\ TakenOnce'
           /\ WireNotServed' /\ WireNotTaken' /\ ServedNotTaken'
<1>1. \A f \in Ends : Len(inbox[f]) \in Nat /\ Len(inbox'[f]) \in Nat /\ d[f] \in Nat
  BY DEF TypeOK
<1>2. WireOnce'
  <2> SUFFICES ASSUME NEW f \in Ends, NEW g \in Ends, NEW i \in Waiting(f)', NEW j \in Waiting(g)',
                      inbox'[f][i].call = inbox'[g][j].call
               PROVE  f = g /\ i = j
    BY Zenon DEF WireOnce
  <2>1. CASE inbox'[f][i].call = c
    BY <2>1, Zenon DEF WireMoves
  <2>2. CASE inbox'[f][i].call # c
    <3>1. /\ i + d[f] \in Waiting(f) /\ inbox'[f][i] = inbox[f][i + d[f]]
          /\ j + d[g] \in Waiting(g) /\ inbox'[g][j] = inbox[g][j + d[g]]
      BY <2>2, Zenon DEF WireMoves
    <3>2. inbox[f][i + d[f]].call = inbox[g][j + d[g]].call
      BY <3>1, Zenon
    <3>3. f = g /\ i + d[f] = j + d[g]
      BY <3>1, <3>2, Zenon DEF OneCarrier, WireOnce
    <3>4. QED
      BY <1>1, <3>3 DEF Waiting
  <2>3. QED
    BY <2>1, <2>2, Zenon
<1>3. ServedOnce'
  BY DEF OneCarrier, ServedOnce, ServeMoves
<1>4. TakenOnce'
  BY Zenon DEF OneCarrier, TakenOnce, TakenMoves
<1>5. WireNotServed'
  <2> SUFFICES ASSUME NEW f \in Ends, NEW g \in Ends, NEW i \in Waiting(f)', NEW j \in Depth(g)',
                      stack'[g][j].kind = "serve", inbox'[f][i].call = stack'[g][j].call
               PROVE  FALSE
    BY Zenon DEF WireNotServed
  <2>1. inbox'[f][i].call = c => mode = "wire"
    BY Zenon DEF WireMoves
  <2>2. stack'[g][j].call = c => mode = "serve"
    BY Zenon DEF ServeMoves
  <2>3. CASE inbox'[f][i].call # c
    <3>1. i + d[f] \in Waiting(f) /\ inbox'[f][i] = inbox[f][i + d[f]]
      BY <2>3, Zenon DEF WireMoves
    <3>2. j \in Depth(g) /\ stack'[g][j] = stack[g][j]
      BY <2>3, Zenon DEF ServeMoves
    <3>3. QED
      BY <3>1, <3>2, Zenon DEF OneCarrier, WireNotServed
  <2>4. QED
    BY <2>1, <2>2, <2>3, Zenon
<1>6. WireNotTaken'
  <2> SUFFICES ASSUME NEW f \in Ends, NEW i \in Waiting(f)', NEW b \in Calls,
                      got'[b] = inbox'[f][i].call
               PROVE  FALSE
    BY Zenon DEF WireNotTaken
  <2>1. inbox'[f][i].call = c => mode = "wire"
    BY Zenon DEF WireMoves
  <2>3. inbox'[f][i].call \in Calls
    <3>1. inbox'[f] \in Seq(Messages)
      BY Zenon DEF TypeOK
    <3>2. inbox'[f][i] \in Messages
      BY <3>1 DEF Waiting
    <3>3. QED
      BY <3>2, Zenon DEF Messages
  <2>2. got'[b] = c => mode = "taken"
    BY <2>3, NestedAssumption, Zenon DEF TakenMoves
  <2>4. CASE inbox'[f][i].call # c
    <3>1. i + d[f] \in Waiting(f) /\ inbox'[f][i] = inbox[f][i + d[f]]
      BY <2>4, Zenon DEF WireMoves
    <3>2. got'[b] = got[b]
      BY <2>3, <2>4, NestedAssumption, Zenon DEF TakenMoves
    <3>3. QED
      BY <3>1, <3>2, Zenon DEF OneCarrier, WireNotTaken
  <2>5. QED
    BY <2>1, <2>2, <2>4, Zenon
<1>7. ServedNotTaken'
  <2> SUFFICES ASSUME NEW f \in Ends, NEW j \in Depth(f)', NEW b \in Calls,
                      stack'[f][j].kind = "serve", got'[b] = stack'[f][j].call
               PROVE  FALSE
    BY Zenon DEF ServedNotTaken
  <2>1. stack'[f][j].call = c => mode = "serve"
    BY Zenon DEF ServeMoves
  <2>3. stack'[f][j].call \in Calls
    BY DEF TypeOK, Frames, Depth, Loop, Msg
  <2>2. got'[b] = c => mode = "taken"
    BY <2>3, NestedAssumption, Zenon DEF TakenMoves
  <2>4. CASE stack'[f][j].call # c
    <3>1. j \in Depth(f) /\ stack'[f][j] = stack[f][j]
      BY <2>4, Zenon DEF ServeMoves
    <3>2. got'[b] = got[b]
      BY <2>3, <2>4, NestedAssumption, Zenon DEF TakenMoves
    <3>3. QED
      BY <3>1, <3>2, Zenon DEF OneCarrier, ServedNotTaken
  <2>5. QED
    BY <2>1, <2>2, <2>4, Zenon
<1>8. QED
  BY <1>2, <1>3, <1>4, <1>5, <1>6, <1>7, Zenon

\* A call keeps having been made, and only a twoway gets a reply.
LEMMA CarriersMade ==
    ASSUME TypeOK, TypeOK', OneCarrier, NEW mode, NEW e, NEW n, NEW c, NEW k,
           NEW d \in [Ends -> Nat],
           WireMoves(mode, e, n, c, d), ServeMoves(mode, e, n, c), TakenMoves(mode, k, c),
           \A x \in Calls : st[x] # "new" => st'[x] # "new",
           mode # "none" => st'[c] # "new",
           mode = "taken" \/ (mode = "wire" /\ inbox'[e][n].kind = "reply") => c \notin Oneway
    PROVE  CarriedWasMade' /\ TwowayAnswered'
<1>1. \A f \in Ends : \A i \in Waiting(f) : inbox[f][i].call \in Calls
  <2> TAKE f \in Ends
  <2>1. inbox[f] \in Seq(Messages)
    BY Zenon DEF TypeOK
  <2>2. \A i \in Waiting(f) : inbox[f][i] \in Messages
    BY <2>1 DEF Waiting
  <2>3. QED
    BY <2>2, Zenon DEF Messages
<1>2. \A f \in Ends : \A j \in Depth(f) : stack[f][j].kind = "serve" => stack[f][j].call \in Calls
  BY DEF TypeOK, Frames, Depth, Loop, Msg
<1>3. \A b \in Calls : got[b] # None => got[b] \in Calls
  BY Zenon DEF TypeOK
<1>4. mode = "wire" => mode # "none"
  BY Zenon
<1>5. mode = "serve" => mode # "none"
  BY Zenon
<1>6. mode = "taken" => mode # "none"
  BY Zenon
<1>7. \A f \in Ends : \A i \in Waiting(f)' : st'[inbox'[f][i].call] # "new"
  BY <1>1, <1>4, Zenon DEF OneCarrier, CarriedWasMade, WireMoves
<1>8. \A f \in Ends : \A j \in Depth(f)' : stack'[f][j].kind = "serve" => st'[stack'[f][j].call] # "new"
  BY <1>2, <1>5, Zenon DEF OneCarrier, CarriedWasMade, ServeMoves
<1>9. \A b \in Calls : got'[b] # None => st'[got'[b]] # "new"
  BY <1>3, <1>6, Zenon DEF OneCarrier, CarriedWasMade, TakenMoves
<1>10. \A f \in Ends : \A i \in Waiting(f)' :
         inbox'[f][i].kind = "reply" => inbox'[f][i].call \notin Oneway
  BY Zenon DEF OneCarrier, TwowayAnswered, WireMoves
<1>11. \A b \in Calls : got'[b] # None => got'[b] \notin Oneway
  BY Zenon DEF OneCarrier, TwowayAnswered, TakenMoves
<1>12. QED
  BY <1>7, <1>8, <1>9, <1>10, <1>11, Zenon DEF CarriedWasMade, TwowayAnswered

\* What reading a message, sending one, popping frames and pushing one do.
Read(e) == [f \in Ends |-> IF f = e THEN 1 ELSE 0]
Still == [f \in Ends |-> 0]

\* Reading: the messages behind the head move up by one.
LEMMA Reads ==
    ASSUME TypeOK, NEW e \in Ends, inbox[e] # <<>>, inbox' = [inbox EXCEPT ![e] = Tail(@)]
    PROVE  /\ 1 \in Waiting(e) /\ Head(inbox[e]) = inbox[e][1] /\ inbox[e][1] \in Messages
           /\ Read(e) \in [Ends -> Nat] /\ Read(e)[e] = 1
           /\ \A f \in Ends : \A i \in Waiting(f)' :
                 /\ i \in Nat \ {0} /\ i + Read(e)[f] \in Waiting(f)
                 /\ inbox'[f][i] = inbox[f][i + Read(e)[f]]
                 /\ f = e => i + Read(e)[f] # 1
<1>1. inbox[e] \in Seq(Messages)
  BY Zenon DEF TypeOK
<1>2. 1 \in Waiting(e) /\ Head(inbox[e]) = inbox[e][1] /\ inbox[e][1] \in Messages
  BY <1>1 DEF Waiting
<1>3. Read(e) \in [Ends -> Nat] /\ Read(e)[e] = 1 /\ \A f \in Ends : f # e => Read(e)[f] = 0
  BY Zenon DEF Read
<1>4. ASSUME NEW f \in Ends, NEW i \in Waiting(f)'
      PROVE  /\ i \in Nat \ {0} /\ i + Read(e)[f] \in Waiting(f)
             /\ inbox'[f][i] = inbox[f][i + Read(e)[f]]
             /\ f = e => i + Read(e)[f] # 1
  <2>1. CASE f = e
    <3>1. inbox'[f] = Tail(inbox[e])
      BY <2>1, Zenon DEF TypeOK
    <3>2. i \in 1 .. Len(Tail(inbox[e]))
      BY <3>1, Zenon DEF Waiting
    <3>3. /\ i \in Nat \ {0} /\ i + 1 \in 1 .. Len(inbox[e])
          /\ Tail(inbox[e])[i] = inbox[e][i + 1]
      BY <1>1, <3>2
    <3>4. Read(e)[f] = 1 /\ i + 1 # 1
      BY <1>3, <2>1, <3>3
    <3>5. QED
      BY <2>1, <3>1, <3>3, <3>4, Zenon DEF Waiting
  <2>2. CASE f # e
    <3>1. inbox'[f] = inbox[f] /\ inbox[f] \in Seq(Messages)
      BY <2>2, Zenon DEF TypeOK
    <3>2. QED
      BY <1>3, <2>2, <3>1 DEF Waiting
  <2>3. QED
    BY <2>1, <2>2, Zenon
<1>5. QED
  BY <1>2, <1>3, <1>4, Zenon

\* Sending: one message is new, at the end.
LEMMA Sends ==
    ASSUME TypeOK, NEW e \in Ends, NEW m \in Messages, inbox' = [inbox EXCEPT ![e] = Append(@, m)]
    PROVE  /\ inbox'[e][Len(inbox[e]) + 1] = m
           /\ \A f \in Ends : \A i \in Waiting(f)' :
                 \/ i \in Waiting(f) /\ inbox'[f][i] = inbox[f][i]
                 \/ f = e /\ i = Len(inbox[e]) + 1 /\ inbox'[f][i] = m
<1>1. inbox[e] \in Seq(Messages) /\ inbox'[e] = Append(inbox[e], m)
  BY Zenon DEF TypeOK
<1>2. inbox'[e][Len(inbox[e]) + 1] = m
  BY <1>1
<1>3. ASSUME NEW f \in Ends, NEW i \in Waiting(f)'
      PROVE  \/ i \in Waiting(f) /\ inbox'[f][i] = inbox[f][i]
             \/ f = e /\ i = Len(inbox[e]) + 1 /\ inbox'[f][i] = m
  <2>1. CASE f = e
    <3>1. i \in 1 .. Len(Append(inbox[e], m))
      BY <1>1, <2>1, Zenon DEF Waiting
    <3>2. CASE i = Len(inbox[e]) + 1
      BY <1>2, <2>1, <3>2, Zenon
    <3>3. CASE i # Len(inbox[e]) + 1
      <4>1. i \in 1 .. Len(inbox[e]) /\ Append(inbox[e], m)[i] = inbox[e][i]
        BY <1>1, <3>1, <3>3
      <4>2. QED
        BY <1>1, <2>1, <4>1, Zenon DEF Waiting
    <3>4. QED
      BY <3>2, <3>3, Zenon
  <2>2. CASE f # e
    BY <2>2, Zenon DEF TypeOK, Waiting
  <2>3. QED
    BY <2>1, <2>2, Zenon
<1>4. QED
  BY <1>2, <1>3, Zenon

\* Popping: the frames left are where they were.
LEMMA Pops ==
    ASSUME TypeOK, NEW e \in Ends, NEW n \in Nat, stack' = [stack EXCEPT ![e] = Under(e, n)]
    PROVE  \A f \in Ends : \A j \in Depth(f)' :
              /\ j \in Depth(f) /\ stack'[f][j] = stack[f][j]
              /\ f = e => j <= Len(stack[e]) - n
<1> SUFFICES ASSUME NEW f \in Ends, NEW j \in Depth(f)'
             PROVE  /\ j \in Depth(f) /\ stack'[f][j] = stack[f][j]
                    /\ f = e => j <= Len(stack[e]) - n
  BY Zenon
<1>1. CASE f = e
  <2>1. stack[e] \in Seq(Frames) /\ stack'[f] = SubSeq(stack[e], 1, Len(stack[e]) - n)
    BY <1>1, Zenon DEF TypeOK, Under
  <2>2. j \in 1 .. Len(SubSeq(stack[e], 1, Len(stack[e]) - n))
    BY <2>1, Zenon DEF Depth
  <2>3. /\ j \in 1 .. Len(stack[e]) /\ j <= Len(stack[e]) - n
        /\ SubSeq(stack[e], 1, Len(stack[e]) - n)[j] = stack[e][j]
    BY <2>1, <2>2
  <2>4. QED
    BY <1>1, <2>1, <2>3, Zenon DEF Depth
<1>2. CASE f # e
  BY <1>2, Zenon DEF TypeOK, Depth
<1>3. QED
  BY <1>1, <1>2, Zenon

\* Pushing: one frame is new, on top.
LEMMA Pushes ==
    ASSUME TypeOK, NEW e \in Ends, NEW x \in Frames, stack' = [stack EXCEPT ![e] = Append(@, x)]
    PROVE  \A f \in Ends : \A j \in Depth(f)' :
              \/ j \in Depth(f) /\ stack'[f][j] = stack[f][j]
              \/ f = e /\ j = Len(stack[e]) + 1 /\ stack'[f][j] = x
<1> SUFFICES ASSUME NEW f \in Ends, NEW j \in Depth(f)'
             PROVE  \/ j \in Depth(f) /\ stack'[f][j] = stack[f][j]
                    \/ f = e /\ j = Len(stack[e]) + 1 /\ stack'[f][j] = x
  BY Zenon
<1>1. CASE f = e
  <2>1. stack[e] \in Seq(Frames) /\ stack'[f] = Append(stack[e], x)
    BY <1>1, Zenon DEF TypeOK
  <2>2. j \in 1 .. Len(Append(stack[e], x))
    BY <2>1, Zenon DEF Depth
  <2>3. CASE j = Len(stack[e]) + 1
    BY <1>1, <2>1, <2>3
  <2>4. CASE j # Len(stack[e]) + 1
    <3>1. j \in 1 .. Len(stack[e]) /\ Append(stack[e], x)[j] = stack[e][j]
      BY <2>1, <2>2, <2>4
    <3>2. QED
      BY <1>1, <2>1, <3>1, Zenon DEF Depth
  <2>5. QED
    BY <2>3, <2>4, Zenon
<1>2. CASE f # e
  BY <1>2, Zenon DEF TypeOK, Depth
<1>3. QED
  BY <1>1, <1>2, Zenon

\* Every step keeps each call carried once.
LEMMA OneCarrierStep ==
    ASSUME TypeOK, TypeOK', OneCarrier, [Next]_vars
    PROVE  OneCarrier'
<1>1. Still \in [Ends -> Nat] /\ \A f \in Ends : Still[f] = 0
  BY Zenon DEF Still
<1>2. \A f \in Ends : \A i \in Waiting(f) : i + Still[f] = i /\ inbox[f][i].call \in Calls
  <2> TAKE f \in Ends
  <2>1. inbox[f] \in Seq(Messages)
    BY Zenon DEF TypeOK
  <2>2. \A i \in Waiting(f) : inbox[f][i] \in Messages /\ i \in Nat
    BY <2>1 DEF Waiting
  <2>3. QED
    BY <1>1, <2>2 DEF Messages
<1>3. \A f \in Ends : \A j \in Depth(f) : stack[f][j].kind = "serve" => stack[f][j].call \in Calls
  BY DEF TypeOK, Frames, Depth, Loop, Msg
<1>4. \A b \in Calls : got[b] \in Calls \cup {None}
  BY Zenon DEF TypeOK
<1>5. \A f \in Ends : Peer(f) \in Ends
  BY Zenon DEF Peer, Ends
\* A step that leaves the inboxes and what was taken alone and serves nothing new.
<1>6. ASSUME UNCHANGED <<inbox, got>>,
             \A x \in Calls : st[x] # "new" => st'[x] # "new",
             \A f \in Ends : \A j \in Depth(f)' :
                stack'[f][j].kind = "serve" => j \in Depth(f) /\ stack'[f][j] = stack[f][j]
      PROVE  OneCarrier'
  <2>1. WireMoves("none", "client", 0, None, Still)
    BY <1>2, <1>6, NestedAssumption DEF WireMoves, Waiting
  <2>2. ServeMoves("none", "client", 0, None)
    BY <1>3, <1>6, NestedAssumption DEF ServeMoves
  <2>3. TakenMoves("none", None, None)
    BY <1>6, Zenon DEF TakenMoves
  <2>4. QED
    BY <1>1, <1>6, <2>1, <2>2, <2>3, CarriersMove, CarriersMade, Zenon DEF OneCarrier
<1>7. ASSUME NEW e \in Ends, NEW c \in Calls, Transact(e, c) PROVE OneCarrier'
  <2> DEFINE p == Peer(e)
             n == Len(inbox[p]) + 1
  <2>1. inbox' = [inbox EXCEPT ![p] = Append(@, Msg("transact", c))] /\ Msg("transact", c) \in Messages
    BY <1>7, MsgType, Zenon DEF Transact, MayCall, Send
  <2>2. /\ inbox'[p][n] = Msg("transact", c)
        /\ \A f \in Ends : \A i \in Waiting(f)' :
              \/ i \in Waiting(f) /\ inbox'[f][i] = inbox[f][i]
              \/ f = p /\ i = n /\ inbox'[f][i] = Msg("transact", c)
    BY <1>5, <2>1, Sends, Zenon
  <2>3. /\ \A f \in Ends : \A i \in Waiting(f) : inbox[f][i].call # c
        /\ \A f \in Ends : \A j \in Depth(f) : stack[f][j].kind = "serve" => stack[f][j].call # c
        /\ \A b \in Calls : got[b] # c
    <3>1. st[c] = "new"
      BY <1>7, Zenon DEF Transact, MayCall
    <3>2. QED
      BY <3>1, NestedAssumption, Zenon DEF OneCarrier, CarriedWasMade
  <2> HIDE DEF p, n
  <2>4. WireMoves("wire", p, n, c, Still)
    BY <1>2, <2>2, <2>3 DEF WireMoves, Msg
  <2>5. \A f \in Ends : \A j \in Depth(f)' :
           stack'[f][j].kind = "serve" => j \in Depth(f) /\ stack'[f][j] = stack[f][j]
    <3>1. CASE c \in Oneway
      BY <1>7, <3>1, Zenon DEF Transact, MayCall, Depth
    <3>2. CASE c \notin Oneway
      <4>1. PICK x \in Frames : x = Msg("call", c)
        BY MsgType, Zenon
      <4>2. x.kind # "serve" /\ stack' = [stack EXCEPT ![e] = Append(@, x)]
        BY <1>7, <3>2, <4>1, Zenon DEF Transact, MayCall, Push, Msg
      <4>3. \A f \in Ends : \A j \in Depth(f)' :
               \/ j \in Depth(f) /\ stack'[f][j] = stack[f][j]
               \/ f = e /\ j = Len(stack[e]) + 1 /\ stack'[f][j] = x
        BY <4>2, Pushes, Zenon
      <4>4. QED
        BY <4>2, <4>3, Zenon
    <3>3. QED
      BY <3>1, <3>2, Zenon
  <2>6. ServeMoves("wire", p, n, c)
    BY <2>3, <2>5 DEF ServeMoves
  <2>7. TakenMoves("wire", None, c)
    BY <1>7, <2>3, Zenon DEF TakenMoves, Transact
  <2>8. st'[c] # "new" /\ \A x \in Calls : st[x] # "new" => st'[x] # "new"
    BY <1>7, Zenon DEF Transact, MayCall, TypeOK
  <2>9. inbox'[p][n].kind # "reply"
    BY <2>2 DEF Msg
  <2>10. QED
    BY <1>1, <2>4, <2>6, <2>7, <2>8, <2>9, CarriersMove, CarriersMade, Zenon DEF OneCarrier
<1>8. ASSUME NEW e \in Ends, TakeReply(e) PROVE OneCarrier'
  <2> DEFINE c == inbox[e][1].call
             k == TopCall(e)
  <2>1. /\ 1 \in Waiting(e) /\ Head(inbox[e]) = inbox[e][1] /\ inbox[e][1] \in Messages
        /\ Read(e) \in [Ends -> Nat] /\ Read(e)[e] = 1
        /\ \A f \in Ends : \A i \in Waiting(f)' :
              /\ i \in Nat \ {0} /\ i + Read(e)[f] \in Waiting(f)
              /\ inbox'[f][i] = inbox[f][i + Read(e)[f]]
              /\ f = e => i + Read(e)[f] # 1
    BY <1>8, Reads, Zenon DEF TakeReply
  <2>2. c \in Calls /\ inbox[e][1].kind = "reply"
    BY <1>8, <2>1, Zenon DEF TakeReply, Messages
  <2>3. /\ \A f \in Ends : \A i \in Waiting(f) : f # e \/ i # 1 => inbox[f][i].call # c
        /\ \A f \in Ends : \A j \in Depth(f) : stack[f][j].kind = "serve" => stack[f][j].call # c
        /\ \A b \in Calls : got[b] # c
        /\ st[c] # "new" /\ c \notin Oneway
    BY <2>1, <2>2 DEF OneCarrier, WireOnce, WireNotServed, WireNotTaken, CarriedWasMade,
       TwowayAnswered
  <2>4. /\ got' = [got EXCEPT ![k] = c] /\ st' = [st EXCEPT ![k] = "replied"]
        /\ stack' = [stack EXCEPT ![e] = Under(e, 1)]
    BY <1>8, <2>1, Zenon DEF TakeReply
  <2> HIDE DEF c, k
  <2>5. WireMoves("taken", e, 0, c, Read(e))
    BY <2>1, <2>3 DEF WireMoves
  <2>6. ServeMoves("taken", e, 0, c)
    <3>1. PICK n \in Nat : n = 1
      BY Zenon
    <3>2. stack' = [stack EXCEPT ![e] = Under(e, n)]
      BY <2>4, <3>1, Zenon
    <3>3. \A f \in Ends : \A j \in Depth(f)' : j \in Depth(f) /\ stack'[f][j] = stack[f][j]
      BY <3>2, Pops, ZenonT(60)
    <3>4. QED
      BY <2>3, <3>3 DEF ServeMoves
  <2>7. TakenMoves("taken", k, c)
    BY <2>3, <2>4, Zenon DEF TakenMoves, TypeOK
  <2>8. st'[c] # "new" /\ \A x \in Calls : st[x] # "new" => st'[x] # "new"
    BY <2>2, <2>3, <2>4, Zenon DEF TypeOK
  <2>9. QED
    BY <2>1, <2>3, <2>5, <2>6, <2>7, <2>8, CarriersMove, CarriersMade, Zenon DEF OneCarrier
<1>9. ASSUME NEW e \in Ends, Dispatch(e) PROVE OneCarrier'
  <2> DEFINE c == inbox[e][1].call
             n == Len(stack[e]) + 1
  <2>1. /\ 1 \in Waiting(e) /\ Head(inbox[e]) = inbox[e][1] /\ inbox[e][1] \in Messages
        /\ Read(e) \in [Ends -> Nat] /\ Read(e)[e] = 1
        /\ \A f \in Ends : \A i \in Waiting(f)' :
              /\ i \in Nat \ {0} /\ i + Read(e)[f] \in Waiting(f)
              /\ inbox'[f][i] = inbox[f][i + Read(e)[f]]
              /\ f = e => i + Read(e)[f] # 1
    BY <1>9, Reads, Zenon DEF Dispatch
  <2>2. c \in Calls
    BY <2>1, Zenon DEF Messages
  <2>3. /\ \A f \in Ends : \A i \in Waiting(f) : f # e \/ i # 1 => inbox[f][i].call # c
        /\ \A f \in Ends : \A j \in Depth(f) : stack[f][j].kind = "serve" => stack[f][j].call # c
        /\ \A b \in Calls : got[b] # c
        /\ st[c] # "new"
    BY <2>1, <2>2 DEF OneCarrier, WireOnce, WireNotServed, WireNotTaken, CarriedWasMade
  <2>4. UNCHANGED <<st, got>>
    BY <1>9, Zenon DEF Dispatch
  <2>5. \A f \in Ends : \A j \in Depth(f)' :
           \/ j \in Depth(f) /\ stack'[f][j] = stack[f][j]
           \/ f = e /\ j = n /\ stack'[f][j] = Msg("serve", c)
    <3>1. PICK x \in Frames : x = Msg("serve", c)
      BY <2>2, MsgType, Zenon
    <3>2. stack' = [stack EXCEPT ![e] = Append(@, x)]
      BY <1>9, <2>1, <3>1, Zenon DEF Dispatch, Push
    <3>3. QED
      BY <3>1, <3>2, Pushes, ZenonT(60)
  <2> HIDE DEF c, n
  <2>6. WireMoves("serve", e, n, c, Read(e))
    BY <2>1, <2>3 DEF WireMoves
  <2>7. ServeMoves("serve", e, n, c)
    BY <2>3, <2>5 DEF ServeMoves, Msg
  <2>8. TakenMoves("serve", None, c)
    BY <2>3, <2>4, Zenon DEF TakenMoves
  <2>9. QED
    BY <2>1, <2>3, <2>4, <2>6, <2>7, <2>8, CarriersMove, CarriersMade, Zenon DEF OneCarrier
<1>10. ASSUME NEW e \in Ends, CallFails(e) PROVE OneCarrier'
  <2>1. /\ UNCHANGED <<inbox, got>> /\ stack' = [stack EXCEPT ![e] = Under(e, 1)]
        /\ \A x \in Calls : st[x] # "new" => st'[x] # "new"
    BY <1>10, Zenon DEF CallFails, Unwind, TypeOK
  <2>2. PICK n \in Nat : n = 1
    OBVIOUS
  <2>3. stack' = [stack EXCEPT ![e] = Under(e, n)]
    BY <2>1, <2>2, Zenon
  <2>4. \A f \in Ends : \A j \in Depth(f)' : j \in Depth(f) /\ stack'[f][j] = stack[f][j]
    BY <2>3, Pops, ZenonT(60)
  <2>5. QED
    BY <1>6, <2>1, <2>4, Zenon
<1>11. ASSUME NEW e \in Ends, Finish(e) PROVE OneCarrier'
  <2>1. /\ UNCHANGED <<st, got>> /\ stack' = [stack EXCEPT ![e] = Under(e, Ending(e))]
        /\ Ending(e) \in Nat /\ Ending(e) >= 1
    BY <1>11 DEF Finish, Ending
  <2>2. \A f \in Ends : \A j \in Depth(f)' :
           /\ j \in Depth(f) /\ stack'[f][j] = stack[f][j]
           /\ f = e => j <= Len(stack[e]) - Ending(e)
    BY <2>1, Pops, Zenon
  <2>3. CASE TopCall(e) \in Oneway
    BY <1>6, <1>11, <2>1, <2>2, <2>3, Zenon DEF Finish
  <2>4. CASE TopCall(e) \notin Oneway
    <3> DEFINE c == TopCall(e)
               p == Peer(e)
               n == Len(inbox[p]) + 1
               t == Len(stack[e])
    <3>1. /\ t \in Depth(e) /\ stack[e][t].kind = "serve" /\ stack[e][t].call = c /\ c \in Calls
          /\ t \in Nat
      <4>1. stack[e] # <<>> /\ stack[e][t].kind = "serve" /\ stack[e] \in Seq(Frames)
        BY <1>11, Zenon DEF Finish, Top, TypeOK
      <4>2. t \in Depth(e) /\ t \in Nat
        BY <4>1 DEF Depth
      <4>3. QED
        BY <1>3, <4>1, <4>2, Zenon DEF TopCall
    <3>2. /\ inbox' = [inbox EXCEPT ![p] = Append(@, Msg("reply", c))]
          /\ Msg("reply", c) \in Messages
      BY <1>11, <2>4, <3>1, MsgType, Zenon DEF Finish, Send
    <3>3. /\ inbox'[p][n] = Msg("reply", c)
          /\ \A f \in Ends : \A i \in Waiting(f)' :
                \/ i \in Waiting(f) /\ inbox'[f][i] = inbox[f][i]
                \/ f = p /\ i = n /\ inbox'[f][i] = Msg("reply", c)
      BY <1>5, <3>2, Sends, Zenon
    <3> HIDE DEF c, p, n, t
    <3>4. /\ \A f \in Ends : \A i \in Waiting(f) : inbox[f][i].call # c
          /\ \A f \in Ends : \A j \in Depth(f) :
                stack[f][j].kind = "serve" /\ (f # e \/ j # t) => stack[f][j].call # c
          /\ \A b \in Calls : got[b] # c
          /\ st[c] # "new"
      BY <3>1, Zenon DEF OneCarrier, ServedOnce, WireNotServed, ServedNotTaken, CarriedWasMade
    <3>5. WireMoves("wire", p, n, c, Still)
      BY <1>2, <3>3, <3>4 DEF WireMoves, Msg
    <3>6. \A j \in Depth(e)' : j # t
      BY <2>1, <2>2, <3>1 DEF t
    <3>7. ServeMoves("wire", p, n, c)
      BY <2>2, <3>4, <3>6 DEF ServeMoves
    <3>8. TakenMoves("wire", None, c)
      BY <2>1, <3>4, Zenon DEF TakenMoves
    <3>9. c \notin Oneway
      BY <2>4, Zenon DEF c
    <3>10. QED
      BY <1>1, <2>1, <3>4, <3>5, <3>7, <3>8, <3>9, CarriersMove, CarriersMade, Zenon
         DEF OneCarrier
  <2>5. QED
    BY <2>3, <2>4, Zenon
<1>12. ASSUME NEW e \in Ends, FinishFails(e) PROVE OneCarrier'
  <2>1. UNCHANGED <<inbox, got>> /\ stack' = [stack EXCEPT ![e] = Under(e, 2)]
    BY <1>12, Zenon DEF FinishFails, Unwind
  <2>2. \A x \in Calls : st[x] # "new" => st'[x] # "new"
    BY <1>12, Zenon DEF FinishFails, TypeOK
  <2>3. PICK n \in Nat : n = 2
    BY Zenon
  <2>4. stack' = [stack EXCEPT ![e] = Under(e, n)]
    BY <2>1, <2>3, Zenon
  <2>5. \A f \in Ends : \A j \in Depth(f)' : j \in Depth(f) /\ stack'[f][j] = stack[f][j]
    BY <2>4, Pops, ZenonT(60)
  <2>6. QED
    BY <1>6, <2>1, <2>2, <2>5, Zenon
<1>13. CASE Worker
  <2>1. "server" \in Ends
    BY Zenon DEF Ends
  <2>2. CASE Pin
    <3>1. PICK x \in Frames : x = Loop
      BY MsgType, Zenon
    <3>2. /\ x.kind # "serve" /\ stack' = [stack EXCEPT !["server"] = Append(@, x)]
          /\ UNCHANGED <<inbox, st, got>>
      BY <2>2, <3>1, Zenon DEF Pin, Push, Loop, Msg
    <3>3. \A f \in Ends : \A j \in Depth(f)' :
             \/ j \in Depth(f) /\ stack'[f][j] = stack[f][j]
             \/ f = "server" /\ j = Len(stack["server"]) + 1 /\ stack'[f][j] = x
      BY <2>1, <3>2, Pushes, Zenon
    <3>4. QED
      BY <1>6, <3>2, <3>3, Zenon
  <2>3. CASE IgnoreReply
    <3>1. /\ Read("server") \in [Ends -> Nat]
          /\ \A f \in Ends : \A i \in Waiting(f)' :
                /\ i + Read("server")[f] \in Waiting(f)
                /\ inbox'[f][i] = inbox[f][i + Read("server")[f]]
      BY <2>1, <2>3, Reads, Zenon DEF IgnoreReply
    <3>2. \A f \in Ends : \A j \in Depth(f)' : j \in Depth(f) /\ stack'[f][j] = stack[f][j]
      BY <2>3 DEF IgnoreReply, Depth, TypeOK
    <3>3. WireMoves("none", "server", 0, None, Read("server"))
      BY <1>2, <3>1, NestedAssumption, Zenon DEF WireMoves
    <3>4. ServeMoves("none", "server", 0, None)
      BY <1>3, <3>2, NestedAssumption DEF ServeMoves
    <3>5. TakenMoves("none", None, None) /\ UNCHANGED st
      BY <2>3, Zenon DEF TakenMoves, IgnoreReply
    <3>6. QED
      BY <3>1, <3>3, <3>4, <3>5, CarriersMove, CarriersMade, Zenon DEF OneCarrier
  <2>4. CASE ServeEnds
    <3>1. PICK n \in Nat : n = 1
      BY Zenon
    <3>2. /\ stack' = [stack EXCEPT !["server"] = Under("server", n)]
          /\ UNCHANGED <<inbox, st, got>>
      BY <2>4, <3>1, Zenon DEF ServeEnds, Unwind
    <3>3. \A f \in Ends : \A j \in Depth(f)' : j \in Depth(f) /\ stack'[f][j] = stack[f][j]
      <4>1. PICK e \in Ends : e = "server"
        BY <2>1, Zenon
      <4>2. stack' = [stack EXCEPT ![e] = Under(e, n)]
        BY <3>2, <4>1, Zenon
      <4>3. QED
        BY <4>2, Pops, ZenonT(60)
    <3>4. QED
      BY <1>6, <3>2, <3>3, Zenon
  <2>5. QED
    BY <1>13, <2>2, <2>3, <2>4, Zenon DEF Worker
<1>14. CASE UNCHANGED vars
  BY <1>6, <1>14, Zenon DEF vars, Depth
<1>16. ASSUME NEW e \in Ends, NEW c \in Calls, SendFails(e, c) PROVE OneCarrier'
  BY <1>6, <1>16, Zenon DEF SendFails, TypeOK, Depth
<1>15. QED
  BY <1>7, <1>16, <1>8, <1>9, <1>10, <1>11, <1>12, <1>13, <1>14, Zenon DEF Next, Step

\* A slot leaves a pool only with its last frame.
LEMMA RetiredStep ==
    ASSUME TypeOK, RetiredIsIdle, [Next]_vars
    PROVE  RetiredIsIdle'
<1> USE DEF RetiredIsIdle
<1>1. ASSUME NEW e \in Ends, NEW n \in Nat, Unwind(e, n) PROVE RetiredIsIdle'
  <2>1. /\ stack'[e] = Under(e, n) /\ open'[e] = (open[e] /\ Under(e, n) # <<>>)
        /\ \A f \in Ends \ {e} : stack'[f] = stack[f] /\ open'[f] = open[f]
    BY <1>1, Zenon DEF Unwind, TypeOK
  <2>2. ~open[e] => Under(e, n) = <<>>
    <3>1. Len(<<>>) = 0 /\ \A m \in Int : m <= 0 => SubSeq(<<>>, 1, m) = <<>>
      OBVIOUS
    <3>2. QED
      BY <3>1 DEF Under
  <2>3. QED
    BY <2>1, <2>2, Zenon
<1>2. ASSUME NEW e \in Ends, open[e], UNCHANGED open, \A f \in Ends \ {e} : stack'[f] = stack[f]
      PROVE  RetiredIsIdle'
  BY <1>2, Zenon
<1>3. \A e \in Ends, kind \in {"call", "loop", "serve"} : Top(e, kind) => open[e]
  BY Zenon DEF Top
<1>4. ASSUME NEW e \in Ends, NEW c \in Calls, Transact(e, c) \/ SendFails(e, c) PROVE RetiredIsIdle'
  BY <1>2, <1>4, Zenon DEF Transact, SendFails, MayCall, Push, TypeOK
<1>5. ASSUME NEW e \in Ends, TakeReply(e) PROVE RetiredIsIdle'
  BY <1>2, <1>3, <1>5, Zenon DEF TakeReply, TypeOK
<1>6. ASSUME NEW e \in Ends, Dispatch(e) PROVE RetiredIsIdle'
  BY <1>2, <1>3, <1>6, Zenon DEF Dispatch, Push, TypeOK
<1>7. ASSUME NEW e \in Ends, CallFails(e) \/ FinishFails(e) PROVE RetiredIsIdle'
  BY <1>1, <1>7, Zenon DEF CallFails, FinishFails
<1>8. ASSUME NEW e \in Ends, Finish(e) PROVE RetiredIsIdle'
  BY <1>2, <1>3, <1>8, Zenon DEF Finish, TypeOK
<1>9. CASE Worker
  <2>1. "server" \in Ends
    BY Zenon DEF Ends
  <2>2. CASE Pin
    BY <1>2, <2>1, <2>2, Zenon DEF Pin, Push, TypeOK
  <2>3. CASE IgnoreReply
    BY <2>3, Zenon DEF IgnoreReply, TypeOK
  <2>4. CASE ServeEnds
    BY <1>1, <2>1, <2>4, Zenon DEF ServeEnds
  <2>5. QED
    BY <1>9, <2>2, <2>3, <2>4, Zenon DEF Worker
<1>10. CASE UNCHANGED vars
  BY <1>10, Zenon DEF vars
<1>11. QED
  BY <1>4, <1>5, <1>6, <1>7, <1>8, <1>9, <1>10, Zenon DEF Next, Step

-----------------------------------------------------------------------------
(* Answers are counted. *)

INSTANCE FiniteSetTheorems

\* A set of which any two members are the same has at most one.
LEMMA AtMostOne ==
    ASSUME NEW S, \A x, y \in S : x = y
    PROVE  Cardinality(S) <= 1
<1>1. CASE S = {}
  BY <1>1, FS_EmptySet
<1>2. ASSUME NEW x \in S PROVE Cardinality(S) <= 1
  <2>1. S = {x}
    BY <1>2, Zenon
  <2>2. QED
    BY <2>1, FS_Singleton
<1>3. QED
  BY <1>1, <1>2, Zenon

\* A call carried once is answered at most once, and not while it is served.
LEMMA OneCarrierAnswers ==
    ASSUME TypeOK, OneCarrier
    PROVE  AnsweredOnce
<1> SUFFICES ASSUME NEW c \in Calls
             PROVE  /\ Cardinality(Replies(c)) <= 1
                    /\ Replies(c) # {} =>
                          /\ c \notin Oneway
                          /\ \A e \in Ends, i \in 1 .. MaxDepth + 1 :
                                i <= Len(stack[e]) => stack[e][i] # Msg("serve", c)
  BY Zenon DEF AnsweredOnce
<1>1. ASSUME NEW x \in Replies(c)
      PROVE  \/ \E e \in Ends : \E i \in Waiting(e) : x = <<e, i>> /\ inbox[e][i] = Msg("reply", c)
             \/ \E b \in Calls : x = <<"taken by", b>> /\ got[b] = c
  <2>1. CASE \E b \in {a \in Calls : got[a] = c} : x = <<"taken by", b>>
    BY <2>1, Zenon
  <2>2. CASE x \in {p \in Ends \X (1 .. Cardinality(Calls)) :
                     p[2] <= Len(inbox[p[1]]) /\ inbox[p[1]][p[2]] = Msg("reply", c)}
    <3>1. PICK e \in Ends, i \in 1 .. Cardinality(Calls) : x = <<e, i>>
      BY <2>2
    <3>2. i <= Len(inbox[e]) /\ inbox[e][i] = Msg("reply", c)
      BY <2>2, <3>1, Zenon
    <3>3. i \in Waiting(e)
      BY <3>2 DEF Waiting, TypeOK
    <3>4. QED
      BY <3>1, <3>2, <3>3, Zenon
  <2>3. QED
    BY <1>1, <2>1, <2>2, Zenon DEF Replies
<1>2. \A x, y \in Replies(c) : x = y
  <2> SUFFICES ASSUME NEW x \in Replies(c), NEW y \in Replies(c) PROVE x = y
    BY Zenon
  <2>1. ASSUME NEW b \in Calls, x = <<"taken by", b>>, got[b] = c PROVE x = y
    <3>1. \A e \in Ends : \A i \in Waiting(e) : inbox[e][i] # Msg("reply", c)
      <4>1. Msg("reply", c).call = c
        BY Zenon DEF Msg
      <4>2. QED
        BY <2>1, <4>1, Zenon DEF OneCarrier, WireNotTaken
    <3>2. PICK a \in Calls : y = <<"taken by", a>> /\ got[a] = c
      BY <1>1, <3>1, Zenon
    <3>3. QED
      BY <2>1, <3>2, NestedAssumption, Zenon DEF OneCarrier, TakenOnce
  <2>2. ASSUME NEW e \in Ends, NEW i \in Waiting(e), x = <<e, i>>, inbox[e][i] = Msg("reply", c)
        PROVE  x = y
    <3>1. \A b \in Calls : got[b] # c
      BY <2>2 DEF OneCarrier, WireNotTaken, Msg
    <3>2. PICK f \in Ends : \E j \in Waiting(f) : y = <<f, j>> /\ inbox[f][j] = Msg("reply", c)
      BY <1>1, <3>1, Zenon
    <3>3. PICK j \in Waiting(f) : y = <<f, j>> /\ inbox[f][j] = Msg("reply", c)
      BY <3>2, Zenon
    <3>4. e = f /\ i = j
      BY <2>2, <3>3 DEF OneCarrier, WireOnce
    <3>5. QED
      BY <2>2, <3>3, <3>4, Zenon
  <2>3. QED
    BY <1>1, <2>1, <2>2, Zenon
<1>3. Cardinality(Replies(c)) <= 1
  BY <1>2, AtMostOne, Zenon
<1>4. ASSUME NEW x \in Replies(c)
      PROVE  /\ c \notin Oneway
             /\ \A e \in Ends : \A j \in Depth(e) : stack[e][j] # Msg("serve", c)
  <2>1. ASSUME NEW b \in Calls, got[b] = c
        PROVE  /\ c \notin Oneway
               /\ \A e \in Ends : \A j \in Depth(e) : stack[e][j] # Msg("serve", c)
    BY <2>1, NestedAssumption DEF OneCarrier, ServedNotTaken, TwowayAnswered, Msg
  <2>2. ASSUME NEW f \in Ends, NEW i \in Waiting(f), inbox[f][i] = Msg("reply", c)
        PROVE  /\ c \notin Oneway
               /\ \A e \in Ends : \A j \in Depth(e) : stack[e][j] # Msg("serve", c)
    BY <2>2 DEF OneCarrier, WireNotServed, TwowayAnswered, Msg
  <2>3. QED
    BY <1>1, <2>1, <2>2, Zenon
<1>5. \A e \in Ends, i \in 1 .. MaxDepth + 1 : i <= Len(stack[e]) => i \in Depth(e)
  BY NestedAssumption DEF Depth, TypeOK
<1>6. QED
  BY <1>3, <1>4, <1>5, Zenon

\* Whatever crosses, comes late, times out or fails on a connection, and whichever
\* ends call: a call is answered at most once, never before its handler returned and
\* never if it is a oneway; and no slot is retired under a running frame.
THEOREM OneAnswerPerCall == Spec => []AnswersKept
<1>1. Init => OneCarrier /\ RetiredIsIdle
  <2> SUFFICES ASSUME Init PROVE OneCarrier /\ RetiredIsIdle
    BY Zenon
  <2>1. \A e \in Ends : Waiting(e) = {} /\ Depth(e) = {} /\ stack[e] = <<>>
    BY DEF Init, Waiting, Depth
  <2>2. \A b \in Calls : got[b] = None
    BY Zenon DEF Init
  <2>3. QED
    BY <2>1, <2>2, Zenon DEF OneCarrier, WireOnce, ServedOnce, TakenOnce, WireNotServed, WireNotTaken,
                      ServedNotTaken, CarriedWasMade, TwowayAnswered, RetiredIsIdle
<1>2. TypeOK /\ TypeOK' /\ OneCarrier /\ RetiredIsIdle /\ [Next]_vars => OneCarrier' /\ RetiredIsIdle'
  BY OneCarrierStep, RetiredStep, Zenon
<1>3. TypeOK /\ OneCarrier /\ RetiredIsIdle => AnswersKept
  BY OneCarrierAnswers, Zenon DEF AnswersKept
<1>4. QED
  BY <1>1, <1>2, <1>3, TypeInvariant, PTL DEF Spec
====
