---------------------------- MODULE WireProofs ----------------------------
(***************************************************************************)
(* Proofs about what travels on a connection.  Oneway calls run one at a   *)
(* time and in the order of their numbers, for every number of calls and   *)
(* connections, and OnewayOrder implements OnewayFifo: its invariant adds  *)
(* to NumbersInv and SerialInOrder that a call is where its stage says     *)
(* (StageInv, WireInv).  TLS records leave in the order they were sealed   *)
(* in (TlsDuplex, with TlsInv).  EventuallyRun is left to TLC.             *)
(***************************************************************************)
EXTENDS OnewayOrder, TlsDuplex, TLAPS

(* TlsDuplex *)

Record == [n : Nat, kind : {"data", "control"}]

TlsTypeOK ==
    /\ sealed \in [Ends -> Nat] /\ opened \in [Ends -> Nat]
    /\ queued \in [Ends -> Seq(Record)] /\ socket \in [Ends -> Seq(Record)]
    /\ cipher \in [Ends -> [Writers -> Seq(Record)]]
    /\ wlock \in [Ends -> {"free", "sender", "receiver"}]
    /\ sendPc \in [Ends -> {"idle", "encrypt", "transmit"}]
    /\ recvPc \in [Ends -> {"read", "flush", "transmit", "pump"}]
    /\ chunks \in [Ends -> Int]

\* The records of a buffer are numbered without a gap from the one after k.
Numbered(buffer, k) == \A i \in 1 .. Len(buffer) : buffer[i].n = k + i

\* What the peer has not opened yet: first what is in the socket, then what one
\* thread has drained, then what rustls still holds.
InFlight(e) ==
    /\ Numbered(socket[e], opened[Peer(e)])
    /\ \A t \in Writers : Numbered(cipher[e][t], opened[Peer(e)] + Len(socket[e]))
    /\ Numbered(queued[e], sealed[e] - Len(queued[e]))
    /\ sealed[e] = opened[Peer(e)] + Len(socket[e]) + Len(cipher[e]["sender"])
                     + Len(cipher[e]["receiver"]) + Len(queued[e])

\* A thread that has drained records holds the write lock until they are sent.
OneDrains(e) ==
    /\ wlock[e] = "sender" <=> sendPc[e] # "idle"
    /\ wlock[e] = "receiver" <=> recvPc[e] = "transmit"
    /\ cipher[e]["sender"] # <<>> => sendPc[e] = "transmit"
    /\ cipher[e]["receiver"] # <<>> <=> recvPc[e] = "transmit"

TlsInv == TlsTypeOK /\ (\A e \in Ends : InFlight(e) /\ OneDrains(e)) /\ RecordsInOrder

\* A duplex has two ends, each the peer of the other.
LEMMA PeerOfPeer == \A e \in Ends : Peer(e) \in Ends /\ Peer(e) # e /\ Peer(Peer(e)) = e
<1>1. PICK a \in Ends, b \in Ends : a # b /\ Ends = {a, b}
  BY TlsAssumption, Zenon
<1>2. ASSUME NEW e \in Ends PROVE Peer(e) \in Ends /\ Peer(e) # e
  <2>1. \E p \in Ends : p # e
    BY <1>1
  <2>2. QED
    BY <2>1, Zenon DEF Peer
<1>3. ASSUME NEW e \in Ends PROVE Peer(Peer(e)) = e
  <2>1. Peer(e) \in Ends /\ Peer(e) # e /\ Peer(Peer(e)) \in Ends /\ Peer(Peer(e)) # Peer(e)
    BY <1>2, Zenon
  <2>2. QED
    BY <1>1, <2>1, Zenon
<1>4. QED
  BY <1>2, <1>3, Zenon

\* A buffer grows by the next record and shrinks by the first one.
LEMMA NumberedGrows ==
    ASSUME NEW q \in Seq(Record), NEW k \in Int, NEW r \in Record, Numbered(q, k), r.n = k + Len(q) + 1
    PROVE  /\ Append(q, r) \in Seq(Record) /\ Len(Append(q, r)) = Len(q) + 1
           /\ Numbered(Append(q, r), k)
<1>1. Append(q, r) \in Seq(Record) /\ Len(Append(q, r)) = Len(q) + 1 /\ Len(q) \in Nat
  OBVIOUS
<1>2. ASSUME NEW i \in 1 .. Len(q) + 1 PROVE Append(q, r)[i].n = k + i
  <2>1. CASE i = Len(q) + 1
    <3>1. Append(q, r)[i] = r
      BY <2>1
    <3>2. QED
      BY <1>1, <2>1, <3>1
  <2>2. CASE i # Len(q) + 1
    <3>1. i \in 1 .. Len(q)
      BY <1>1, <2>2
    <3>2. Append(q, r)[i] = q[i]
      BY <3>1
    <3>3. QED
      BY <3>1, <3>2, Zenon DEF Numbered
  <2>3. QED
    BY <2>1, <2>2, Zenon
<1>3. QED
  BY <1>1, <1>2, Zenon DEF Numbered

\* Taking the first of a numbered queue leaves one numbered from the next on.
LEMMA NumberedShrinks ==
    ASSUME NEW q \in Seq(Record), NEW k \in Int, Numbered(q, k), q # <<>>
    PROVE  /\ Head(q) \in Record /\ Head(q).n = k + 1
           /\ Tail(q) \in Seq(Record) /\ Len(Tail(q)) = Len(q) - 1 /\ Len(q) > 0
           /\ Numbered(Tail(q), k + 1)
<1>1. Len(q) > 0 /\ Head(q) = q[1] /\ Len(q) \in Nat
  OBVIOUS
<1>2. Tail(q) \in Seq(Record) /\ Len(Tail(q)) = Len(q) - 1 /\ \A i \in 1 .. Len(Tail(q)) : Tail(q)[i] = q[i + 1]
  BY <1>1
<1>3. Numbered(Tail(q), k + 1)
  <2> SUFFICES ASSUME NEW i \in 1 .. Len(Tail(q)) PROVE Tail(q)[i].n = k + 1 + i
    BY Zenon DEF Numbered
  <2>1. i + 1 \in 1 .. Len(q)
    BY <1>1, <1>2
  <2>2. q[i + 1].n = k + (i + 1)
    BY <2>1, Zenon DEF Numbered
  <2>3. QED
    BY <1>2, <2>2
<1>4. QED
  BY <1>1, <1>2, <1>3 DEF Numbered

\* An empty queue is numbered from anywhere.
LEMMA NumberedEmpty ==
    /\ <<>> \in Seq(Record) /\ Len(<<>>) = 0 /\ \A k : Numbered(<<>>, k)
BY DEF Numbered

\* An end that no step touches keeps its part of the invariant.
LEMMA TlsElsewhere ==
    ASSUME NEW x \in Ends, InFlight(x), OneDrains(x),
           opened'[Peer(x)] = opened[Peer(x)], sealed'[x] = sealed[x],
           queued'[x] = queued[x], socket'[x] = socket[x], cipher'[x] = cipher[x],
           wlock'[x] = wlock[x], sendPc'[x] = sendPc[x], recvPc'[x] = recvPc[x]
    PROVE  InFlight(x)' /\ OneDrains(x)'
BY Zenon DEF InFlight, OneDrains

\* The invariant holds before the first record.
LEMMA TlsStart == TlsInit => TlsInv
<1> SUFFICES ASSUME TlsInit PROVE TlsInv
  BY Zenon
<1> USE DEF TlsInit
<1>1. TlsTypeOK
  BY DEF TlsTypeOK
<1>2. ASSUME NEW e \in Ends PROVE InFlight(e) /\ OneDrains(e)
  <2>1. Peer(e) \in Ends
    BY PeerOfPeer, Zenon
  <2>2. /\ socket[e] = <<>> /\ queued[e] = <<>> /\ \A t \in Writers : cipher[e][t] = <<>>
        /\ opened[Peer(e)] = 0 /\ sealed[e] = 0 /\ wlock[e] = "free" /\ sendPc[e] = "idle" /\ recvPc[e] = "read"
    BY <2>1, Zenon
  <2>3. QED
    BY <2>2, NumberedEmpty DEF InFlight, OneDrains, Writers
<1>3. RecordsInOrder
  BY Zenon DEF RecordsInOrder
<1>4. QED
  BY <1>1, <1>2, <1>3, Zenon DEF TlsInv

\* Taking the write lock, or finding nothing left to send.
LEMMA TlsKeptByLock ==
    ASSUME TlsInv, NEW e \in Ends, SendLock(e) \/ SendLoop(e) \/ RecvRead(e)
    PROVE  TlsInv'
<1>1. /\ UNCHANGED <<sealed, queued, cipher, socket, opened, broken>>
      /\ \/ /\ sendPc[e] = "idle" /\ wlock[e] = "free"
            /\ wlock' = [wlock EXCEPT ![e] = "sender"] /\ sendPc' = [sendPc EXCEPT ![e] = "encrypt"]
            /\ recvPc' = recvPc
         \/ /\ sendPc[e] = "transmit" /\ cipher[e]["sender"] = <<>> /\ recvPc' = recvPc
            /\ \/ sendPc' = [sendPc EXCEPT ![e] = "encrypt"] /\ wlock' = [wlock EXCEPT ![e] = "sender"]
               \/ sendPc' = [sendPc EXCEPT ![e] = "idle"] /\ wlock' = [wlock EXCEPT ![e] = "free"]
         \/ /\ recvPc[e] = "read" /\ UNCHANGED <<wlock, sendPc>>
            /\ recvPc' = recvPc \/ recvPc' = [recvPc EXCEPT ![e] = "flush"]
  BY Zenon DEF SendLock, SendLoop, RecvRead, SendHolds
<1>2. chunks' \in [Ends -> Int]
  BY DEF TlsInv, TlsTypeOK, SendLock, SendLoop, RecvRead
<1>3. TlsTypeOK'
  BY <1>1, <1>2, Zenon DEF TlsInv, TlsTypeOK
<1>4. ASSUME NEW x \in Ends PROVE InFlight(x)' /\ OneDrains(x)'
  <2>1. InFlight(x)'
    BY <1>1, Zenon DEF TlsInv, InFlight
  <2>2. CASE x = e
    <3>1. OneDrains(x)'
      BY <1>1, <2>2 DEF TlsInv, TlsTypeOK, OneDrains
    <3>2. QED
      BY <2>1, <3>1, Zenon
  <2>3. CASE x # e
    <3>1. wlock'[x] = wlock[x] /\ sendPc'[x] = sendPc[x] /\ recvPc'[x] = recvPc[x]
      BY <1>1, <2>3 DEF TlsInv, TlsTypeOK
    <3>2. QED
      BY <1>1, <3>1, TlsElsewhere, Zenon DEF TlsInv
  <2>4. QED
    BY <2>2, <2>3, Zenon
<1>5. RecordsInOrder'
  BY <1>1, Zenon DEF TlsInv, RecordsInOrder
<1>6. QED
  BY <1>3, <1>4, <1>5, Zenon DEF TlsInv

\* The sender drains all rustls holds, its own record last; nobody else has
\* drained records, for it holds the write lock.
LEMMA TlsKeptByEncrypt ==
    ASSUME TlsInv, NEW e \in Ends, SendEncrypt(e)
    PROVE  TlsInv'
<1> DEFINE rec == [n |-> sealed[e] + 1, kind |-> "data"]
           drained == Append(queued[e], rec)
<1>1. /\ sendPc[e] = "encrypt"
      /\ sealed' = [sealed EXCEPT ![e] = @ + 1]
      /\ cipher' = [cipher EXCEPT ![e]["sender"] = drained]
      /\ queued' = [queued EXCEPT ![e] = <<>>]
      /\ chunks' = [chunks EXCEPT ![e] = @ - 1]
      /\ sendPc' = [sendPc EXCEPT ![e] = "transmit"]
      /\ UNCHANGED <<wlock, recvPc, socket, opened, broken>>
  BY Zenon DEF SendEncrypt
<1>2. /\ TlsTypeOK /\ InFlight(e) /\ OneDrains(e) /\ RecordsInOrder
      /\ sealed[e] \in Nat /\ queued[e] \in Seq(Record) /\ socket[e] \in Seq(Record)
      /\ Peer(e) \in Ends /\ opened[Peer(e)] \in Nat
      /\ \A t \in Writers : cipher[e][t] \in Seq(Record)
  BY PeerOfPeer, Zenon DEF TlsInv, TlsTypeOK
<1>3. cipher[e]["sender"] = <<>> /\ cipher[e]["receiver"] = <<>>
  BY <1>1, <1>2, Zenon DEF OneDrains
<1>4. rec \in Record /\ rec.n = sealed[e] + 1
  BY <1>2 DEF Record
<1> HIDE DEF rec
<1>5. /\ drained \in Seq(Record) /\ Len(drained) = Len(queued[e]) + 1
      /\ Numbered(drained, sealed[e] - Len(queued[e]))
  <2>1. Len(queued[e]) \in Nat /\ Numbered(queued[e], sealed[e] - Len(queued[e]))
    BY <1>2 DEF InFlight
  <2>2. QED
    BY <1>2, <1>4, <2>1, NumberedGrows, SMTT(30)
<1>6. drained # <<>>
  BY <1>5, <1>2
<1> HIDE DEF drained
<1>7. sealed[e] - Len(queued[e]) = opened[Peer(e)] + Len(socket[e])
  BY <1>2, <1>3 DEF InFlight
<1>8. /\ cipher' \in [Ends -> [Writers -> Seq(Record)]]
      /\ cipher'[e]["sender"] = drained /\ cipher'[e]["receiver"] = <<>>
      /\ \A x \in Ends : x # e => cipher'[x] = cipher[x]
  BY <1>1, <1>2, <1>3, <1>5, Zenon DEF TlsTypeOK, Writers
<1>9. TlsTypeOK'
  <2>1. sealed' \in [Ends -> Nat] /\ queued' \in [Ends -> Seq(Record)]
    BY <1>1, <1>2, NumberedEmpty DEF TlsTypeOK
  <2>2. chunks' \in [Ends -> Int] /\ sendPc' \in [Ends -> {"idle", "encrypt", "transmit"}]
    BY <1>1, <1>2 DEF TlsTypeOK
  <2>3. QED
    BY <1>1, <1>2, <1>8, <2>1, <2>2, Zenon DEF TlsTypeOK
<1>10. InFlight(e)'
  <2>1. sealed'[e] = sealed[e] + 1 /\ queued'[e] = <<>> /\ socket'[e] = socket[e] /\ opened' = opened
    BY <1>1, <1>2, Zenon DEF TlsTypeOK
  <2>2. Numbered(socket[e], opened[Peer(e)])
    BY <1>2, Zenon DEF InFlight
  <2>3. \A t \in Writers : Numbered(cipher'[e][t], opened[Peer(e)] + Len(socket[e]))
    BY <1>5, <1>7, <1>8, NumberedEmpty, Zenon DEF Writers
  <2>4. sealed'[e] = opened[Peer(e)] + Len(socket[e]) + Len(cipher'[e]["sender"])
                       + Len(cipher'[e]["receiver"]) + Len(queued'[e])
    <3>1. Len(queued[e]) \in Nat /\ Len(socket[e]) \in Nat
      BY <1>2
    <3>2. /\ Len(cipher'[e]["sender"]) = Len(queued[e]) + 1
          /\ Len(cipher'[e]["receiver"]) = 0 /\ Len(queued'[e]) = 0
      BY <1>5, <1>8, <2>1, NumberedEmpty, Zenon
    <3>3. opened[Peer(e)] \in Nat /\ sealed[e] \in Nat /\ sealed'[e] = sealed[e] + 1
      BY <1>2, <2>1, Zenon
    <3>4. QED
      BY <1>7, <3>1, <3>2, <3>3, SMTT(30)
  <2>5. QED
    BY <2>1, <2>2, <2>3, <2>4, NumberedEmpty, Zenon DEF InFlight
<1>11. OneDrains(e)'
  BY <1>1, <1>2, <1>3, <1>6, <1>8, Zenon DEF OneDrains, TlsTypeOK
<1>12. ASSUME NEW x \in Ends, x # e PROVE InFlight(x)' /\ OneDrains(x)'
  BY <1>1, <1>2, <1>8, <1>12, TlsElsewhere, Zenon DEF TlsInv, TlsTypeOK
<1>13. QED
  BY <1>1, <1>2, <1>9, <1>10, <1>11, <1>12, Zenon DEF TlsInv, RecordsInOrder

\* One record of a thread's ciphertext goes on the socket, behind the ones
\* that went before it.
LEMMA TransmitInOrder ==
    ASSUME TlsInv, NEW e \in Ends, NEW t \in Writers, Transmit(e, t), UNCHANGED <<sealed, queued, opened>>
    PROVE  /\ socket' \in [Ends -> Seq(Record)] /\ cipher' \in [Ends -> [Writers -> Seq(Record)]]
           /\ cipher'[e][t] = Tail(cipher[e][t]) /\ Len(cipher'[e][t]) = Len(cipher[e][t]) - 1
           /\ \A u \in Writers : u # t => cipher'[e][u] = cipher[e][u]
           /\ \A x \in Ends : x # e => cipher'[x] = cipher[x] /\ socket'[x] = socket[x]
           /\ InFlight(e)'
<1> DEFINE rec == Head(cipher[e][t])
<1>1. /\ cipher[e][t] # <<>>
      /\ socket' = [socket EXCEPT ![e] = Append(@, rec)]
      /\ cipher' = [cipher EXCEPT ![e][t] = Tail(@)]
  BY Zenon DEF Transmit
<1>2. /\ TlsTypeOK /\ InFlight(e) /\ OneDrains(e)
      /\ sealed[e] \in Nat /\ queued[e] \in Seq(Record) /\ socket[e] \in Seq(Record)
      /\ Peer(e) \in Ends /\ opened[Peer(e)] \in Nat
      /\ \A u \in Writers : cipher[e][u] \in Seq(Record)
  BY PeerOfPeer, Zenon DEF TlsInv, TlsTypeOK
<1>3. Len(socket[e]) \in Nat /\ Len(queued[e]) \in Nat /\ \A u \in Writers : Len(cipher[e][u]) \in Nat
  BY <1>2
<1>4. /\ rec \in Record /\ rec.n = opened[Peer(e)] + Len(socket[e]) + 1
      /\ Tail(cipher[e][t]) \in Seq(Record) /\ Len(Tail(cipher[e][t])) = Len(cipher[e][t]) - 1
      /\ Numbered(Tail(cipher[e][t]), opened[Peer(e)] + Len(socket[e]) + 1)
  <2>1. Numbered(cipher[e][t], opened[Peer(e)] + Len(socket[e])) /\ opened[Peer(e)] + Len(socket[e]) \in Int
    BY <1>2, <1>3 DEF InFlight
  <2>2. QED
    BY <1>1, <1>2, <2>1, NumberedShrinks, Zenon
<1> HIDE DEF rec
<1>5. /\ Append(socket[e], rec) \in Seq(Record) /\ Len(Append(socket[e], rec)) = Len(socket[e]) + 1
      /\ Numbered(Append(socket[e], rec), opened[Peer(e)])
  <2>1. Numbered(socket[e], opened[Peer(e)]) /\ opened[Peer(e)] \in Int
    BY <1>2 DEF InFlight
  <2>2. QED
    BY <1>2, <1>4, <2>1, NumberedGrows, Zenon
<1>6. /\ socket' \in [Ends -> Seq(Record)] /\ socket'[e] = Append(socket[e], rec)
      /\ \A x \in Ends : x # e => socket'[x] = socket[x]
  BY <1>1, <1>2, <1>5, Zenon DEF TlsTypeOK
<1>7. /\ cipher' \in [Ends -> [Writers -> Seq(Record)]] /\ cipher'[e][t] = Tail(cipher[e][t])
      /\ \A u \in Writers : u # t => cipher'[e][u] = cipher[e][u]
      /\ \A x \in Ends : x # e => cipher'[x] = cipher[x]
  BY <1>1, <1>2, <1>4, Zenon DEF TlsTypeOK
<1>8. \A u \in Writers : u # t => cipher[e][u] = <<>>
  BY <1>1, <1>2, SMTT(30) DEF OneDrains, Writers, TlsTypeOK
<1>9. InFlight(e)'
  <2>1. \A u \in Writers : Numbered(cipher'[e][u], opened[Peer(e)] + Len(socket'[e]))
    <3>1. opened[Peer(e)] + Len(socket'[e]) = opened[Peer(e)] + Len(socket[e]) + 1
      BY <1>2, <1>3, <1>5, <1>6
    <3>2. QED
      BY <1>4, <1>7, <1>8, <3>1, NumberedEmpty, Zenon
  <2>2. sealed[e] = opened[Peer(e)] + Len(socket'[e]) + Len(cipher'[e]["sender"])
                     + Len(cipher'[e]["receiver"]) + Len(queued[e])
    <3>1. sealed[e] = opened[Peer(e)] + Len(socket[e]) + Len(cipher[e]["sender"])
                     + Len(cipher[e]["receiver"]) + Len(queued[e])
      BY <1>2, Zenon DEF InFlight
    <3>2. Len(socket'[e]) = Len(socket[e]) + 1
      BY <1>5, <1>6, Zenon
    <3>3. Len(cipher'[e]["sender"]) + Len(cipher'[e]["receiver"])
            = Len(cipher[e]["sender"]) + Len(cipher[e]["receiver"]) - 1
      <4>1. CASE t = "sender"
        <5>1. /\ Len(cipher'[e]["sender"]) = Len(cipher[e]["sender"]) - 1
              /\ cipher'[e]["receiver"] = cipher[e]["receiver"]
          BY <1>4, <1>7, <4>1, Zenon DEF Writers
        <5>2. QED
          BY <1>3, <5>1 DEF Writers
      <4>2. CASE t = "receiver"
        <5>1. /\ Len(cipher'[e]["receiver"]) = Len(cipher[e]["receiver"]) - 1
              /\ cipher'[e]["sender"] = cipher[e]["sender"]
          BY <1>4, <1>7, <4>2, Zenon DEF Writers
        <5>2. QED
          BY <1>3, <5>1, Zenon DEF Writers
      <4>3. QED
        BY <4>1, <4>2, Zenon DEF Writers
    <3>4. /\ Len(cipher'[e]["sender"]) \in Int /\ Len(cipher'[e]["receiver"]) \in Int
          /\ Len(socket'[e]) \in Int
      BY <1>6, <1>7 DEF Writers
    <3>5. /\ Len(cipher[e]["sender"]) \in Int /\ Len(cipher[e]["receiver"]) \in Int
          /\ Len(socket[e]) \in Int /\ opened[Peer(e)] \in Int /\ sealed[e] \in Int /\ Len(queued[e]) \in Int
      BY <1>2, <1>3 DEF Writers
    <3>6. PICK s \in Int, o \in Int, k \in Int, a \in Int, b \in Int, q \in Int, k1 \in Int, a1 \in Int, b1 \in Int :
            /\ s = sealed[e] /\ o = opened[Peer(e)] /\ k = Len(socket[e]) /\ q = Len(queued[e])
            /\ a = Len(cipher[e]["sender"]) /\ b = Len(cipher[e]["receiver"])
            /\ k1 = Len(socket'[e]) /\ a1 = Len(cipher'[e]["sender"]) /\ b1 = Len(cipher'[e]["receiver"])
      BY <3>4, <3>5, Zenon
    <3>7. s = o + k + a + b + q /\ k1 = k + 1 /\ a1 + b1 = a + b - 1
      BY <3>1, <3>2, <3>3, <3>6, Zenon
    <3>8. s = o + k1 + a1 + b1 + q
      BY <3>7
    <3>9. QED
      BY <3>6, <3>8, Zenon
  <2>3. Numbered(queued[e], sealed[e] - Len(queued[e]))
    BY <1>2, Zenon DEF InFlight
  <2>4. QED
    BY <1>5, <1>6, <2>1, <2>2, <2>3, Zenon DEF InFlight
<1>10. QED
  BY <1>4, <1>6, <1>7, <1>9, Zenon

\* The sender and the receiver put what they sealed on the socket.
LEMMA TlsKeptBySendTransmit ==
    ASSUME TlsInv, NEW e \in Ends, SendTransmit(e)
    PROVE  TlsInv'
<1>1. /\ sendPc[e] = "transmit" /\ Transmit(e, "sender") /\ "sender" \in Writers /\ "receiver" \in Writers
      /\ UNCHANGED <<sealed, queued, wlock, sendPc, recvPc, chunks, opened, broken>>
  BY Zenon DEF SendTransmit, Writers
<1>2. /\ socket' \in [Ends -> Seq(Record)] /\ cipher' \in [Ends -> [Writers -> Seq(Record)]]
      /\ \A u \in Writers : u # "sender" => cipher'[e][u] = cipher[e][u]
      /\ \A x \in Ends : x # e => cipher'[x] = cipher[x] /\ socket'[x] = socket[x]
      /\ InFlight(e)'
  BY <1>1, TransmitInOrder, Zenon
<1>3. TlsTypeOK'
  BY <1>1, <1>2, Zenon DEF TlsInv, TlsTypeOK
<1>4. OneDrains(e)'
  BY <1>1, <1>2, Zenon DEF TlsInv, OneDrains
<1>5. ASSUME NEW x \in Ends, x # e PROVE InFlight(x)' /\ OneDrains(x)'
  BY <1>1, <1>2, <1>5, TlsElsewhere, Zenon DEF TlsInv
<1>6. QED
  BY <1>1, <1>2, <1>3, <1>4, <1>5, Zenon DEF TlsInv, RecordsInOrder

\* The receiver does the same with the answers it owes.
LEMMA TlsKeptByRecvTransmit ==
    ASSUME TlsInv, NEW e \in Ends, RecvTransmit(e)
    PROVE  TlsInv'
<1>1. /\ recvPc[e] = "transmit" /\ Transmit(e, "receiver") /\ "sender" \in Writers /\ "receiver" \in Writers
      /\ UNCHANGED <<sealed, queued, sendPc, chunks, opened, broken>>
      /\ IF Len(cipher[e]["receiver"]) = 1
         THEN recvPc' = [recvPc EXCEPT ![e] = "pump"] /\ wlock' = [wlock EXCEPT ![e] = "free"]
         ELSE UNCHANGED <<recvPc, wlock>>
  BY Zenon DEF RecvTransmit, Writers
<1>2. /\ socket' \in [Ends -> Seq(Record)] /\ cipher' \in [Ends -> [Writers -> Seq(Record)]]
      /\ Len(cipher'[e]["receiver"]) = Len(cipher[e]["receiver"]) - 1
      /\ \A u \in Writers : u # "receiver" => cipher'[e][u] = cipher[e][u]
      /\ \A x \in Ends : x # e => cipher'[x] = cipher[x] /\ socket'[x] = socket[x]
      /\ InFlight(e)'
  BY <1>1, TransmitInOrder, Zenon
<1>3. TlsTypeOK'
  BY <1>1, <1>2, Zenon DEF TlsInv, TlsTypeOK
<1>4. cipher'[e]["receiver"] # <<>> <=> Len(cipher[e]["receiver"]) # 1
  <2>1. cipher'[e]["receiver"] \in Seq(Record) /\ cipher[e]["receiver"] \in Seq(Record)
    BY <1>1, <1>2 DEF TlsInv, TlsTypeOK
  <2>2. cipher'[e]["receiver"] = <<>> <=> Len(cipher'[e]["receiver"]) = 0
    BY <2>1
  <2>3. QED
    BY <1>2, <2>1, <2>2
<1>5. OneDrains(e)'
  BY <1>1, <1>2, <1>4 DEF TlsInv, TlsTypeOK, OneDrains
<1>6. ASSUME NEW x \in Ends, x # e PROVE InFlight(x)' /\ OneDrains(x)'
  <2>1. recvPc'[x] = recvPc[x] /\ wlock'[x] = wlock[x]
    BY <1>1, <1>6 DEF TlsInv, TlsTypeOK
  <2>2. QED
    BY <1>1, <1>2, <1>6, <2>1, TlsElsewhere, Zenon DEF TlsInv
<1>7. QED
  BY <1>1, <1>2, <1>3, <1>5, <1>6, Zenon DEF TlsInv, RecordsInOrder

\* flush_control drains only under the write lock, when the sender has none of
\* its records left to send.
LEMMA TlsKeptByFlush ==
    ASSUME TlsInv, NEW e \in Ends, RecvFlush(e)
    PROVE  TlsInv'
<1>1. recvPc[e] = "flush" /\ UNCHANGED <<sealed, sendPc, chunks, socket, opened, broken>>
  BY Zenon DEF RecvFlush
<1>2. /\ TlsTypeOK /\ InFlight(e) /\ OneDrains(e) /\ RecordsInOrder
      /\ queued[e] \in Seq(Record) /\ sealed[e] \in Nat /\ socket[e] \in Seq(Record)
      /\ Peer(e) \in Ends /\ opened[Peer(e)] \in Nat
  BY PeerOfPeer, Zenon DEF TlsInv, TlsTypeOK
<1>3. CASE recvPc' = [recvPc EXCEPT ![e] = "pump"] /\ UNCHANGED <<queued, cipher, wlock>>
  <2>1. TlsTypeOK'
    BY <1>1, <1>2, <1>3, Zenon DEF TlsTypeOK
  <2>2. ASSUME NEW x \in Ends PROVE InFlight(x)' /\ OneDrains(x)'
    <3>1. InFlight(x)'
      BY <1>1, <1>3, Zenon DEF TlsInv, InFlight
    <3>2. OneDrains(x)'
      BY <1>1, <1>3 DEF TlsInv, TlsTypeOK, OneDrains
    <3>3. QED
      BY <3>1, <3>2, Zenon
  <2>3. QED
    BY <1>1, <1>2, <2>1, <2>2, Zenon DEF TlsInv, RecordsInOrder
<1>4. CASE /\ wlock[e] = "free"
           /\ wlock' = [wlock EXCEPT ![e] = IF queued[e] = <<>> THEN "free" ELSE "receiver"]
           /\ cipher' = [cipher EXCEPT ![e]["receiver"] = queued[e]]
           /\ queued' = [queued EXCEPT ![e] = <<>>]
           /\ recvPc' = [recvPc EXCEPT ![e] = IF queued[e] = <<>> THEN "pump" ELSE "transmit"]
  <2>1. cipher[e]["sender"] = <<>> /\ cipher[e]["receiver"] = <<>> /\ sendPc[e] = "idle"
    BY <1>1, <1>2, <1>4, Zenon DEF OneDrains
  <2>2. /\ cipher' \in [Ends -> [Writers -> Seq(Record)]]
        /\ cipher'[e]["receiver"] = queued[e] /\ cipher'[e]["sender"] = <<>>
        /\ \A x \in Ends : x # e => cipher'[x] = cipher[x]
    BY <1>2, <1>4, <2>1, SMTT(30) DEF TlsTypeOK, Writers
  <2>3. TlsTypeOK'
    <3>1. queued' \in [Ends -> Seq(Record)]
      BY <1>2, <1>4, NumberedEmpty, Zenon DEF TlsTypeOK
    <3>2. QED
      BY <1>1, <1>2, <1>4, <2>2, <3>1, Zenon DEF TlsTypeOK
  <2>4. InFlight(e)'
    <3>1. queued'[e] = <<>>
      BY <1>2, <1>4, Zenon DEF TlsTypeOK
    <3>2. /\ sealed[e] = opened[Peer(e)] + Len(socket[e]) + Len(queued[e])
          /\ Numbered(queued[e], sealed[e] - Len(queued[e]))
      BY <1>2, <2>1, NumberedEmpty DEF InFlight
    <3>3. sealed[e] - Len(queued[e]) = opened[Peer(e)] + Len(socket[e])
      BY <1>2, <3>2
    <3>4. \A t \in Writers : Numbered(cipher'[e][t], opened[Peer(e)] + Len(socket[e]))
      BY <2>2, <3>2, <3>3, NumberedEmpty, Zenon DEF Writers
    <3>5. sealed[e] = opened[Peer(e)] + Len(socket[e]) + Len(cipher'[e]["sender"])
                        + Len(cipher'[e]["receiver"]) + Len(queued'[e])
      BY <1>2, <2>2, <3>1, <3>2, NumberedEmpty
    <3>6. Numbered(socket[e], opened[Peer(e)])
      BY <1>2, Zenon DEF InFlight
    <3>7. QED
      BY <1>1, <3>1, <3>4, <3>5, <3>6, NumberedEmpty, Zenon DEF InFlight
  <2>5. OneDrains(e)'
    BY <1>1, <1>2, <1>4, <2>1, <2>2, Zenon DEF OneDrains, TlsTypeOK
  <2>6. ASSUME NEW x \in Ends, x # e PROVE InFlight(x)' /\ OneDrains(x)'
    <3>1. wlock'[x] = wlock[x] /\ queued'[x] = queued[x] /\ recvPc'[x] = recvPc[x]
      BY <1>2, <1>4, <2>6, Zenon DEF TlsTypeOK
    <3>2. QED
      BY <1>1, <2>2, <2>6, <3>1, TlsElsewhere, Zenon DEF TlsInv
  <2>7. QED
    BY <1>1, <1>2, <2>3, <2>4, <2>5, <2>6, Zenon DEF TlsInv, RecordsInOrder
<1>5. QED
  BY <1>3, <1>4, Zenon DEF RecvFlush

\* rustls takes the next record of its peer in, and may queue an answer.
LEMMA TlsKeptByPump ==
    ASSUME TlsInv, NEW e \in Ends, RecvPump(e)
    PROVE  TlsInv'
<1> DEFINE p == Peer(e)
           rec == Head(socket[p])
           answer == [n |-> sealed[e] + 1, kind |-> "control"]
<1>1. /\ p \in Ends /\ p # e /\ Peer(p) = e
  BY PeerOfPeer, Zenon
<1>2. /\ recvPc[e] = "pump" /\ socket[p] # <<>>
      /\ socket' = [socket EXCEPT ![p] = Tail(@)]
      /\ recvPc' = [recvPc EXCEPT ![e] = "read"]
      /\ UNCHANGED <<wlock, sendPc, cipher, chunks>>
  BY Zenon DEF RecvPump
<1>3. /\ TlsTypeOK /\ RecordsInOrder /\ InFlight(p) /\ InFlight(e)
      /\ socket[p] \in Seq(Record) /\ opened[e] \in Nat /\ opened[e] \in Int
      /\ sealed[e] \in Nat /\ queued[e] \in Seq(Record) /\ sealed[p] \in Nat
  BY <1>1 DEF TlsInv, TlsTypeOK
<1>4. /\ rec.n = opened[e] + 1 /\ Tail(socket[p]) \in Seq(Record)
      /\ Len(Tail(socket[p])) = Len(socket[p]) - 1 /\ Len(socket[p]) > 0
      /\ Numbered(Tail(socket[p]), opened[e] + 1)
  <2>1. Numbered(socket[p], opened[e])
    BY <1>1, <1>3, Zenon DEF InFlight
  <2>2. QED
    BY <1>2, <1>3, <2>1, NumberedShrinks, Zenon
<1>5. opened' = [opened EXCEPT ![e] = @ + 1] /\ broken' = broken
  BY <1>4, Zenon DEF RecvPump
<1>6. \/ UNCHANGED <<sealed, queued>>
      \/ /\ sealed' = [sealed EXCEPT ![e] = @ + 1]
         /\ queued' = [queued EXCEPT ![e] = Append(@, answer)]
  BY Zenon DEF RecvPump, Seal
<1>7. /\ socket' \in [Ends -> Seq(Record)] /\ socket'[p] = Tail(socket[p])
      /\ \A x \in Ends : x # p => socket'[x] = socket[x]
  BY <1>1, <1>2, <1>3, <1>4, Zenon DEF TlsTypeOK
<1>8. /\ opened' \in [Ends -> Nat] /\ opened'[e] = opened[e] + 1
      /\ \A x \in Ends : x # e => opened'[x] = opened[x]
  BY <1>3, <1>5 DEF TlsTypeOK
<1>9. /\ queued' \in [Ends -> Seq(Record)] /\ sealed' \in [Ends -> Nat]
      /\ Numbered(queued'[e], sealed'[e] - Len(queued'[e]))
      /\ sealed'[e] - Len(queued'[e]) = sealed[e] - Len(queued[e])
      /\ \A x \in Ends : x # e => queued'[x] = queued[x] /\ sealed'[x] = sealed[x]
  <2>1. Len(queued[e]) \in Nat /\ Numbered(queued[e], sealed[e] - Len(queued[e]))
    BY <1>3 DEF InFlight
  <2>2. CASE UNCHANGED <<sealed, queued>>
    BY <1>3, <2>1, <2>2, Zenon DEF TlsTypeOK
  <2>3. CASE /\ sealed' = [sealed EXCEPT ![e] = @ + 1]
             /\ queued' = [queued EXCEPT ![e] = Append(@, answer)]
    <3>1. answer \in Record /\ answer.n = sealed[e] + 1
      BY <1>3 DEF Record
    <3> HIDE DEF answer
    <3>2. answer.n = (sealed[e] - Len(queued[e])) + Len(queued[e]) + 1 /\ sealed[e] - Len(queued[e]) \in Int
      BY <1>3, <2>1, <3>1
    <3>3. /\ Append(queued[e], answer) \in Seq(Record)
          /\ Len(Append(queued[e], answer)) = Len(queued[e]) + 1
          /\ Numbered(Append(queued[e], answer), sealed[e] - Len(queued[e]))
      BY <1>3, <2>1, <3>1, <3>2, NumberedGrows, Zenon
    <3>4. /\ queued' \in [Ends -> Seq(Record)] /\ queued'[e] = Append(queued[e], answer)
          /\ sealed' \in [Ends -> Nat] /\ sealed'[e] = sealed[e] + 1
          /\ \A x \in Ends : x # e => queued'[x] = queued[x] /\ sealed'[x] = sealed[x]
      BY <1>3, <2>3, <3>3, SMTT(30) DEF TlsTypeOK
    <3>5. sealed'[e] - Len(queued'[e]) = sealed[e] - Len(queued[e])
      BY <1>3, <2>1, <3>3, <3>4
    <3>6. QED
      BY <3>3, <3>4, <3>5, Zenon
  <2>4. QED
    BY <1>6, <2>2, <2>3, Zenon
<1> HIDE DEF p, rec, answer
<1>10. TlsTypeOK'
  BY <1>2, <1>3, <1>7, <1>8, <1>9, Zenon DEF TlsTypeOK
<1>11. InFlight(p)'
  <2>1. /\ sealed'[p] = sealed[p] /\ queued'[p] = queued[p] /\ cipher'[p] = cipher[p]
        /\ opened'[Peer(p)] = opened[e] + 1
    BY <1>1, <1>2, <1>8, <1>9, Zenon
  <2>2. /\ \A t \in Writers : Numbered(cipher[p][t], opened[e] + Len(socket[p]))
        /\ Numbered(queued[p], sealed[p] - Len(queued[p]))
        /\ sealed[p] = opened[e] + Len(socket[p]) + Len(cipher[p]["sender"])
                         + Len(cipher[p]["receiver"]) + Len(queued[p])
    BY <1>1, <1>3, Zenon DEF InFlight
  <2>3. Len(socket[p]) \in Int /\ Len(socket'[p]) = Len(socket[p]) - 1 /\ Len(socket'[p]) \in Int
    BY <1>3, <1>4, <1>7
  <2>4. /\ sealed[p] \in Int /\ opened[e] \in Int /\ Len(queued[p]) \in Int
        /\ Len(cipher[p]["sender"]) \in Int /\ Len(cipher[p]["receiver"]) \in Int
    BY <1>1, <1>3 DEF TlsTypeOK, Writers
  <2>5. /\ (opened[e] + 1) + Len(socket'[p]) = opened[e] + Len(socket[p])
        /\ sealed[p] = (opened[e] + 1) + Len(socket'[p]) + Len(cipher[p]["sender"])
                         + Len(cipher[p]["receiver"]) + Len(queued[p])
    BY <2>2, <2>3, <2>4
  <2>6. QED
    BY <1>4, <1>7, <2>1, <2>2, <2>5, Zenon DEF InFlight
<1>12. InFlight(e)'
  <2>1. /\ opened'[Peer(e)] = opened[Peer(e)] /\ socket'[e] = socket[e] /\ cipher'[e] = cipher[e]
    BY <1>1, <1>2, <1>7, <1>8, Zenon DEF p
  <2>2. sealed'[e] - Len(queued'[e]) = sealed[e] - Len(queued[e])
    BY <1>9, Zenon
  <2>3. /\ sealed[e] \in Int /\ Len(queued[e]) \in Int /\ Len(socket[e]) \in Int
        /\ Len(cipher[e]["sender"]) \in Int /\ Len(cipher[e]["receiver"]) \in Int
        /\ sealed'[e] \in Int /\ Len(queued'[e]) \in Int /\ opened[Peer(e)] \in Int
    <3>1. /\ sealed[e] \in Int /\ Len(queued[e]) \in Int /\ Len(socket[e]) \in Int
          /\ Len(cipher[e]["sender"]) \in Int /\ Len(cipher[e]["receiver"]) \in Int
      BY <1>3 DEF TlsTypeOK, Writers
    <3>2. sealed'[e] \in Int /\ queued'[e] \in Seq(Record)
      BY <1>9
    <3>3. opened[Peer(e)] \in Int
      BY <1>1, <1>3 DEF TlsTypeOK, p
    <3>4. QED
      BY <3>1, <3>2, <3>3
  <2>4. sealed'[e] = opened[Peer(e)] + Len(socket[e]) + Len(cipher[e]["sender"])
                         + Len(cipher[e]["receiver"]) + Len(queued'[e])
    <3>1. sealed[e] = opened[Peer(e)] + Len(socket[e]) + Len(cipher[e]["sender"])
                         + Len(cipher[e]["receiver"]) + Len(queued[e])
      BY <1>3, Zenon DEF InFlight
    <3>2. QED
      <4>1. PICK s \in Int, o \in Int, k \in Int, a \in Int, b \in Int, q \in Int, s1 \in Int, q1 \in Int :
              /\ s = sealed[e] /\ o = opened[Peer(e)] /\ k = Len(socket[e]) /\ q = Len(queued[e])
              /\ a = Len(cipher[e]["sender"]) /\ b = Len(cipher[e]["receiver"])
              /\ s1 = sealed'[e] /\ q1 = Len(queued'[e])
        BY <2>3, Zenon
      <4>2. s = o + k + a + b + q /\ s1 - q1 = s - q
        BY <2>2, <3>1, <4>1, Zenon
      <4>3. s1 = o + k + a + b + q1
        BY <4>2
      <4>4. QED
        BY <4>1, <4>3, Zenon
  <2>5. QED
    BY <1>3, <1>9, <2>1, <2>4, Zenon DEF InFlight
<1>13. ASSUME NEW x \in Ends PROVE x = e \/ x = p
  BY <1>1, TlsAssumption
<1>14. ASSUME NEW x \in Ends PROVE OneDrains(x)'
  BY <1>2, <1>3, Zenon DEF TlsInv, TlsTypeOK, OneDrains
<1>15. QED
  BY <1>3, <1>5, <1>10, <1>11, <1>12, <1>13, <1>14, Zenon DEF TlsInv, RecordsInOrder

\* rustls never meets a record out of sequence, however the sender's and the
\* receiver's records interleave at either end: for any number of calls,
\* chunks and key updates and any socket buffer (send_raw, recv_raw and
\* flush_control of rpc/transport/tls.rs).
THEOREM TlsRecordsInOrder == TlsSpec => []RecordsInOrder
<1>1. TlsInv /\ [TlsNext]_tlsVars => TlsInv'
  <2> SUFFICES ASSUME TlsInv, [TlsNext]_tlsVars PROVE TlsInv'
    BY Zenon
  <2>1. CASE UNCHANGED tlsVars
    BY <2>1, Zenon DEF tlsVars, TlsInv, TlsTypeOK, InFlight, OneDrains, RecordsInOrder
  <2>2. QED
    BY <2>1, TlsKeptByLock, TlsKeptByEncrypt, TlsKeptBySendTransmit, TlsKeptByRecvTransmit,
       TlsKeptByFlush, TlsKeptByPump, Zenon DEF TlsNext, SenderStep, ReceiverStep
<1>2. TlsInv => RecordsInOrder
  BY Zenon DEF TlsInv
<1>3. QED
  BY <1>1, <1>2, TlsStart, PTL DEF TlsSpec

-----------------------------------------------------------------------------
(* OnewayOrder *)

\* Where a call's stage says it is: parked calls are the backlog, the calls a
\* worker was given are being executed, each by one worker, and a frame is on
\* one connection once.
StageInv ==
    /\ todo = {c \in Calls : stage[c] = "parked"}
    /\ \A k \in Conns : work[k] # None => \/ stage[work[k]] \in {"gated", "running"}
                                          \/ stage[work[k]] = "unknown" /\ ~node
    /\ \A k, l \in Conns : work[k] # None /\ work[k] = work[l] => k = l

WireInv ==
    /\ \A k \in Conns : \A i \in 1 .. Len(wire[k]) : stage[wire[k][i]] = "wire"
    /\ \A k, l \in Conns : \A i \in 1 .. Len(wire[k]), j \in 1 .. Len(wire[l]) :
          wire[k][i] = wire[l][j] => k = l /\ i = j

\* Reading a frame takes it, and only it, off its connection.
LEMMA ReadsFrame ==
    ASSUME TypeOK, NEW k \in Conns, NEW c \in Calls, Reads(k, c)
    PROVE  /\ wire' \in [Conns -> Seq(Calls)]
           /\ Len(wire[k]) > 0 /\ wire[k][1] = c /\ work[k] = None
           /\ Len(wire'[k]) = Len(wire[k]) - 1
           /\ \A i \in 1 .. Len(wire'[k]) : wire'[k][i] = wire[k][i + 1]
           /\ \A l \in Conns : l # k => wire'[l] = wire[l]
BY DEF TypeOK, Reads

\* Type correctness of the sender, the wires and the receiver.
LEMMA TypeInvariant == Spec => []TypeOK
<1> USE OrderAssumption DEF TypeOK, Stages
<1>1. Init => TypeOK
  BY DEF Init, NoCalls
<1>2. TypeOK /\ [Next]_vars => TypeOK'
  <2> SUFFICES ASSUME TypeOK, [Next]_vars PROVE TypeOK'
    BY Zenon
  <2> USE DEF Move, MoveAll, sender, receiver
  <2>1. ASSUME NEW c \in Calls, NEW k \in Conns, Reserve(c, k) PROVE TypeOK'
    BY <2>1 DEF Reserve
  <2>2. ASSUME NEW c \in Calls, SendOk(c) PROVE TypeOK'
    <3>1. wire' \in [Conns -> Seq(Calls)]
      <4>1. CASE conn[c] \in Conns
        <5>1. Append(wire[conn[c]], c) \in Seq(Calls)
          BY <4>1
        <5>2. QED
          BY <2>2, <5>1, Zenon DEF SendOk
      <4>2. CASE conn[c] \notin Conns
        BY <2>2, <4>2, Zenon DEF SendOk
      <4>3. QED
        BY <4>1, <4>2, Zenon
    <3>2. QED
      BY <2>2, <3>1, Zenon DEF SendOk
  <2>3. ASSUME NEW c \in Calls, SendFail(c) PROVE TypeOK'
    BY <2>3 DEF SendFail
  <2>4. ASSUME NEW k \in Conns, NEW c \in Calls, Dispatch(k, c) \/ Park(k, c) PROVE TypeOK'
    <3>1. wire' \in [Conns -> Seq(Calls)]
      BY <2>4, ReadsFrame, Zenon DEF Dispatch, Park
    <3>2. CASE Dispatch(k, c)
      BY <3>1, <3>2, Zenon DEF Dispatch
    <3>3. CASE Park(k, c)
      BY <3>1, <3>3, Zenon DEF Park
    <3>4. QED
      BY <2>4, <3>2, <3>3, Zenon
  <2>5. ASSUME NEW k \in Conns, NEW c \in Calls, Discard(k, c) PROVE TypeOK'
    <3>1. wire' \in [Conns -> Seq(Calls)]
      BY <2>5, ReadsFrame, Zenon DEF Discard
    <3>2. QED
      BY <2>5, <3>1, Zenon DEF Discard
  <2>6. ASSUME NEW k \in Conns, Terminate(k) \/ Break(k) PROVE TypeOK'
    <3>1. wire' \in [Conns -> Seq(Calls)]
      <4>1. wire' = [wire EXCEPT ![k] = <<>>] /\ <<>> \in Seq(Calls)
        BY <2>6 DEF Terminate, Break
      <4>2. QED
        BY <4>1, Zenon
    <3>2. stage' \in [Calls -> Stages]
      BY <2>6 DEF Terminate, Break
    <3>3. QED
      BY <2>6, <3>1, <3>2, Zenon DEF Terminate, Break
  <2>7. ASSUME NEW k \in Conns, Execute(k) PROVE TypeOK'
    BY <2>7, Zenon DEF Execute
  <2>8. ASSUME NEW k \in Conns, Advance(k) PROVE TypeOK'
    <3>1. stage' \in [Calls -> Stages]
      BY <2>8 DEF Advance
    <3>2. work' \in [Conns -> Calls \cup {None}]
      BY <2>8, ZenonT(60) DEF Advance, Due
    <3>3. next' \in Int /\ todo' \subseteq Calls /\ node' \in BOOLEAN
      BY <2>8 DEF Advance
    <3>4. QED
      BY <2>8, <3>1, <3>2, <3>3, Zenon DEF Advance
  <2>9. CASE ReleaseNode
    BY <2>9, Zenon DEF ReleaseNode
  <2>10. CASE UNCHANGED vars
    BY <2>10, Zenon DEF vars
  <2>11. QED
    BY <2>1, <2>2, <2>3, <2>4, <2>5, <2>6, <2>7, <2>8, <2>9, <2>10, Zenon
       DEF Next, Progress, Work, Receive
<1>3. QED
  BY <1>1, <1>2, PTL DEF Spec

\* A frame that is read leaves the other frames where they were.
LEMMA ReadsQueue ==
    ASSUME TypeOK, WireInv, NEW k \in Conns, NEW c \in Calls, Reads(k, c),
           NEW to, Move(c, to)
    PROVE  stage[c] = "wire" /\ WireInv'
<1>1. stage[c] = "wire" /\ 1 \in 1 .. Len(wire[k])
  BY ReadsFrame DEF WireInv, TypeOK
<1>2. \A l \in Conns : \A i \in 1 .. Len(wire'[l]) :
         \E j \in 1 .. Len(wire[l]) : /\ wire'[l][i] = wire[l][j]
                                     /\ j = (IF l = k THEN i + 1 ELSE i)
  <2> TAKE l \in Conns
  <2> TAKE i \in 1 .. Len(wire'[l])
  <2>1. CASE l = k
    <3>1. i + 1 \in 1 .. Len(wire[l]) /\ wire'[l][i] = wire[l][i + 1]
      BY <2>1, ReadsFrame DEF TypeOK
    <3>2. QED
      BY <2>1, <3>1, Zenon
  <2>2. CASE l # k
    BY <2>2, ReadsFrame DEF TypeOK
  <2>3. QED
    BY <2>1, <2>2, Zenon
<1>3. \A l \in Conns : \A i \in 1 .. Len(wire'[l]) : wire'[l][i] # c /\ wire'[l][i] \in Calls
  <2> TAKE l \in Conns
  <2> TAKE i \in 1 .. Len(wire'[l])
  <2>1. PICK j \in 1 .. Len(wire[l]) : wire'[l][i] = wire[l][j] /\ j = (IF l = k THEN i + 1 ELSE i)
    BY <1>2, Zenon
  <2>2. l = k => j # 1
    BY <2>1
  <2>3. wire[l][j] # wire[k][1]
    BY <1>1, <2>2 DEF WireInv
  <2>4. wire'[l][i] \in Calls
    BY ReadsFrame
  <2>5. QED
    BY <2>1, <2>3, <2>4, ReadsFrame, Zenon
<1>4. \A l \in Conns : \A i \in 1 .. Len(wire'[l]) : stage'[wire'[l][i]] = "wire"
  <2> TAKE l \in Conns
  <2> TAKE i \in 1 .. Len(wire'[l])
  <2>1. stage[wire'[l][i]] = "wire"
    BY <1>2, SMTT(30) DEF WireInv
  <2>2. QED
    BY <1>3, <2>1, Zenon DEF Move, MoveAll, TypeOK
<1>5. \A l, m \in Conns : \A i \in 1 .. Len(wire'[l]), j \in 1 .. Len(wire'[m]) :
         wire'[l][i] = wire'[m][j] => l = m /\ i = j
  <2> TAKE l, m \in Conns
  <2> TAKE i \in 1 .. Len(wire'[l]), j \in 1 .. Len(wire'[m])
  <2>1. PICK x \in 1 .. Len(wire[l]) : wire'[l][i] = wire[l][x] /\ x = (IF l = k THEN i + 1 ELSE i)
    BY <1>2, Zenon
  <2>2. PICK y \in 1 .. Len(wire[m]) : wire'[m][j] = wire[m][y] /\ y = (IF m = k THEN j + 1 ELSE j)
    BY <1>2, Zenon
  <2>3. wire[l][x] = wire[m][y] => l = m /\ x = y
    BY DEF WireInv
  <2>4. QED
    BY <2>1, <2>2, <2>3
<1>6. QED
  BY <1>1, <1>4, <1>5, Zenon DEF WireInv

\* A step that leaves the wires alone and changes no stage from or to "wire"
\* keeps what WireInv says of the wires.
LEMMA WiresKept ==
    ASSUME TypeOK, WireInv, wire' = wire, \A c \in Calls : stage[c] = "wire" => stage'[c] = "wire"
    PROVE  WireInv'
<1>1. \A l \in Conns : \A i \in 1 .. Len(wire[l]) : wire[l][i] \in Calls
  BY DEF TypeOK
<1>2. QED
  BY <1>1 DEF WireInv

\* Losing a connection empties its wire and leaves the others.
LEMMA WireCut ==
    ASSUME TypeOK, WireInv, NEW k \in Conns, wire' = [wire EXCEPT ![k] = <<>>],
           \A c \in Calls : stage[c] = "wire" /\ c \notin OnWire(k) => stage'[c] = "wire"
    PROVE  WireInv'
<1>1. Len(wire'[k]) = 0 /\ \A l \in Conns : l # k => wire'[l] = wire[l]
  BY Zenon DEF TypeOK
<1>2. \A l \in Conns : \A i \in 1 .. Len(wire'[l]) :
         l # k /\ wire'[l] = wire[l] /\ wire[l][i] \in Calls /\ i \in 1 .. Len(wire[l])
  <2> TAKE l \in Conns
  <2> TAKE i \in 1 .. Len(wire'[l])
  <2>1. l # k
    BY <1>1
  <2>2. QED
    BY <1>1, <2>1 DEF TypeOK
<1>3. \A l \in Conns : \A i \in 1 .. Len(wire[l]) : l # k => wire[l][i] \notin OnWire(k)
  BY Zenon DEF WireInv, OnWire
<1>4. \A l \in Conns : \A i \in 1 .. Len(wire'[l]) : stage'[wire'[l][i]] = "wire"
  BY <1>2, <1>3 DEF WireInv
<1>5. \A l, m \in Conns : \A i \in 1 .. Len(wire'[l]), j \in 1 .. Len(wire'[m]) :
         wire'[l][i] = wire'[m][j] => l = m /\ i = j
  BY <1>2 DEF WireInv
<1>6. QED
  BY <1>4, <1>5, Zenon DEF WireInv

\* The three ways advance_and_pop_async can go, while the node exists, come
\* down to two: the backlog has the next call, or it has not.
LEMMA AdvanceCases ==
    ASSUME TypeOK, StageInv, SerialInOrder, NEW k \in Conns, Advance(k), node
    PROVE  /\ work[k] \in Calls /\ stage[work[k]] = "running"
           /\ next' = next + 1
           /\ UNCHANGED <<counter, num, conn, wire, up, node>>
           /\ \/ /\ todo' = todo /\ work' = [work EXCEPT ![k] = None]
                 /\ stage' = [d \in Calls |-> IF d = work[k] THEN "ran" ELSE stage[d]]
                 /\ \A d \in todo : num[d] > next'
              \/ \E e \in todo :
                 /\ num[e] = next' /\ stage[e] = "parked"
                 /\ todo' = todo \ {e} /\ work' = [work EXCEPT ![k] = e]
                 /\ stage' = [d \in Calls |-> IF d = work[k] THEN "ran"
                                              ELSE IF d = e THEN "gated" ELSE stage[d]]
<1>1. node /\ work[k] \in Calls /\ stage[work[k]] = "running"
  BY Zenon DEF Advance, StageInv, TypeOK
<1>2. next' = next + 1 /\ UNCHANGED <<counter, num, conn, wire, up, node>>
  BY <1>1, Zenon DEF Advance, sender
<1>3. \A d \in todo : d \in Calls /\ stage[d] = "parked" /\ num[d] >= next + 1
  BY <1>1 DEF StageInv, SerialInOrder, Executing, Pending, TypeOK
<1>4. {d \in todo : num[d] >= next'} = todo
  BY <1>2, <1>3, Zenon
<1>5. CASE Due(next + 1) = {}
  <2>1. /\ todo' = todo /\ work' = [work EXCEPT ![k] = None]
        /\ stage' = [d \in Calls |-> IF d = work[k] THEN "ran"
                                     ELSE IF d \in todo \ todo' THEN "stale" ELSE stage[d]]
    BY <1>1, <1>4, <1>5, Zenon DEF Advance
  <2>2. stage' = [d \in Calls |-> IF d = work[k] THEN "ran" ELSE stage[d]]
    BY <2>1, Zenon
  <2>3. \A d \in todo : num[d] > next'
    BY <1>2, <1>3, <1>5 DEF Due, TypeOK
  <2>4. QED
    BY <1>1, <1>2, <2>1, <2>2, <2>3, Zenon
<1>6. CASE Due(next + 1) # {}
  <2>1. PICK e \in Due(next + 1) :
           /\ todo' = {c \in todo : num[c] >= next'} \ {e}
           /\ work' = [work EXCEPT ![k] = e]
           /\ stage' = [c \in Calls |-> IF c = work[k]
                                          THEN IF stage[work[k]] = "running" THEN "ran" ELSE "unknown"
                                        ELSE IF c = e THEN "gated"
                                        ELSE IF c \in todo \ todo' THEN "stale" ELSE stage[c]]
    BY <1>1, <1>6, Zenon DEF Advance
  <2>2. todo' = todo \ {e} /\ e \in todo /\ num[e] = next'
    BY <1>2, <1>4, <2>1, Zenon DEF Due
  <2>3. stage' = [d \in Calls |-> IF d = work[k] THEN "ran"
                                 ELSE IF d = e THEN "gated" ELSE stage[d]]
    BY <1>1, <2>1, <2>2, Zenon
  <2>4. QED
    BY <1>1, <1>2, <1>3, <2>1, <2>2, <2>3, Zenon
<1>7. QED
  BY <1>5, <1>6, Zenon

\* advance_and_pop_async without a node: the worker stops.
LEMMA AdvanceGone ==
    ASSUME TypeOK, StageInv, NEW k \in Conns, Advance(k), ~node
    PROVE  /\ work[k] \in Calls /\ work' = [work EXCEPT ![k] = None]
           /\ UNCHANGED <<counter, num, conn, wire, up, node, next, todo>>
           /\ \/ /\ stage[work[k]] = "running"
                 /\ stage' = [d \in Calls |-> IF d = work[k] THEN "ran" ELSE stage[d]]
              \/ stage[work[k]] = "unknown" /\ stage' = stage
BY DEF Advance, Due, Move, MoveAll, sender, receiver, TypeOK

\* Every step keeps each call in one queue.
LEMMA QueueStep ==
    TypeOK /\ StageInv /\ WireInv /\ SerialInOrder /\ [Next]_vars => StageInv' /\ WireInv'
<1> SUFFICES ASSUME TypeOK, StageInv, WireInv, SerialInOrder, [Next]_vars
             PROVE  StageInv' /\ WireInv'
  BY Zenon
<1> USE OrderAssumption
<1>1. ASSUME NEW c \in Calls, NEW k \in Conns, Reserve(c, k) PROVE StageInv' /\ WireInv'
  <2>1. StageInv'
    BY <1>1, Zenon DEF Reserve, Move, MoveAll, receiver, StageInv, TypeOK
  <2>2. wire' = wire /\ \A d \in Calls : stage[d] = "wire" => stage'[d] = "wire"
    BY <1>1, Zenon DEF Reserve, Move, MoveAll
  <2>3. QED
    BY <2>1, <2>2, WiresKept, Zenon
<1>2. ASSUME NEW c \in Calls, SendFail(c) PROVE StageInv' /\ WireInv'
  <2>1. StageInv'
    BY <1>2, ZenonT(60) DEF SendFail, Move, MoveAll, receiver, StageInv, TypeOK
  <2>2. wire' = wire /\ \A d \in Calls : stage[d] = "wire" => stage'[d] = "wire"
    BY <1>2, Zenon DEF SendFail, Move, MoveAll
  <2>3. QED
    BY <2>1, <2>2, WiresKept, Zenon
<1>3. ASSUME NEW c \in Calls, SendOk(c) PROVE StageInv' /\ WireInv'
  <2>1. stage[c] = "reserved" /\ stage' = [d \in Calls |-> IF d = c THEN "wire" ELSE stage[d]]
    BY <1>3, Zenon DEF SendOk, Move, MoveAll
  <2>2. StageInv'
    BY <1>3, <2>1, Zenon DEF SendOk, receiver, StageInv, TypeOK
  <2>3. CASE conn[c] \notin Conns
    <3>1. wire' = wire
      BY <1>3, <2>3 DEF SendOk, TypeOK
    <3>2. QED
      BY <2>1, <2>2, <3>1, WiresKept, Zenon
  <2>4. CASE conn[c] \in Conns
    <3>1. PICK k \in Conns : k = conn[c]
      BY <2>4, Zenon
    <3>2. /\ wire'[k] = Append(wire[k], c) /\ Len(wire'[k]) = Len(wire[k]) + 1
          /\ wire'[k][Len(wire[k]) + 1] = c
          /\ \A i \in 1 .. Len(wire[k]) : wire'[k][i] = wire[k][i]
          /\ \A l \in Conns : l # k => wire'[l] = wire[l]
      BY <1>3, <3>1 DEF SendOk, TypeOK
    <3>3. \A l \in Conns : \A i \in 1 .. Len(wire'[l]) :
             \/ l = k /\ i = Len(wire[k]) + 1 /\ wire'[l][i] = c
             \/ /\ i \in 1 .. Len(wire[l]) /\ wire'[l][i] = wire[l][i]
                /\ wire[l][i] \in Calls /\ stage[wire[l][i]] = "wire"
      <4> TAKE l \in Conns
      <4> TAKE i \in 1 .. Len(wire'[l])
      <4>1. CASE l # k
        BY <3>2, <4>1 DEF WireInv, TypeOK
      <4>2. CASE l = k /\ i = Len(wire[k]) + 1
        BY <3>2, <4>2, Zenon
      <4>3. CASE l = k /\ i # Len(wire[k]) + 1
        <5>1. i \in 1 .. Len(wire[k]) /\ Len(wire[k]) \in Nat
          BY <3>2, <4>3 DEF TypeOK
        <5>2. QED
          BY <3>2, <4>3, <5>1 DEF WireInv, TypeOK
      <4>4. QED
        BY <4>1, <4>2, <4>3, Zenon
    <3>4. \A l \in Conns : \A i \in 1 .. Len(wire'[l]) : stage'[wire'[l][i]] = "wire"
      BY <2>1, <3>3
    <3>5. \A l, m \in Conns : \A i \in 1 .. Len(wire'[l]), j \in 1 .. Len(wire'[m]) :
             wire'[l][i] = wire'[m][j] => l = m /\ i = j
      <4> TAKE l, m \in Conns
      <4> TAKE i \in 1 .. Len(wire'[l]), j \in 1 .. Len(wire'[m])
      <4>1. QED
        BY <2>1, <3>3, SMTT(30) DEF WireInv
    <3>6. QED
      BY <2>2, <3>4, <3>5, Zenon DEF WireInv
  <2>5. QED
    BY <2>3, <2>4, Zenon
<1>4. ASSUME NEW k \in Conns, NEW c \in Calls, Dispatch(k, c) PROVE StageInv' /\ WireInv'
  <2>1. Reads(k, c) /\ Move(c, "gated")
    BY <1>4, Zenon DEF Dispatch
  <2>2. stage[c] = "wire" /\ work[k] = None /\ WireInv'
    BY <2>1, ReadsQueue, ReadsFrame, Zenon
  <2>3. \A l \in Conns : work[l] # c
    BY <2>2, Zenon DEF StageInv
  <2>4. /\ work' = [work EXCEPT ![k] = c] /\ UNCHANGED <<node, todo>>
        /\ stage' = [d \in Calls |-> IF d = c THEN "gated" ELSE stage[d]]
    BY <1>4, Zenon DEF Dispatch, Move, MoveAll, receiver
  <2>5. todo' = {d \in Calls : stage'[d] = "parked"}
    BY <2>2, <2>4, Zenon DEF StageInv
  <2>6. \A l \in Conns \ {k} : work'[l] = work[l] /\ work[l] # c
    BY <2>3, <2>4, Zenon DEF TypeOK
  <2>7. work'[k] = c /\ stage'[c] = "gated"
    BY <2>4, Zenon DEF TypeOK
  <2>8. StageInv'
    <3>1. \A l \in Conns \ {k} : work[l] # None => stage'[work[l]] = stage[work[l]]
      BY <2>4, <2>6, Zenon DEF TypeOK
    <3>2. \A l \in Conns : work'[l] # None => \/ stage'[work'[l]] \in {"gated", "running"}
                                              \/ stage'[work'[l]] = "unknown" /\ ~node'
      BY <2>4, <2>6, <2>7, <3>1 DEF StageInv
    <3>3. \A l, m \in Conns : work'[l] # None /\ work'[l] = work'[m] => l = m
      BY <2>6, <2>7, Zenon DEF StageInv
    <3>4. QED
      BY <2>5, <3>2, <3>3, Zenon DEF StageInv
  <2>9. QED
    BY <2>2, <2>8, Zenon
<1>5. ASSUME NEW k \in Conns, NEW c \in Calls, Park(k, c) PROVE StageInv' /\ WireInv'
  <2>1. Reads(k, c) /\ Move(c, "parked")
    BY <1>5, Zenon DEF Park
  <2>2. stage[c] = "wire" /\ WireInv'
    BY <2>1, ReadsQueue, Zenon
  <2>3. StageInv'
    BY <1>5, <2>1, <2>2 DEF Park, Move, MoveAll, StageInv, TypeOK
  <2>4. QED
    BY <2>2, <2>3, Zenon
<1>6. ASSUME NEW k \in Conns, NEW c \in Calls, Discard(k, c) PROVE StageInv' /\ WireInv'
  <2>1. PICK to \in {"unknown", "stale"} : Reads(k, c) /\ Move(c, to)
    BY <1>6, Zenon DEF Discard
  <2>2. stage[c] = "wire" /\ WireInv'
    BY <2>1, ReadsQueue, Zenon
  <2>3. StageInv'
    BY <1>6, <2>1, <2>2, Zenon DEF Discard, Move, MoveAll, receiver, StageInv, TypeOK
  <2>4. QED
    BY <2>2, <2>3, Zenon
<1>7. ASSUME NEW k \in Conns, Terminate(k) PROVE StageInv' /\ WireInv'
  <2>1. /\ wire' = [wire EXCEPT ![k] = <<>>]
        /\ stage' = [d \in Calls |-> IF d \in todo \cup OnWire(k) THEN "lost" ELSE stage[d]]
        /\ todo' = {} /\ UNCHANGED <<node, work>>
    BY <1>7, Zenon DEF Terminate, MoveAll
  <2>2. \A d \in todo \cup OnWire(k) : stage[d] \in {"parked", "wire"}
    BY DEF StageInv, WireInv, OnWire
  <2>3. \A d \in Calls : stage[d] = "wire" /\ d \notin OnWire(k) => stage'[d] = "wire"
    BY <2>1, Zenon DEF StageInv
  <2>4. StageInv'
    BY <2>1, <2>2 DEF StageInv, TypeOK
  <2>5. QED
    BY <2>1, <2>3, <2>4, WireCut, Zenon
<1>8. ASSUME NEW k \in Conns, Break(k) PROVE StageInv' /\ WireInv'
  <2>1. /\ wire' = [wire EXCEPT ![k] = <<>>]
        /\ stage' = [d \in Calls |-> IF d \in OnWire(k) THEN "lost" ELSE stage[d]]
        /\ UNCHANGED <<node, todo, work>>
    BY <1>8, Zenon DEF Break, MoveAll, receiver
  <2>2. \A d \in OnWire(k) : stage[d] = "wire"
    BY DEF WireInv, OnWire
  <2>3. \A d \in Calls : stage[d] = "wire" /\ d \notin OnWire(k) => stage'[d] = "wire"
    BY <2>1, Zenon
  <2>4. StageInv'
    BY <2>1, <2>2 DEF StageInv, TypeOK
  <2>5. QED
    BY <2>1, <2>3, <2>4, WireCut, Zenon
<1>9. ASSUME NEW k \in Conns, Execute(k) PROVE StageInv' /\ WireInv'
  <2>1. /\ wire' = wire /\ UNCHANGED <<node, todo, work>>
        /\ stage[work[k]] = "gated"
        /\ stage' = [d \in Calls |-> IF d = work[k] THEN IF node THEN "running" ELSE "unknown"
                                     ELSE stage[d]]
    BY <1>9, Zenon DEF Execute, Move, MoveAll, receiver, StageInv
  <2>2. StageInv'
    BY <2>1, Zenon DEF StageInv, TypeOK
  <2>3. QED
    BY <2>1, <2>2, WiresKept, Zenon
<1>10. ASSUME NEW k \in Conns, Advance(k) PROVE StageInv' /\ WireInv'
  <2>0. CASE ~node
    <3>1. /\ work[k] \in Calls /\ work' = [work EXCEPT ![k] = None]
          /\ UNCHANGED <<wire, node, todo>>
          /\ stage[work[k]] \in {"running", "unknown"}
          /\ \A d \in Calls : IF d = work[k] THEN stage'[d] \in {"ran", "unknown"}
                               ELSE stage'[d] = stage[d]
      BY <1>10, <2>0, AdvanceGone
    <3>2. todo' = {d \in Calls : stage'[d] = "parked"}
      BY <3>1, Zenon DEF StageInv
    <3>3. \A l \in Conns : IF l = k THEN work'[l] = None
                           ELSE work'[l] = work[l] /\ work[l] # work[k]
      BY <3>1, OrderAssumption, Zenon DEF StageInv, TypeOK
    <3>4. StageInv'
      BY <3>1, <3>2, <3>3 DEF StageInv, TypeOK
    <3>5. \A d \in Calls : stage[d] = "wire" => stage'[d] = "wire"
      BY <3>1, Zenon
    <3>6. QED
      BY <3>1, <3>4, <3>5, WiresKept, Zenon
  <2> SUFFICES ASSUME node PROVE StageInv' /\ WireInv'
    BY <2>0, Zenon
  <2>1. work[k] \in Calls /\ stage[work[k]] = "running" /\ wire' = wire /\ node' = node
    BY <1>10, AdvanceCases, Zenon
  <2>2. CASE /\ todo' = todo /\ work' = [work EXCEPT ![k] = None]
             /\ stage' = [d \in Calls |-> IF d = work[k] THEN "ran" ELSE stage[d]]
    <3>1. StageInv'
      BY <2>1, <2>2, Zenon DEF StageInv, TypeOK
    <3>2. QED
      BY <2>1, <2>2, <3>1, WiresKept, Zenon
  <2>3. ASSUME NEW e \in todo, stage[e] = "parked",
               todo' = todo \ {e}, work' = [work EXCEPT ![k] = e],
               stage' = [d \in Calls |-> IF d = work[k] THEN "ran"
                                        ELSE IF d = e THEN "gated" ELSE stage[d]]
        PROVE  StageInv' /\ WireInv'
    <3>1. e \in Calls /\ \A l \in Conns : work[l] # e
      BY <2>3, Zenon DEF StageInv, TypeOK
    <3>2. StageInv'
      BY <2>1, <2>3, <3>1, Zenon DEF StageInv, TypeOK
    <3>3. QED
      BY <2>1, <2>3, <3>2, WiresKept, Zenon
  <2>4. QED
    BY <1>10, <2>2, <2>3, AdvanceCases, Zenon
<1>11. CASE ReleaseNode
  <2>1. /\ wire' = wire /\ work' = work /\ todo' = {} /\ node' = FALSE
        /\ stage' = [d \in Calls |-> IF d \in todo THEN "unknown" ELSE stage[d]]
    BY <1>11, Zenon DEF ReleaseNode, MoveAll
  <2>2. StageInv'
    BY <2>1, Zenon DEF StageInv, TypeOK
  <2>3. \A d \in Calls : stage[d] = "wire" => stage'[d] = "wire"
    BY <2>1, Zenon DEF StageInv
  <2>4. QED
    BY <2>1, <2>2, <2>3, WiresKept, Zenon
<1>12. CASE UNCHANGED vars
  BY <1>12, WiresKept, Zenon DEF vars, StageInv
<1>13. QED
  BY <1>1, <1>2, <1>3, <1>4, <1>5, <1>6, <1>7, <1>8, <1>9, <1>10, <1>11, <1>12, Zenon
     DEF Next, Progress, Work, Receive

\* What one step does to the line of calls: one joins it, some leave it, the
\* first one's turn comes, a call ends and the next may follow at once, or it
\* ends after the node was released.
Join ==
    \E c \in Calls :
       /\ c \notin Pending \cup Executing \cup Executed
       /\ Pending' = Pending \cup {c}
       /\ num'[c] = counter /\ counter' = counter + 1
       /\ \A d \in Calls : d # c => num'[d] = num[d]
       /\ UNCHANGED <<Executing, Executed, next>>

Leave ==
    /\ Pending' \subseteq Pending /\ Executing' \subseteq Executing
    /\ \/ counter' = counter
       \/ \E c \in Pending : c \notin Pending' /\ counter = num[c] + 1 /\ counter' = num[c]
    /\ UNCHANGED <<Executed, num, next>>

Turn ==
    \E c \in Pending :
       /\ num[c] = next
       /\ Pending' = Pending \ {c} /\ Executing' = Executing \cup {c}
       /\ UNCHANGED <<Executed, num, next, counter>>

Finish ==
    \E c \in Executing :
       /\ Executed' = Executed \cup {c} /\ next' = next + 1
       /\ \/ Executing' = Executing \ {c} /\ Pending' = Pending
          \/ \E e \in Pending : /\ num[e] = next + 1
                               /\ Executing' = (Executing \ {c}) \cup {e}
                               /\ Pending' = Pending \ {e}
       /\ UNCHANGED <<num, counter>>

Stop ==
    \E c \in Executing :
       /\ Executed' = Executed \cup {c} /\ Executing' = Executing \ {c}
       /\ ~node /\ UNCHANGED <<Pending, num, counter, next>>

\* Every step of the model is one of the five, drops nothing as stale and
\* brings no node back.
LEMMA LineStep ==
    ASSUME TypeOK, StageInv, WireInv, NumbersInv, SerialInOrder, [Next]_vars
    PROVE  /\ Join \/ Leave \/ Turn \/ Finish \/ Stop
           /\ (\A c \in Calls : stage'[c] # "stale") /\ (node' => node)
<1> DEFINE Fresh == (\A c \in Calls : stage'[c] # "stale") /\ (node' => node)
<1>0. \A c \in Calls : stage[c] # "stale"
  BY Zenon DEF NumbersInv
<1>1. ASSUME NEW c \in Calls, NEW k \in Conns, Reserve(c, k) PROVE Join /\ Fresh
  <2>1. stage[c] = "new" /\ stage' = [d \in Calls |-> IF d = c THEN "reserved" ELSE stage[d]]
    BY <1>1, Zenon DEF Reserve, Move, MoveAll
  <2>2. /\ c \notin Pending \cup Executing \cup Executed /\ Pending' = Pending \cup {c}
        /\ Executing' = Executing /\ Executed' = Executed
    BY <2>1, Zenon DEF Pending, Executing, Executed
  <2>3. QED
    BY <1>0, <1>1, <2>1, <2>2, Zenon DEF Join, Reserve, receiver, TypeOK
<1>2. ASSUME NEW c \in Calls, SendFail(c) PROVE Leave /\ Fresh
  <2>1. PICK to \in {"failed", "gap"} :
           stage[c] = "reserved" /\ stage' = [d \in Calls |-> IF d = c THEN to ELSE stage[d]]
    BY <1>2, Zenon DEF SendFail, Move, MoveAll
  <2>2. /\ c \in Pending /\ Pending' = Pending \ {c}
        /\ Executing' = Executing /\ Executed' = Executed
    BY <2>1, Zenon DEF Pending, Executing, Executed
  <2>3. QED
    BY <1>0, <1>2, <2>1, <2>2, Zenon DEF Leave, SendFail, receiver
<1>3. ASSUME NEW c \in Calls, SendOk(c) PROVE Leave /\ Fresh
  <2>1. stage[c] = "reserved" /\ stage' = [d \in Calls |-> IF d = c THEN "wire" ELSE stage[d]]
    BY <1>3, Zenon DEF SendOk, Move, MoveAll
  <2>2. Pending' = Pending /\ Executing' = Executing /\ Executed' = Executed
    BY <2>1, Zenon DEF Pending, Executing, Executed
  <2>3. QED
    BY <1>0, <1>3, <2>1, <2>2, Zenon DEF Leave, SendOk, receiver
<1>4. ASSUME NEW k \in Conns, NEW c \in Calls, Dispatch(k, c) PROVE Turn /\ Fresh
  <2>1. stage[c] = "wire" /\ stage' = [d \in Calls |-> IF d = c THEN "gated" ELSE stage[d]]
    BY <1>4, ReadsQueue, Zenon DEF Dispatch, Move, MoveAll
  <2>2. /\ c \in Pending /\ Pending' = Pending \ {c}
        /\ Executing' = Executing \cup {c} /\ Executed' = Executed
    BY <2>1, Zenon DEF Pending, Executing, Executed
  <2>3. QED
    BY <1>0, <1>4, <2>1, <2>2, Zenon DEF Turn, Dispatch, sender, receiver
<1>5. ASSUME NEW k \in Conns, NEW c \in Calls, Park(k, c) PROVE Leave /\ Fresh
  <2>1. stage[c] = "wire" /\ stage' = [d \in Calls |-> IF d = c THEN "parked" ELSE stage[d]]
    BY <1>5, ReadsQueue, Zenon DEF Park, Move, MoveAll
  <2>2. Pending' = Pending /\ Executing' = Executing /\ Executed' = Executed
    BY <2>1, Zenon DEF Pending, Executing, Executed
  <2>3. QED
    BY <1>0, <1>5, <2>1, <2>2, Zenon DEF Leave, Park, sender
<1>6. ASSUME NEW k \in Conns, NEW c \in Calls, Discard(k, c) PROVE Leave /\ Fresh
  <2>1. PICK to \in {"unknown", "stale"} : Reads(k, c) /\ Move(c, to)
    BY <1>6, Zenon DEF Discard
  <2>2. stage[c] = "wire" /\ c \in Pending
    BY <2>1, ReadsQueue, Zenon DEF Pending
  <2>3. ~node /\ Move(c, "unknown")
    BY <1>6, <2>2 DEF Discard, NumbersInv, TypeOK
  <2>4. stage' = [d \in Calls |-> IF d = c THEN "unknown" ELSE stage[d]]
    BY <2>3, Zenon DEF Move, MoveAll
  <2>5. Pending' \subseteq Pending /\ Executing' = Executing /\ Executed' = Executed
    BY <2>2, <2>4, Zenon DEF Pending, Executing, Executed
  <2>6. QED
    BY <1>0, <1>6, <2>4, <2>5, Zenon DEF Leave, Discard, sender, receiver
<1>7. ASSUME NEW k \in Conns, Terminate(k) \/ Break(k) PROVE Leave /\ Fresh
  <2>1. PICK S \in SUBSET Calls :
           /\ \A c \in S : stage[c] \in {"parked", "wire"}
           /\ stage' = [d \in Calls |-> IF d \in S THEN "lost" ELSE stage[d]]
    <3>1. todo \cup OnWire(k) \subseteq Calls /\ \A c \in todo \cup OnWire(k) : stage[c] \in {"parked", "wire"}
      BY DEF StageInv, WireInv, OnWire, TypeOK
    <3>2. CASE Terminate(k)
      BY <3>1, <3>2, Zenon DEF Terminate, MoveAll
    <3>3. CASE Break(k)
      BY <3>1, <3>3, Zenon DEF Break, MoveAll
    <3>4. QED
      BY <1>7, <3>2, <3>3, Zenon
  <2>2. Pending' \subseteq Pending /\ Executing' = Executing /\ Executed' = Executed
    BY <2>1, Zenon DEF Pending, Executing, Executed
  <2>3. QED
    BY <1>0, <1>7, <2>1, <2>2 DEF Leave, Terminate, Break, sender, receiver
<1>8. ASSUME NEW k \in Conns, Execute(k) PROVE Leave /\ Fresh
  <2>1. /\ stage[work[k]] = "gated"
        /\ stage' = [d \in Calls |-> IF d = work[k] THEN IF node THEN "running" ELSE "unknown"
                                     ELSE stage[d]]
    BY <1>8, Zenon DEF Execute, Move, MoveAll, StageInv
  <2>2. Pending' = Pending /\ Executing' \subseteq Executing /\ Executed' = Executed
    BY <2>1, Zenon DEF Pending, Executing, Executed
  <2>3. QED
    BY <1>0, <1>8, <2>1, <2>2, Zenon DEF Leave, Execute, sender, receiver
<1>9. ASSUME NEW k \in Conns, Advance(k) PROVE (Finish \/ Stop \/ Leave) /\ Fresh
  <2>0. CASE ~node
    <3>1. /\ work[k] \in Calls
          /\ UNCHANGED <<counter, num, node, next>>
          /\ \/ /\ stage[work[k]] = "running"
                /\ stage' = [d \in Calls |-> IF d = work[k] THEN "ran" ELSE stage[d]]
             \/ stage' = stage
      BY <1>9, <2>0, AdvanceGone, Zenon
    <3>2. CASE stage' = stage
      BY <1>0, <3>1, <3>2, Zenon DEF Leave, Pending, Executing, Executed
    <3>3. CASE stage[work[k]] = "running"
               /\ stage' = [d \in Calls |-> IF d = work[k] THEN "ran" ELSE stage[d]]
      <4>1. /\ work[k] \in Executing /\ Executing' = Executing \ {work[k]}
            /\ Executed' = Executed \cup {work[k]} /\ Pending' = Pending
        BY <3>1, <3>3, Zenon DEF Pending, Executing, Executed
      <4>2. QED
        BY <1>0, <2>0, <3>1, <3>3, <4>1, Zenon DEF Stop
    <3>4. QED
      BY <3>1, <3>2, <3>3, Zenon
  <2> SUFFICES ASSUME node PROVE Finish /\ Fresh
    BY <2>0, Zenon
  <2>1. /\ work[k] \in Calls /\ stage[work[k]] = "running" /\ next' = next + 1
        /\ num' = num /\ counter' = counter
    BY <1>9, AdvanceCases, Zenon
  <2>2. CASE stage' = [d \in Calls |-> IF d = work[k] THEN "ran" ELSE stage[d]]
    <3>1. /\ work[k] \in Executing /\ Executing' = Executing \ {work[k]}
          /\ Executed' = Executed \cup {work[k]} /\ Pending' = Pending
      BY <2>1, <2>2, Zenon DEF Pending, Executing, Executed
    <3>2. QED
      BY <1>0, <2>1, <2>2, <3>1, Zenon DEF Finish
  <2>3. ASSUME NEW e \in todo, num[e] = next', stage[e] = "parked",
               stage' = [d \in Calls |-> IF d = work[k] THEN "ran"
                                        ELSE IF d = e THEN "gated" ELSE stage[d]]
        PROVE  Finish /\ Fresh
    <3>1. e \in Calls
      BY Zenon DEF TypeOK
    <3>2. /\ work[k] \in Executing /\ Executing' = (Executing \ {work[k]}) \cup {e}
          /\ Executed' = Executed \cup {work[k]} /\ Pending' = Pending \ {e} /\ e \in Pending
      BY <2>1, <2>3, <3>1, Zenon DEF Pending, Executing, Executed
    <3>3. QED
      BY <1>0, <2>1, <2>3, <3>2, Zenon DEF Finish
  <2>4. QED
    BY <1>9, <2>2, <2>3, AdvanceCases, Zenon
<1>10. ASSUME ReleaseNode PROVE Leave /\ Fresh
  <2>1. stage' = [d \in Calls |-> IF d \in todo THEN "unknown" ELSE stage[d]]
    BY <1>10, Zenon DEF ReleaseNode, MoveAll
  <2>2. Pending' \subseteq Pending /\ Executing' = Executing /\ Executed' = Executed
    BY <2>1, Zenon DEF Pending, Executing, Executed, StageInv
  <2>3. QED
    BY <1>0, <1>10, <2>1, <2>2, Zenon DEF Leave, ReleaseNode, sender
<1>11. CASE UNCHANGED vars
  BY <1>0, <1>11, Zenon DEF vars, Leave, Pending, Executing, Executed
<1>12. QED
  BY <1>1, <1>2, <1>3, <1>4, <1>5, <1>6, <1>7, <1>8, <1>9, <1>10, <1>11, Zenon
     DEF Next, Progress, Work, Receive

\* The inductive invariant: the numbers, the order and the queues.
IInv == StageInv /\ WireInv /\ NumbersInv /\ SerialInOrder

\* Each of the five keeps the numbers distinct and the line in order.
LEMMA IInvStep == TypeOK /\ TypeOK' /\ IInv /\ [Next]_vars => IInv'
<1> SUFFICES ASSUME TypeOK, TypeOK', StageInv, WireInv, NumbersInv, SerialInOrder, [Next]_vars
             PROVE  IInv'
  BY Zenon DEF IInv
<1>1. StageInv' /\ WireInv'
  BY QueueStep, Zenon
<1>2. (\A c \in Calls : stage'[c] # "stale") /\ (node' => node)
  BY LineStep, Zenon
<1>3. /\ Pending \subseteq Calls /\ Executing \subseteq Calls /\ Executed \subseteq Calls
      /\ Pending \cap Executing = {} /\ Pending \cap Executed = {} /\ Executing \cap Executed = {}
  BY Zenon DEF Pending, Executing, Executed
<1>4. ASSUME Join PROVE NumbersInv' /\ SerialInOrder'
  <2>1. PICK c \in Calls :
           /\ c \notin Pending \cup Executing \cup Executed
           /\ Pending' = Pending \cup {c}
           /\ num'[c] = counter /\ counter' = counter + 1
           /\ \A d \in Calls : d # c => num'[d] = num[d]
           /\ UNCHANGED <<Executing, Executed, next>>
    BY <1>4, Zenon DEF Join
  <2>2. \A d \in Pending \cup Executing \cup Executed : d # c /\ num'[d] = num[d] /\ num[d] < counter
    BY <1>3, <2>1, Zenon DEF NumbersInv, SerialInOrder, TypeOK
  <2>3. NumbersInv'
    <3>1. counter \in Int /\ num'[c] \notin {num[d] : d \in Pending \cup Executing \cup Executed}
      BY <2>1, <2>2 DEF TypeOK
    <3>2. (\A d, e \in Pending \cup Executing \cup Executed : d # e => num[d] # num[e])'
      BY <2>1, <2>2, <3>1 DEF NumbersInv
    <3>3. (\A d \in Pending : next <= num[d] /\ num[d] < counter)'
      <4>1. next \in Int /\ counter \in Int /\ next <= counter /\ num'[c] = counter
        BY <2>1, Zenon DEF NumbersInv, TypeOK
      <4>2. next' = next /\ counter' = counter + 1 /\ Pending' = Pending \cup {c}
        BY <2>1, Zenon
      <4>3. \A d \in Pending : num[d] \in Int /\ next <= num[d] /\ num[d] < counter /\ num'[d] = num[d]
        BY <2>2, Zenon DEF NumbersInv, TypeOK, Pending
      <4>4. QED
        BY <4>1, <4>2, <4>3
    <3>4. (\A d \in Executed : num[d] < counter /\ (node => num[d] < next))'
      BY <1>2, <2>1, <2>2 DEF NumbersInv, TypeOK, Executed
    <3>5. (next <= counter)'
      BY <2>1 DEF NumbersInv, TypeOK
    <3>6. QED
      BY <1>2, <3>2, <3>3, <3>4, <3>5, Zenon DEF NumbersInv
  <2>4. SerialInOrder'
    BY <2>1, <2>2 DEF SerialInOrder, TypeOK
  <2>5. QED
    BY <2>3, <2>4, Zenon
<1>5. ASSUME Leave PROVE NumbersInv' /\ SerialInOrder'
  <2>1. /\ Pending' \subseteq Pending /\ Executing' \subseteq Executing
        /\ UNCHANGED <<Executed, num, next>>
    BY <1>5, Zenon DEF Leave
  <2>2. CASE counter' = counter
    BY <1>2, <1>3, <2>1, <2>2 DEF NumbersInv, SerialInOrder, TypeOK
  <2>3. CASE \E c \in Pending : c \notin Pending' /\ counter = num[c] + 1 /\ counter' = num[c]
    <3>1. PICK c \in Pending : c \notin Pending' /\ counter = num[c] + 1 /\ counter' = num[c]
      BY <2>3, Zenon
    <3>2. c \notin Executing /\ c \notin Executed /\ c \in Calls
      BY Zenon DEF Pending, Executing, Executed
    <3>3. \A d \in Pending' \cup Executed : num[d] < num[c]
      BY <2>1, <3>1, <3>2, <1>3 DEF NumbersInv, TypeOK, Pending, Executed
    <3>4. NumbersInv'
      BY <1>2, <2>1, <3>1, <3>3 DEF NumbersInv, TypeOK
    <3>5. \A d \in Executing' : next < num[c]
      BY <2>1, <3>1, <1>3 DEF SerialInOrder, TypeOK
    <3>6. SerialInOrder'
      BY <2>1, <3>1, <3>5, Zenon DEF SerialInOrder
    <3>7. QED
      BY <3>4, <3>6, Zenon
  <2>4. QED
    BY <1>5, <2>2, <2>3, Zenon DEF Leave
<1>6. ASSUME Turn PROVE NumbersInv' /\ SerialInOrder'
  BY <1>2, <1>3, <1>6 DEF Turn, NumbersInv, SerialInOrder, TypeOK
<1>7. ASSUME Finish PROVE NumbersInv' /\ SerialInOrder'
  BY <1>2, <1>3, <1>7 DEF Finish, NumbersInv, SerialInOrder, TypeOK
<1>8. ASSUME Stop PROVE NumbersInv' /\ SerialInOrder'
  BY <1>2, <1>3, <1>8 DEF Stop, NumbersInv, SerialInOrder, TypeOK
<1>9. QED
  BY <1>1, <1>4, <1>5, <1>6, <1>7, <1>8, LineStep, Zenon DEF IInv

\* The inductive invariant holds from the start.
LEMMA IInvHolds == Spec => []IInv
<1>1. Init => IInv
  <2> SUFFICES ASSUME Init PROVE IInv
    OBVIOUS
  <2>1. Pending = {} /\ Executing = {} /\ Executed = {}
    BY Zenon DEF Init, NoCalls, Pending, Executing, Executed
  <2>2. StageInv /\ WireInv
    BY DEF Init, NoCalls, StageInv, WireInv
  <2>3. QED
    BY <2>1, <2>2 DEF Init, NoCalls, IInv, NumbersInv, SerialInOrder
<1>2. QED
  BY <1>1, TypeInvariant, IInvStep, PTL DEF Spec

\* Numbers in use stay distinct, and no call that was sent is ever stale.
THEOREM NumbersCorrect == Spec => []NumbersInv
BY IInvHolds, PTL DEF IInv

\* Oneway calls to an object never overlap and never overtake one another,
\* however many connections carry them.
THEOREM SerialOrder == Spec => []SerialInOrder
BY IInvHolds, PTL DEF IInv

\* The model implements the first-in first-out line of OnewayFifo.
THEOREM FifoRefinement == Spec => ImplementsFifo
<1>1. Init => Fifo!FifoInit
  BY Zenon DEF Init, NoCalls, Fifo!FifoInit, Pending, Executing, Executed
<1>2. TypeOK /\ TypeOK' /\ IInv /\ [Next]_vars => [Fifo!FifoNext]_(Fifo!fvars)
  <2> SUFFICES ASSUME TypeOK, TypeOK', StageInv, WireInv, NumbersInv, SerialInOrder, [Next]_vars
               PROVE  Fifo!FifoNext
    BY Zenon DEF IInv
  <2>1. /\ Pending \subseteq Calls /\ Executing \subseteq Calls /\ Executed \subseteq Calls
        /\ Pending \cap Executing = {} /\ Pending \cap Executed = {} /\ Executing \cap Executed = {}
    BY DEF Pending, Executing, Executed
  <2>2. ASSUME Join PROVE Fifo!FifoNext
    <3>1. PICK c \in Calls :
             /\ c \notin Pending \cup Executing \cup Executed
             /\ Pending' = Pending \cup {c}
             /\ num'[c] = counter /\ counter' = counter + 1
             /\ \A d \in Calls : d # c => num'[d] = num[d]
             /\ UNCHANGED <<Executing, Executed, next>>
      BY <2>2 DEF Join
    <3>2. \A d \in Pending \cup Executing \cup Executed : num'[d] = num[d] /\ num[d] < counter
      BY <2>1, <3>1, Zenon DEF NumbersInv, SerialInOrder, TypeOK
    <3>3. Fifo!Accept(c)
      BY <3>1, <3>2, Zenon DEF Fifo!Accept
    <3>4. QED
      BY <3>3, Zenon DEF Fifo!FifoNext
  <2>3. ASSUME Leave PROVE Fifo!FifoNext
    BY <2>3, Zenon DEF Leave, Fifo!FifoNext, Fifo!Lose
  <2>4. ASSUME Turn PROVE Fifo!FifoNext
    <3>1. PICK c \in Pending :
             /\ num[c] = next
             /\ Pending' = Pending \ {c} /\ Executing' = Executing \cup {c}
             /\ UNCHANGED <<Executed, num, next, counter>>
      BY <2>4, Zenon DEF Turn
    <3>2. Executing = {}
      BY <2>1, <3>1 DEF SerialInOrder, TypeOK
    <3>3. \A d \in Pending : num[c] <= num[d]
      BY <3>1, Zenon DEF NumbersInv
    <3>4. Fifo!Begin(c)
      BY <3>1, <3>2, <3>3, Zenon DEF Fifo!Begin, Fifo!First
    <3>5. QED
      BY <2>1, <3>4, Zenon DEF Fifo!FifoNext
  <2>5. ASSUME Finish PROVE Fifo!FifoNext
    <3>1. PICK c \in Executing :
             /\ Executed' = Executed \cup {c} /\ next' = next + 1
             /\ \/ Executing' = Executing \ {c} /\ Pending' = Pending
                \/ \E e \in Pending : /\ num[e] = next + 1
                                     /\ Executing' = (Executing \ {c}) \cup {e}
                                     /\ Pending' = Pending \ {e}
             /\ UNCHANGED <<num, counter>>
      BY <2>5, Zenon DEF Finish
    <3>2. Executing = {c}
      BY Zenon DEF SerialInOrder
    <3>3. \A d \in Pending : next + 1 <= num[d]
      BY <2>1, <3>1 DEF SerialInOrder, TypeOK
    <3>4. Fifo!End
      BY <3>1, <3>2, <3>3, Zenon DEF Fifo!End, Fifo!First
    <3>5. QED
      BY <3>4, Zenon DEF Fifo!FifoNext
  <2>6. ASSUME Stop PROVE Fifo!FifoNext
    <3>1. PICK c \in Executing :
             /\ Executed' = Executed \cup {c} /\ Executing' = Executing \ {c}
             /\ UNCHANGED <<Pending, num, counter, next>>
      BY <2>6, Zenon DEF Stop
    <3>2. Executing = {c}
      BY DEF SerialInOrder
    <3>3. QED
      BY <3>1, <3>2, Zenon DEF Fifo!End, Fifo!FifoNext
  <2>7. QED
    BY <2>2, <2>3, <2>4, <2>5, <2>6, LineStep, Zenon
<1>3. QED
  BY <1>1, <1>2, TypeInvariant, IInvHolds, PTL DEF Spec, ImplementsFifo, Fifo!FifoSpec

INSTANCE FiniteSetTheorems

\* No node ever has TodoLimit calls parked: the one that would reach it flushes
\* the backlog instead (dispatch_async_or_enqueue), for any limit.
THEOREM BacklogLimited == Spec => []BacklogBounded
<1>1. Init => BacklogBounded
  BY OrderAssumption, FS_EmptySet DEF Init, NoCalls, BacklogBounded
<1>2. TypeOK /\ BacklogBounded /\ [Next]_vars => BacklogBounded'
  <2> SUFFICES ASSUME TypeOK, BacklogBounded, [Next]_vars PROVE BacklogBounded'
    BY Zenon
  <2>1. IsFiniteSet(todo) /\ Cardinality(todo) \in Nat
    BY OrderAssumption, FS_Subset, FS_CardinalityType, Zenon DEF TypeOK
  <2>2. ASSUME todo' \subseteq todo PROVE BacklogBounded'
    <3>1. Cardinality(todo') <= Cardinality(todo) /\ Cardinality(todo') \in Nat
      BY <2>1, <2>2, FS_Subset, FS_CardinalityType, Zenon
    <3>2. QED
      BY <2>1, <3>1, OrderAssumption DEF BacklogBounded
  <2>3. ASSUME NEW k \in Conns, NEW c \in Calls, Park(k, c) PROVE BacklogBounded'
    <3>1. Cardinality(todo \cup {c}) = IF c \in todo THEN Cardinality(todo) ELSE Cardinality(todo) + 1
      BY <2>1, FS_AddElement, Zenon
    <3>2. QED
      BY <2>1, <2>3, <3>1, OrderAssumption, Zenon DEF Park, BacklogBounded
  <2>4. \/ todo' \subseteq todo
        \/ \E k \in Conns, c \in Calls : Park(k, c)
    <3>1. CASE \E c \in Calls, k \in Conns : Reserve(c, k)
      BY <3>1, Zenon DEF Reserve, receiver
    <3>2. CASE \E c \in Calls : SendOk(c) \/ SendFail(c)
      BY <3>2, Zenon DEF SendOk, SendFail, receiver
    <3>3. CASE \E k \in Conns : Break(k) \/ Terminate(k) \/ Execute(k)
      BY <3>3, Zenon DEF Break, Terminate, Execute, receiver
    <3>4. CASE \E k \in Conns, c \in Calls : Dispatch(k, c) \/ Discard(k, c)
      BY <3>4, Zenon DEF Dispatch, Discard, receiver
    <3>5. CASE \E k \in Conns : Advance(k)
      BY <3>5, Zenon DEF Advance, receiver
    <3>6. CASE ReleaseNode \/ UNCHANGED vars
      BY <3>6, Zenon DEF ReleaseNode, vars
    <3>7. QED
      BY <3>1, <3>2, <3>3, <3>4, <3>5, <3>6, Zenon DEF Next, Progress, Work, Receive
  <2>5. QED
    BY <2>2, <2>3, <2>4, Zenon
<1>3. QED
  BY <1>1, <1>2, TypeInvariant, PTL DEF Spec

\* All of OrderKept, for any number of calls and connections.
THEOREM OrderCorrect == Spec => []OrderKept
BY NumbersCorrect, SerialOrder, BacklogLimited, PTL DEF OrderKept
=============================================================================
