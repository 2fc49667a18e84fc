----------------------------- MODULE TlsDuplex -----------------------------
(***************************************************************************)
(* The TLS transport (rsbinder/src/rpc/transport/tls.rs) after its          *)
(* handshake: at each end one sender thread in send_raw and one receiver    *)
(* thread in recv_raw share the rustls connection (the mutex conn, taken    *)
(* only for in-memory work, so each hold is one step) and the write lock    *)
(* wlock.                                                                   *)
(*                                                                         *)
(* External: rustls numbers the records it seals, queues an answer to some  *)
(* of the records it receives (KeyUpdate) and rejects a record out of       *)
(* sequence; the socket carries records in order and blocks a writer when   *)
(* its buffer is full.                                                      *)
(***************************************************************************)
EXTENDS Integers, Sequences

CONSTANTS Ends,          \* the two ends of the connection
          Asked,         \* the ends that receive key-update requests
          MaxChunks,     \* plaintext chunks each sender sends, per send_raw
          MaxSends,      \* send_raw calls of each sender
          MaxControls,   \* key updates each asked end answers
          SocketRoom     \* records a socket buffer holds

ASSUME TlsAssumption == \E a, b \in Ends : a # b /\ Ends = {a, b}

VARIABLES sealed,    \* sealed[e]: records e's rustls has numbered
          queued,    \* queued[e]: rustls's output buffer
          wlock,     \* wlock[e]: who holds it
          sendPc, recvPc,
          cipher,    \* cipher[e][t]: drained records thread t has to transmit
          chunks,    \* chunks[e]: chunks left of the sender's buffer
          sends,     \* sends[e]: send_raw calls begun
          socket,    \* socket[e]: the buffer of what e wrote
          opened,    \* opened[e]: records e's rustls has accepted
          broken,    \* broken[e]: e's rustls met a record out of sequence
          plain,     \* plain[e]: decrypted chunks waiting in rustls
          delivered, \* delivered[e]: chunks recv_raw returned
          controls   \* controls[e]: control records e queued
tlsVars == <<sealed, queued, wlock, sendPc, recvPc, cipher, chunks, sends, socket, opened, broken,
             plain, delivered, controls>>

Peer(e) == CHOOSE p \in Ends : p # e
Writers == {"sender", "receiver"}

TlsInit ==
    /\ sealed = [e \in Ends |-> 0] /\ queued = [e \in Ends |-> <<>>]
    /\ wlock = [e \in Ends |-> "free"]
    /\ sendPc = [e \in Ends |-> "idle"] /\ recvPc = [e \in Ends |-> "read"]
    /\ cipher = [e \in Ends |-> [t \in Writers |-> <<>>]]
    /\ chunks = [e \in Ends |-> 0] /\ sends = [e \in Ends |-> 0]
    /\ socket = [e \in Ends |-> <<>>]
    /\ opened = [e \in Ends |-> 0] /\ broken = [e \in Ends |-> FALSE]
    /\ plain = [e \in Ends |-> 0] /\ delivered = [e \in Ends |-> 0]
    /\ controls = [e \in Ends |-> 0]

\* rustls seals one record at the end of its output buffer.
Seal(e, kind) ==
    /\ sealed' = [sealed EXCEPT ![e] = @ + 1]
    /\ queued' = [queued EXCEPT ![e] = Append(@, [n |-> sealed[e] + 1, kind |-> kind])]

\* write_socket_locked: one write of thread t's ciphertext; a full buffer blocks.
Transmit(e, t) ==
    /\ cipher[e][t] # <<>>
    /\ Len(socket[e]) < SocketRoom
    /\ socket' = [socket EXCEPT ![e] = Append(@, Head(cipher[e][t]))]
    /\ cipher' = [cipher EXCEPT ![e][t] = Tail(@)]

-----------------------------------------------------------------------------
(* send_raw *)

SendLock(e) ==
    /\ sendPc[e] = "idle" /\ sends[e] < MaxSends
    /\ wlock[e] = "free"
    /\ wlock' = [wlock EXCEPT ![e] = "sender"]
    /\ sends' = [sends EXCEPT ![e] = @ + 1]
    /\ \E n \in 1 .. MaxChunks : chunks' = [chunks EXCEPT ![e] = n]
    /\ sendPc' = [sendPc EXCEPT ![e] = "encrypt"]
    /\ UNCHANGED <<sealed, queued, recvPc, cipher, socket, opened, broken, plain, delivered, controls>>

\* Under the conn lock: feed a chunk, then drain the whole output buffer, the
\* control records in it included.
SendEncrypt(e) ==
    /\ sendPc[e] = "encrypt"
    /\ sealed' = [sealed EXCEPT ![e] = @ + 1]
    /\ cipher' = [cipher EXCEPT ![e]["sender"] =
                    Append(queued[e], [n |-> sealed[e] + 1, kind |-> "data"])]
    /\ queued' = [queued EXCEPT ![e] = <<>>]
    /\ chunks' = [chunks EXCEPT ![e] = @ - 1]
    /\ sendPc' = [sendPc EXCEPT ![e] = "transmit"]
    /\ UNCHANGED <<wlock, recvPc, sends, socket, opened, broken, plain, delivered, controls>>

SendTransmit(e) ==
    /\ sendPc[e] = "transmit"
    /\ Transmit(e, "sender")
    /\ UNCHANGED <<sealed, queued, wlock, sendPc, recvPc, chunks, sends, opened, broken, plain,
                   delivered, controls>>

\* Fault model: the write lock covers each transmit only, not the loop.
SendHoldsFault(e) == "free"

\* wlock is held until the last chunk is on the socket.
SendHolds(e) == IF chunks[e] > 0 THEN "sender" ELSE "free"

SendLoop(e) ==
    /\ sendPc[e] = "transmit" /\ cipher[e]["sender"] = <<>>
    /\ sendPc' = [sendPc EXCEPT ![e] = IF chunks[e] > 0 THEN "encrypt" ELSE "idle"]
    /\ wlock' = [wlock EXCEPT ![e] = SendHolds(e)]
    /\ UNCHANGED <<sealed, queued, recvPc, cipher, chunks, sends, socket, opened, broken, plain,
                   delivered, controls>>

-----------------------------------------------------------------------------
(* recv_raw: drain the plaintext, else flush control records, else read *)

RecvRead(e) ==
    /\ recvPc[e] = "read" /\ ~broken[e]
    /\ IF plain[e] > 0
       THEN /\ plain' = [plain EXCEPT ![e] = @ - 1]
            /\ delivered' = [delivered EXCEPT ![e] = @ + 1]
            /\ UNCHANGED recvPc
       ELSE /\ recvPc' = [recvPc EXCEPT ![e] = "flush"]
            /\ UNCHANGED <<plain, delivered>>
    /\ UNCHANGED <<sealed, queued, wlock, sendPc, cipher, chunks, sends, socket, opened, broken, controls>>

\* Fault model: the receiver waits for the write lock.
MaySkipFlushNever(e) == FALSE

\* try_lock: a receiver that finds wlock taken goes on without flushing.
MaySkipFlush(e) == wlock[e] # "free"

\* flush_control: drain under wlock, then transmit.
RecvFlush(e) ==
    /\ recvPc[e] = "flush"
    /\ \/ /\ MaySkipFlush(e)
          /\ recvPc' = [recvPc EXCEPT ![e] = "pump"]
          /\ UNCHANGED <<queued, cipher, wlock>>
       \/ /\ wlock[e] = "free"
          /\ wlock' = [wlock EXCEPT ![e] = IF queued[e] = <<>> THEN "free" ELSE "receiver"]
          /\ cipher' = [cipher EXCEPT ![e]["receiver"] = queued[e]]
          /\ queued' = [queued EXCEPT ![e] = <<>>]
          /\ recvPc' = [recvPc EXCEPT ![e] = IF queued[e] = <<>> THEN "pump" ELSE "transmit"]
    /\ UNCHANGED <<sealed, sendPc, chunks, sends, socket, opened, broken, plain, delivered, controls>>

RecvTransmit(e) ==
    /\ recvPc[e] = "transmit"
    /\ Transmit(e, "receiver")
    /\ IF Len(cipher[e]["receiver"]) = 1
       THEN /\ recvPc' = [recvPc EXCEPT ![e] = "pump"]
            /\ wlock' = [wlock EXCEPT ![e] = "free"]
       ELSE UNCHANGED <<recvPc, wlock>>
    /\ UNCHANGED <<sealed, queued, sendPc, chunks, sends, opened, broken, plain, delivered, controls>>

\* pump_incoming: one blocking read without a lock, then rustls takes the record
\* in.  A request among what it decrypts makes it queue an answer.
RecvPump(e) ==
    /\ recvPc[e] = "pump"
    /\ socket[Peer(e)] # <<>>
    /\ LET rec == Head(socket[Peer(e)]) IN
       /\ socket' = [socket EXCEPT ![Peer(e)] = Tail(@)]
       /\ IF rec.n # opened[e] + 1
          THEN broken' = [broken EXCEPT ![e] = TRUE] /\ UNCHANGED <<opened, plain>>
          ELSE /\ opened' = [opened EXCEPT ![e] = @ + 1]
               /\ plain' = [plain EXCEPT ![e] = @ + (IF rec.kind = "data" THEN 1 ELSE 0)]
               /\ UNCHANGED broken
       /\ \/ UNCHANGED <<sealed, queued, controls>>
          \/ /\ e \in Asked /\ controls[e] < MaxControls /\ rec.kind = "data"
             /\ Seal(e, "control")
             /\ controls' = [controls EXCEPT ![e] = @ + 1]
    /\ recvPc' = [recvPc EXCEPT ![e] = "read"]
    /\ UNCHANGED <<wlock, sendPc, cipher, chunks, sends, delivered>>

-----------------------------------------------------------------------------
SenderStep(e) == SendEncrypt(e) \/ SendTransmit(e) \/ SendLoop(e)
ReceiverStep(e) == RecvRead(e) \/ RecvFlush(e) \/ RecvTransmit(e) \/ RecvPump(e)

TlsNext == \E e \in Ends : SendLock(e) \/ SenderStep(e) \/ ReceiverStep(e)

\* Both threads of both ends run whenever they are not blocked.
TlsSpec ==
    /\ TlsInit /\ [][TlsNext]_tlsVars
    /\ \A e \in Ends : WF_tlsVars(SenderStep(e)) /\ WF_tlsVars(ReceiverStep(e))

-----------------------------------------------------------------------------
(* Properties *)

\* The records of an end go on the wire in the order rustls sealed them, control
\* records flushed by the receiver thread among the data included: the peer's
\* rustls never meets a sequence mismatch, which is fatal to the connection.
RecordsInOrder == \A e \in Ends : ~broken[e]

\* Both receivers flush an answer to a key update into a full socket: neither reads
\* what the other waits to write, for good.
BothFlushing ==
    \A e \in Ends : recvPc[e] = "transmit" /\ Len(socket[e]) = SocketRoom

\* A frame being sent gets through, however full the socket buffers are in both
\* directions, unless both receivers flush at once: a receiver never waits for its
\* own end's blocked sender, so that it goes on emptying the buffer the peer's
\* sender waits for (the comment in flush_control claims that much without the
\* exception).
SendsComplete ==
    []<>(\/ \A e \in Ends : sendPc[e] = "idle" /\ socket[e] = <<>> /\ plain[e] = 0
        \/ BothFlushing)
=============================================================================
