----------------------------- MODULE RpcFraming -----------------------------
(***************************************************************************)
(* How a message crosses a transport (rsbinder/src/rpc/transport and the    *)
(* readers of wire_android13.rs): a sender that writes frames in as many    *)
(* pieces as the socket takes, and the reader of one connection.  The four  *)
(* stream readers and the in-memory channel are the values of mode:         *)
(*   frame      read_frame over Read (unix, tcp_debug, vsock, tls)          *)
(*   frame_fds  recv_frame_with_fds, the r34 wire in Unix fd mode           *)
(*   aosp       read_aosp_message, the android-13+ wire                     *)
(*   aosp_fds   read_aosp_message_with_fds, the same in Unix fd mode        *)
(*   mem        MemTransport, one channel message per frame                 *)
(*                                                                         *)
(* A byte is known by its frame and offset; HeadLen of them are the length  *)
(* prefix or RpcWireHeader, whose value is the body's length.  The socket   *)
(* follows unix(7): descriptors arrive with the first byte of the sendmsg   *)
(* that carried them, and one recvmsg may run over several sends up to the  *)
(* end of the first that carried some.                                      *)
(***************************************************************************)
EXTENDS Integers, Sequences, SequencesExt

CONSTANTS Modes,         \* the readers tried
          HeadLen,       \* bytes of the length prefix / RpcWireHeader
          MaxBody,       \* bound: the longest body
          MaxFrames,     \* bound: how many frames are sent
          RecvChunk,     \* the buffer recv_frame_with_fds reads into
          MAX_FDS_PER_FRAME,
          MaxDeadlines   \* bound: how often the read deadline elapses

VARIABLES mode,
          frames,     \* what was sent: [body, fds] each
          txOff,      \* bytes of the last frame already in the socket
          sock,       \* the bytes in flight: [f, o, first, fds] each
          closed,     \* the sender has gone
          buf,        \* bytes of the current frame(s) the reader holds
          rfds,       \* descriptors it holds, by frame
          received,   \* what recv returned: [f, fds] each
          outcome,    \* the last call's error, if it failed
          deadlines
framingVars == <<mode, frames, txOff, sock, closed, buf, rfds, received, outcome, deadlines>>

Total(f) == HeadLen + frames[f].body
CarriesFds == mode \in {"frame_fds", "aosp_fds"}
MidFrame == frames # <<>> /\ txOff < Total(Len(frames))

\* Fault model: a message cut off by the deadline is simply read again.
GoneUnlessCut == outcome \in {"PeerClosed", "Protocol"}

\* Every error but a clean timeout ends the connection (serve loop, client).
Gone == outcome \in {"PeerClosed", "Truncated", "Protocol"}

FramingStart(reader) ==
    /\ mode = reader
    /\ frames = <<>> /\ txOff = 0 /\ sock = <<>> /\ closed = FALSE
    /\ buf = <<>> /\ rfds = <<>> /\ received = <<>> /\ outcome = "none"
    /\ deadlines = 0

FramingInit == \E reader \in Modes : FramingStart(reader)

-----------------------------------------------------------------------------
(* Sending *)

\* send_frame / write_aosp_message, with descriptors the _with_fds form.
StartFrame(body, fds) ==
    /\ ~MidFrame /\ ~closed /\ Len(frames) < MaxFrames
    /\ fds > 0 => CarriesFds
    /\ fds <= MAX_FDS_PER_FRAME
    /\ frames' = Append(frames, [body |-> body, fds |-> fds])
    /\ txOff' = 0
    /\ UNCHANGED <<mode, sock, closed, buf, rfds, received, outcome, deadlines>>

\* One write or sendmsg: it takes n bytes; the first one of a frame takes the
\* descriptors along.  A channel takes the frame whole.
Piece(f, n) ==
    [i \in 1 .. n |-> [f |-> f, o |-> txOff + i - 1, first |-> i = 1,
                       fds |-> IF txOff = 0 /\ i = 1 THEN frames[f].fds ELSE 0]]

SendPiece(n) ==
    LET f == Len(frames) IN
    /\ MidFrame /\ ~closed
    /\ n \in 1 .. Total(f) - txOff
    /\ mode = "mem" => n = Total(f)
    /\ sock' = sock \o Piece(f, n)
    /\ txOff' = txOff + n
    /\ UNCHANGED <<mode, frames, closed, buf, rfds, received, outcome, deadlines>>

\* The peer closes or dies, between frames or inside one.
CloseTx ==
    /\ ~closed
    /\ closed' = TRUE
    /\ UNCHANGED <<mode, frames, txOff, sock, buf, rfds, received, outcome, deadlines>>

-----------------------------------------------------------------------------
(* The socket *)

\* Index of the last byte one recvmsg may return: the end of the first send
\* that still has its descriptors.
Barrier ==
    LET withFds == {i \in DOMAIN sock : sock[i].fds > 0}
        i0 == CHOOSE i \in withFds : \A j \in withFds : i <= j
        ends == {j \in i0 .. Len(sock) : j = Len(sock) \/ sock[j + 1].first}
    IN  IF withFds = {} THEN Len(sock) ELSE CHOOSE j \in ends : \A k \in ends : j <= k

Taken(size) == IF size < Barrier THEN size ELSE Barrier

\* Fault model: only the descriptors of the first byte are collected.
FdsOfFirst(bytes) == IF bytes = <<>> THEN <<>> ELSE [k \in 1 .. bytes[1].fds |-> bytes[1].f]

FdsOf(bytes) ==
    FlattenSeq([i \in DOMAIN bytes |-> [k \in 1 .. bytes[i].fds |-> bytes[i].f]])

-----------------------------------------------------------------------------
(* Receiving *)

\* Fault model: the raw reader asks for a whole buffer, like the r34 one.
WantGreedy == IF mode = "mem" THEN Total(sock[1].f) ELSE RecvChunk

\* The exact readers ask for the rest of the header, then of the body.
WantExact == IF Len(buf) < HeadLen THEN HeadLen - Len(buf) ELSE Total(buf[1].f) - Len(buf)

\* How many bytes the next read asks for.
Want ==
    CASE mode = "mem" -> Total(sock[1].f)
      [] mode = "frame_fds" -> RecvChunk
      [] OTHER -> WantExact

Complete == Len(buf) >= HeadLen /\ Len(buf) >= Total(buf[1].f)

\* A read of the loop; too many descriptors for one message end the connection.
Recv ==
    LET bytes == SubSeq(sock, 1, Taken(Want))
        more == rfds \o FdsOf(bytes)
    IN  /\ ~Gone /\ ~Complete /\ sock # <<>>
        /\ buf' = buf \o bytes
        /\ sock' = SubSeq(sock, Len(bytes) + 1, Len(sock))
        /\ rfds' = more
        /\ outcome' = IF Len(more) > MAX_FDS_PER_FRAME THEN "Protocol" ELSE "none"
        /\ UNCHANGED <<mode, frames, txOff, closed, received, deadlines>>

\* The frame is whole: hand it over with the descriptors read so far.
Return ==
    LET n == Total(buf[1].f) IN
    /\ ~Gone /\ Complete
    /\ received' = Append(received, [f |-> buf[1].f, fds |-> rfds,
                                     whole |-> \A i \in 1 .. n : buf[i].f = buf[1].f
                                                                 /\ buf[i].o = i - 1])
    /\ buf' = SubSeq(buf, n + 1, Len(buf))
    /\ rfds' = <<>>
    /\ UNCHANGED <<mode, frames, txOff, sock, closed, outcome, deadlines>>

\* Fault model: a call that has read nothing since the header reports cleanly.
MapBodyNone(o) == o

\* read_aosp_message: with the header consumed no failure of the body is clean.
MapBody(o) == IF Len(buf) >= HeadLen THEN "Truncated" ELSE o

\* What each reader reports when its read ends with clean ("PeerClosed" or
\* "Timeout"): read_frame (and the in-memory channel, never inside a frame) ...
ReadFrameReports(clean) == IF buf = <<>> THEN clean ELSE "Truncated"

\* ... recv_frame_with_fds, which may hold descriptors or leftover bytes ...
FrameFdsReports(clean) == IF buf = <<>> /\ rfds = <<>> THEN clean ELSE "Truncated"

\* ... read_aosp_message, two exact reads, each clean at its first byte only ...
ReadAospReports(clean) ==
    MapBody(IF Len(buf) \in {0, HeadLen} THEN clean ELSE "Truncated")

\* ... and read_aosp_message_with_fds.
AospFdsReports(clean) == IF buf = <<>> THEN clean ELSE "Truncated"

Report(clean) ==
    CASE mode \in {"frame", "mem"} -> ReadFrameReports(clean)
      [] mode = "frame_fds" -> FrameFdsReports(clean)
      [] mode = "aosp" -> ReadAospReports(clean)
      [] mode = "aosp_fds" -> AospFdsReports(clean)

Eof ==
    /\ ~Gone /\ ~Complete /\ sock = <<>> /\ closed
    /\ outcome' = Report("PeerClosed")
    /\ UNCHANGED <<mode, frames, txOff, sock, closed, buf, rfds, received, deadlines>>

\* The deadline of set_read_timeout.  What the call had read is dropped with it
\* (only recv_frame_with_fds keeps its bytes); after a clean Timeout the caller
\* may call again.
Deadline ==
    /\ ~Gone /\ ~Complete /\ sock = <<>> /\ ~closed /\ deadlines < MaxDeadlines
    /\ outcome' = Report("Timeout")
    /\ deadlines' = deadlines + 1
    /\ buf' = IF mode = "frame_fds" THEN buf ELSE <<>>
    /\ rfds' = <<>>
    /\ UNCHANGED <<mode, frames, txOff, sock, closed, received>>

FramingNext ==
    \/ \E body \in 0 .. MaxBody, fds \in 0 .. MAX_FDS_PER_FRAME : StartFrame(body, fds)
    \/ \E n \in 1 .. HeadLen + MaxBody : SendPiece(n)
    \/ CloseTx \/ Recv \/ Return \/ Eof \/ Deadline

FramingSpec == FramingInit /\ [][FramingNext]_framingVars

-----------------------------------------------------------------------------
(* Properties *)

\* Whatever pieces the bytes came in and whenever a deadline elapsed, the reader
\* returns the frames sent, each whole and in order.  In particular a call that
\* reports Timeout has consumed nothing (set_read_timeout: "the stream stays
\* frame-synchronized"), so that the next one starts on a frame boundary.
FramesInOrder ==
    /\ \A i \in DOMAIN received : received[i].f = i /\ received[i].whole
    /\ buf # <<>> => buf[1].o = 0 /\ buf[1].f = Len(received) + 1

\* A peer that dies inside a message is never recorded as a clean close, and a
\* clean close has lost nothing: every frame whose first byte went out was
\* returned.
CleanClose ==
    outcome = "PeerClosed" =>
        Len(received) = Len(frames) - (IF MidFrame /\ txOff = 0 THEN 1 ELSE 0)

\* The descriptors that came out of the socket are, in order, those of the
\* frames sent: while the connection lives none is dropped or seen twice.
FdsConserved ==
    Gone \/
    FlattenSeq([i \in DOMAIN received |-> received[i].fds]) \o rfds \o FdsOf(sock)
      = FlattenSeq([f \in DOMAIN frames |->
                      [k \in 1 .. (IF f < Len(frames) \/ txOff > 0 THEN frames[f].fds ELSE 0) |-> f]])

\* On the android-13+ wire, whose reader asks for exactly the bytes of one
\* message, a message comes with its own descriptors and no others.
RawOwnFds ==
    mode = "aosp_fds" => \A i \in DOMAIN received :
        received[i].fds = [k \in 1 .. frames[received[i].f].fds |-> received[i].f]

\* Every reader turns the bytes and descriptors of a connection back into the
\* messages sent, and says truthfully how the stream ended.
FramesKept == FramesInOrder /\ CleanClose /\ FdsConserved /\ RawOwnFds
=============================================================================
