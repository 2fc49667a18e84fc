------------------------------ MODULE RpcCodec ------------------------------
(***************************************************************************)
(* The RPC wire codecs: R34Codec (rsbinder/src/rpc/wire.rs) and the         *)
(* versioned Android13PlusCodec (rsbinder/src/rpc/wire_android13.rs), as    *)
(* functions between messages and byte sequences, driven by a sender that   *)
(* encodes one message and a receiver that decodes what arrives.            *)
(*                                                                         *)
(* Every length and offset is the code's.  Only the byte is smaller: it     *)
(* has ByteBase values instead of 256, so that a u32 overflows within       *)
(* reach (and a session id is 8 bytes, what a u16 can then count).  Fields  *)
(* nobody reads (reserved words) are encoded as zeros.                      *)
(***************************************************************************)
EXTENDS Integers, Sequences, SequencesExt

CONSTANTS ByteBase,      \* how many values a byte has
          MAX_FRAME_LEN, \* transport::MAX_FRAME_LEN
          Experimental,  \* RPC_WIRE_PROTOCOL_VERSION_EXPERIMENTAL
          Counters,      \* the address counters the sender may have reached
          Positions,     \* the object tables a parcel may carry
          DataLens       \* the parcel sizes tried

R34 == -1
Codecs == {R34, 0, 1, 2, Experimental}
U32 == ByteBase ^ 4

\* Little-endian encoding of v in n bytes (v as uN), and its inverse.
LE(v, n) == [i \in 1 .. n |-> (v \div ByteBase ^ (i - 1)) % ByteBase]
Rd(s, off, n) == FoldRight(LAMBDA d, acc : d + ByteBase * acc, SubSeq(s, off + 1, off + n), 0)
Zeros(n) == [i \in 1 .. n |-> 0]

Failed == [kind |-> "error"]

-----------------------------------------------------------------------------
(* Addresses: counter @0..8, role tag @8, zeros to 32 bytes *)

RpcAddr == {<<0, 0>>} \cup (Counters \X {1, 2})  \* <<counter, tag>>; <<0, 0>> is zero()

\* Fault model: the projection forgets which side minted the address.
OptionsRoleless(a) == 1

Options(a) == IF a[2] = 2 THEN 3 ELSE 1   \* ADDR_OPTION_CREATED | ADDR_OPTION_FOR_SERVER

\* The 8-byte RpcWireAddress: options, then the low 32 bits of the counter.
EncodeAddr(a) ==
    IF a = <<0, 0>> THEN Zeros(8) ELSE LE(Options(a), 4) \o LE(a[1], 4)

DecodeAddr(s, off) ==
    LET options == Rd(s, off, 4)
        address == Rd(s, off + 4, 4)
    IN  IF options % 2 = 0 /\ address = 0 THEN <<0, 0>>
        ELSE <<address, IF (options \div 2) % 2 = 1 THEN 2 ELSE 1>>

AsWireBytes(a) == LE(a[1], 8) \o LE(a[2], 1) \o Zeros(23)
FromWireBytes(s, off) == <<Rd(s, off, 8), s[off + 9]>>

-----------------------------------------------------------------------------
(* What depends on the version *)

IsSupported(v) == v \in 0 .. 2 \/ v = Experimental
HasObjectTable(v) == v >= 1
ReplyFixedLen(v) == IF v = 0 THEN 4 ELSE 20

\* Fault model: the size check is left to the peer.
HeaderUnbounded(command, n) == LE(command, 4) \o LE(n, 4) \o Zeros(8)

\* A refused body has no header; the callers see the empty sequence.
Header(command, n) ==
    IF n > MAX_FRAME_LEN THEN <<>> ELSE LE(command, 4) \o LE(n, 4) \o Zeros(8)

Table(ps) == FlattenSeq([i \in 1 .. Len(ps) |-> LE(ps[i], 4)])

\* `parcelDataSize as u32`, then reserved[3]; v0 reserves the word.
ParcelSize(v, d) == (IF v = 0 THEN Zeros(4) ELSE LE(Len(d), 4)) \o Zeros(12)

\* Fault model: v0 is split like the versions that have a table.
SplitLenient(v, rest, size) ==
    IF size > Len(rest) THEN Failed
    ELSE [kind |-> "split", data |-> SubSeq(rest, 1, size),
          positions |-> [i \in 1 .. ((Len(rest) - size) \div 4) |-> Rd(rest, size + 4 * (i - 1), 4)]]

SplitDataAndTable(v, rest, size) ==
    IF ~HasObjectTable(v) THEN [kind |-> "split", data |-> rest, positions |-> <<>>]
    ELSE IF size > Len(rest) \/ (Len(rest) - size) % 4 # 0 THEN Failed
    ELSE [kind |-> "split", data |-> SubSeq(rest, 1, size),
          positions |-> [i \in 1 .. ((Len(rest) - size) \div 4) |-> Rd(rest, size + 4 * (i - 1), 4)]]

-----------------------------------------------------------------------------
(* Encoders: a sequence of bytes, or <<>> for an error *)

Framed(command, body) ==
    LET h == Header(command, Len(body)) IN IF h = <<>> THEN <<>> ELSE h \o body

\* Fault model: a version without a table drops the positions silently.
MayCarryAny(v, ps) == TRUE

MayCarry(v, ps) == ps = <<>> \/ HasObjectTable(v)

EncodeTransactR34(m) ==
    Framed(0, AsWireBytes(m.address) \o LE(m.code, 4) \o LE(m.flags, 4) \o LE(m.async, 8)
                \o Zeros(16) \o m.data)

EncodeTransactA13(v, m) ==
    Framed(0, EncodeAddr(m.address) \o LE(m.code, 4) \o LE(m.flags, 4) \o LE(m.async, 8)
                \o ParcelSize(v, m.data) \o m.data
                \o (IF HasObjectTable(v) THEN Table(m.positions) ELSE <<>>))

EncodeReplyA13(v, m) ==
    Framed(1, LE(m.status, 4) \o (IF v = 0 THEN <<>> ELSE ParcelSize(v, m.data)) \o m.data
                \o (IF HasObjectTable(v) THEN Table(m.positions) ELSE <<>>))

EncodeReplyR34(m) == Framed(1, LE(m.status, 4) \o m.data)

EncodeDecStrong(v, m) ==
    IF v = R34 THEN Framed(2, AsWireBytes(m.address))
    ELSE Framed(2, EncodeAddr(m.address) \o LE(1, 4) \o Zeros(4))

\* Fault model: the size of the id wraps.
IdFitsAny(id) == TRUE

\* sessionIdSize is a u16.
IdFits(id) == Len(id) < ByteBase ^ 2

\* RpcConnectionHeader and the session id; v0 has no fd mode byte.
EncodeConnHeader(v, m) ==
    IF ~IdFits(m.id) THEN <<>>
    ELSE LE(v, 4) \o LE(m.incoming, 1) \o LE(IF v = 0 THEN 0 ELSE m.fdMode, 1) \o Zeros(8)
           \o LE(Len(m.id), 2) \o m.id

Encode(v, m) ==
    CASE m.kind = "transact" -> IF ~MayCarry(v, m.positions) THEN <<>>
                                ELSE IF v = R34 THEN EncodeTransactR34(m) ELSE EncodeTransactA13(v, m)
      [] m.kind = "reply" -> IF ~MayCarry(v, m.positions) THEN <<>>
                             ELSE IF v = R34 THEN EncodeReplyR34(m) ELSE EncodeReplyA13(v, m)
      [] m.kind = "dec_strong" -> EncodeDecStrong(v, m)
      [] m.kind = "header" -> EncodeConnHeader(v, m)

-----------------------------------------------------------------------------
(* Decoders *)

\* Fault model: a frame longer than its bodySize is accepted.
LengthAtLeast(f) == Len(f) >= 16 + Rd(f, 4, 4)

\* bodySize is authoritative: no trailing slop, no short body.
LengthExact(f) == Len(f) = 16 + Rd(f, 4, 4)

DecodeTransact(v, b) ==
    LET fixed == IF v = R34 THEN 64 ELSE 40
        adr == IF v = R34 THEN 32 ELSE 8
        split == IF v = R34
                 THEN [kind |-> "split", data |-> SubSeq(b, 65, Len(b)), positions |-> <<>>]
                 ELSE SplitDataAndTable(v, SubSeq(b, 41, Len(b)), Rd(b, 24, 4))
    IN  IF Len(b) < fixed \/ split.kind = "error" THEN Failed
        ELSE [kind |-> "transact",
              address |-> IF v = R34 THEN FromWireBytes(b, 0) ELSE DecodeAddr(b, 0),
              code |-> Rd(b, adr, 4), flags |-> Rd(b, adr + 4, 4), async |-> Rd(b, adr + 8, 8),
              data |-> split.data, positions |-> split.positions]

DecodeReply(v, b) ==
    LET fixed == IF v = R34 THEN 4 ELSE ReplyFixedLen(v)
        split == IF v = R34
                 THEN [kind |-> "split", data |-> SubSeq(b, 5, Len(b)), positions |-> <<>>]
                 ELSE SplitDataAndTable(v, SubSeq(b, fixed + 1, Len(b)),
                                        IF HasObjectTable(v) THEN Rd(b, 4, 4) ELSE 0)
    IN  IF Len(b) < fixed \/ split.kind = "error" THEN Failed
        ELSE [kind |-> "reply", status |-> Rd(b, 0, 4), data |-> split.data,
              positions |-> split.positions]

DecodeDecStrong(v, b) ==
    IF Len(b) # (IF v = R34 THEN 32 ELSE 16) THEN Failed
    ELSE [kind |-> "dec_strong",
          address |-> IF v = R34 THEN FromWireBytes(b, 0) ELSE DecodeAddr(b, 0),
          amount |-> IF v = R34 THEN 1 ELSE Rd(b, 8, 4)]

DecodeMessage(v, f) ==
    IF Len(f) < 16 THEN Failed
    ELSE IF Rd(f, 4, 4) > MAX_FRAME_LEN \/ ~LengthExact(f) THEN Failed
    ELSE LET b == SubSeq(f, 17, Len(f))
         IN  CASE Rd(f, 0, 4) = 0 -> DecodeTransact(v, b)
               [] Rd(f, 0, 4) = 1 -> DecodeReply(v, b)
               [] Rd(f, 0, 4) = 2 -> DecodeDecStrong(v, b)
               [] OTHER -> Failed

\* Strict too: the id is exactly as long as the header says.
DecodeConnHeader(f) ==
    IF Len(f) < 16 THEN Failed
    ELSE IF Len(f) # 16 + Rd(f, 14, 2) \/ (Rd(f, 0, 4) # 0 /\ f[6] \notin 0 .. 2) THEN Failed
    ELSE [kind |-> "header", version |-> Rd(f, 0, 4), incoming |-> f[5],
          fdMode |-> IF Rd(f, 0, 4) = 0 THEN 0 ELSE f[6], id |-> SubSeq(f, 17, Len(f))]

Decode(v, kind, f) == IF kind = "header" THEN DecodeConnHeader(f) ELSE DecodeMessage(v, f)

-----------------------------------------------------------------------------
(* One message from encoder to decoder *)

Parcel(n) == [i \in 1 .. n |-> i % ByteBase]

WireMessages ==
    [kind : {"transact"}, address : RpcAddr, code : {0, U32 - 1}, flags : {1},
     async : {0, U32 + 1}, data : {Parcel(n) : n \in DataLens}, positions : Positions]
    \cup [kind : {"reply"}, status : {0, U32 - 1}, data : {Parcel(n) : n \in DataLens},
          positions : Positions]
    \cup [kind : {"dec_strong"}, address : RpcAddr]
    \cup [kind : {"header"}, incoming : {0, 1}, fdMode : 0 .. 2, id : {<<>>, Parcel(8), Parcel(9)}]

\* How a stream can hand the receiver something other than one frame: cut
\* short, or running into the next message.
Slips == {-17, -4, -1, 0, 1, 4}

VARIABLES codec,   \* the negotiated version, both ends
          sent,    \* the message given to the encoder
          frame,   \* what the encoder returned
          slip,    \* by how many bytes the delivered frame is off
          got      \* what the decoder returned
codecVars == <<codec, sent, frame, slip, got>>

Idle == [kind |-> "idle"]

CodecStart(version) ==
    /\ codec = version /\ sent = Idle /\ frame = <<>> /\ slip = 0 /\ got = Idle

CodecInit == \E version \in Codecs : CodecStart(version)

Send(m) ==
    /\ sent = Idle
    /\ m.kind = "header" => codec # R34
    /\ sent' = m
    /\ frame' = Encode(codec, m)
    /\ UNCHANGED <<codec, slip, got>>

Delivered(k) ==
    IF k <= 0 THEN SubSeq(frame, 1, Len(frame) + k) ELSE frame \o Zeros(k)

Deliver(k) ==
    /\ sent # Idle /\ got = Idle /\ frame # <<>> /\ Len(frame) + k >= 0
    /\ slip' = k
    /\ got' = Decode(codec, sent.kind, Delivered(k))
    /\ UNCHANGED <<codec, sent, frame>>

CodecNext ==
    \/ \E m \in WireMessages : Send(m)
    \/ \E k \in Slips : Deliver(k)

CodecSpec == CodecInit /\ [][CodecNext]_codecVars

-----------------------------------------------------------------------------
(* Properties *)

\* What the receiver should hold: the message, with what the wire does not
\* carry filled in.  An android-13+ address is the low 32 bits of the counter.
Expected(v, m) ==
    LET adr == IF v = R34 \/ m.address[2] = 0 THEN m.address ELSE <<m.address[1] % U32, m.address[2]>>
    IN  CASE m.kind = "transact" -> [m EXCEPT !.address = adr]
          [] m.kind = "reply" -> m
          [] m.kind = "dec_strong" -> [kind |-> "dec_strong", address |-> adr, amount |-> 1]
          [] m.kind = "header" -> [kind |-> "header", version |-> v, incoming |-> m.incoming,
                                   fdMode |-> IF v = 0 THEN 0 ELSE m.fdMode, id |-> m.id]

\* decode_message (decode_connection_header) inverts the encoder of the same
\* version: every field, the parcel and the object table come back, whatever
\* the sizes; in particular the data is never mistaken for table or the reverse.
RoundTrip ==
    got # Idle /\ slip = 0 => got = Expected(codec, sent)

\* A frame that is not exactly one encoded message is refused, never decoded
\* into another one: cut anywhere or running into the next message's bytes.
StrictLength ==
    got # Idle /\ slip # 0 => got = Failed

\* The encoder refuses a message exactly when it has a reason the peer would
\* share: a body over MAX_FRAME_LEN, object positions on a wire without an
\* object table, or a session id longer than its size field can say.  Nothing the
\* encoder emits is refused by the decoder.
EncoderRefuses ==
    /\ sent.kind = "header" => ((frame = <<>>) <=> Len(sent.id) >= ByteBase ^ 2)
    /\ sent.kind \in {"transact", "reply"} =>
        LET fixed == CASE sent.kind = "transact" -> IF codec = R34 THEN 64 ELSE 40
                       [] OTHER -> IF codec <= 0 THEN 4 ELSE 20
            size == fixed + Len(sent.data) + 4 * Len(sent.positions)
        IN  (frame = <<>>) <=> \/ size > MAX_FRAME_LEN
                               \/ codec < 1 /\ sent.positions # <<>>

\* Two objects of one session never share an android-13+ wire address: not two
\* of one side, not one of each side, not an object and the special address
\* zero, as long as the counter fits the 32 bits the wire has.
AddressesDistinct ==
    sent # Idle /\ sent.kind \in {"transact", "dec_strong"} =>
        \A a \in RpcAddr :
            /\ a[1] < U32 /\ sent.address[1] < U32
            /\ EncodeAddr(a) = EncodeAddr(sent.address)
            => a = sent.address

\* Encoder and decoder of every version agree on every message.
CodecsAgree == RoundTrip /\ StrictLength /\ EncoderRefuses /\ AddressesDistinct
=============================================================================
