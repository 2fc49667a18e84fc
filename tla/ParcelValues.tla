---------------------------- MODULE ParcelValues ----------------------------
(***************************************************************************)
(* What a Parcel (rsbinder/src/parcel.rs) does with the values of an AIDL   *)
(* call: the aligned writes and bounds-checked reads under every codec of   *)
(* parcelable.rs, the sized blocks and has_more_data guards of the          *)
(* generated parcelables (rsbinder-aidl generator.rs), unions, and the      *)
(* type-erased ParcelableHolder.  A call's arguments travel from process    *)
(* to process; each process was built from its own version of the schema,   *)
(* in which parcelables and unions only ever grow at the end, and may       *)
(* differ from its peers in nullability, in an array's length, in a         *)
(* holder's stability or in the number of arguments.                        *)
(*                                                                         *)
(* Every byte is kept; a byte has DigitBase values instead of 256, so an    *)
(* i32 is four of them and i32::MAX is I32Max.  A type is a record whose k  *)
(* names the codec.  Option<T> is <<>> or <<x>>.                            *)
(***************************************************************************)
EXTENDS Integers, Sequences, SequencesExt

CONSTANTS Schemas,      \* Schemas[v][n]: the field types of n in version v
          Messages,     \* the calls: [ver, types, vals] of the first sender
          Expects(_),   \* Expects(ts): the argument lists receivers of ts expect
          DigitBase,
          MAX_NESTED_READ_DEPTH,
          MaxHops, MaxGets

VARIABLES leg,      \* "held": a process has the arguments; "wire"; "failed"
          ver,      \* the version of the process that has them
          types,    \* the argument list that process was built with
          args,     \* its values
          expected, \* the same values by the reference definition
          transit,  \* the Parcel in transit
          outcome,  \* the status of the last marshal or unmarshal
          due,      \* the status the reference says it has
          hops, gets
pvVars == <<leg, ver, types, args, expected, transit, outcome, due, hops, gets>>

-----------------------------------------------------------------------------
(* Results: Ok(v) or a StatusCode, with the parcel as the operation left it. *)

Ok(p, v) == [st |-> "ok", p |-> p, val |-> v]
Err(p, e) == [st |-> e, p |-> p, val |-> <<>>]
Then(r, Step(_)) == IF r.st = "ok" THEN Step(r) ELSE r
Map(r, F(_)) == Then(r, LAMBDA q : Ok(q.p, F(q.val)))
NonNull(r) == Then(r, LAMBDA q : IF q.val = <<>> THEN Err(q.p, "UnexpectedNull")
                                 ELSE Ok(q.p, q.val[1]))

-----------------------------------------------------------------------------
(* The buffer *)

NoBound == -1
NewParcel == [data |-> <<>>, pos |-> 0, bound |-> NoBound, depth |-> 0]

Pad(n) == ((n + 3) \div 4) * 4

I32Range == DigitBase ^ 4
I32Max == I32Range \div 2 - 1
Digits(n, k) == [i \in 1 .. k |-> (n \div DigitBase ^ (i - 1)) % DigitBase]
Number(b) ==   \* of a unit or a word
    b[1] + DigitBase * (b[2] + IF Len(b) = 2 THEN 0 ELSE DigitBase * (b[3] + DigitBase * b[4]))
Signed(n) == IF n > I32Max THEN n - I32Range ELSE n
Chunks(b, k) == [i \in 1 .. Len(b) \div k |-> SubSeq(b, k * (i - 1) + 1, k * i)]
Larger(a, b) == IF a > b THEN a ELSE b

DataSize(p) == Larger(Len(p.data), p.pos)
DataAvail(p) == Larger(Len(p.data) - p.pos, 0)
SetPos(p, pos) == [p EXCEPT !.pos = pos]

\* Bytes written at pos, over what is there; a gap that a forward seek left is
\* zeroed.
Zeros(n) == [i \in 1 .. n |-> 0]
Overwrite(data, pos, b) ==
    LET room == data \o Zeros(pos - Len(data))
    IN SubSeq(room, 1, pos) \o b \o SubSeq(room, pos + Len(b) + 1, Len(room))

WriteAt(p, b) ==
    IF p.pos + Len(b) > I32Max THEN Err(p, "BadValue")
    ELSE Ok([p EXCEPT !.data = Overwrite(@, p.pos, b), !.pos = @ + Len(b)], <<>>)

\* write_aligned_data: zeroes the pad.
WriteAligned(p, b) == WriteAt(p, b \o Zeros(Pad(Len(b)) - Len(b)))

ReadAligned(p, n) ==
    IF Pad(n) <= DataAvail(p)
    THEN Ok(SetPos(p, p.pos + Pad(n)), SubSeq(p.data, p.pos + 1, p.pos + n))
    ELSE Err(p, "NotEnoughData")

-----------------------------------------------------------------------------
(* Scalars, strings and arrays *)

WriteInt(p, n) == WriteAligned(p, Digits(n % I32Range, 4))
ReadInt(p) == Map(ReadAligned(p, 4), LAMBDA b : Signed(Number(b)))

\* A string is its UTF-16 units: the count, then the units and a NUL.
WriteStr(p, s) ==
    Then(WriteInt(p, Len(s)), LAMBDA r :
         WriteAligned(r.p, FlattenSeq([i \in 1 .. Len(s) + 1 |->
                                Digits(IF i > Len(s) THEN 0 ELSE s[i], 2)])))
ReadOptStr(p) ==
    Then(ReadInt(p), LAMBDA r :
         IF r.val = -1 THEN Ok(r.p, <<>>)
         ELSE IF r.val < 0 \/ r.val = I32Max THEN Err(r.p, "UnexpectedNull")
         ELSE Map(ReadAligned(r.p, 2 * (r.val + 1)), LAMBDA b :
                  LET units == Chunks(b, 2)
                  IN <<[i \in 1 .. r.val |-> Number(units[i])]>>))

\* write_array / read_array: the elements as one block, padded once.
WriteArray(p, b) ==
    Then(WriteInt(p, Len(b)), LAMBDA r :
         IF b = <<>> THEN r ELSE WriteAligned(r.p, b))
ReadOptArray(p) ==
    Then(ReadInt(p), LAMBDA r :
         IF r.val < -1 THEN Err(r.p, "UnexpectedNull")
         ELSE IF r.val = -1 THEN Ok(r.p, <<>>)
         ELSE IF r.val = 0 THEN Ok(r.p, <<<<>>>>)
         ELSE Map(ReadAligned(r.p, r.val), LAMBDA b : <<b>>))

\* write_array_char / read_array_char: a char is widened to an i32.
WriteChars(p, s) ==
    Then(WriteInt(p, Len(s)), LAMBDA r :
         IF r.p.pos + 4 * Len(s) > I32Max THEN Err(r.p, "BadValue")
         ELSE FoldLeft(LAMBDA acc, c : Then(acc, LAMBDA q : WriteInt(q.p, c)), r, s))
ReadOptChars(p) ==
    Then(ReadInt(p), LAMBDA r :
         IF r.val < -1 THEN Err(r.p, "UnexpectedNull")
         ELSE IF r.val = -1 THEN Ok(r.p, <<>>)
         ELSE Map(ReadAligned(r.p, 4 * r.val), LAMBDA b :
                  LET words == Chunks(b, 4)
                  IN <<[i \in 1 .. r.val |-> Number(words[i]) % DigitBase ^ 2]>>))

-----------------------------------------------------------------------------
(* Sized blocks *)

\* sized_write: the length word is written last, over the zero kept for it.
\* r is what the closure did behind that zero, which is at start.
SizedWrite(r, start) ==
    Then(r, LAMBDA q :
    Then(WriteInt(SetPos(q.p, start), q.p.pos - start), LAMBDA s :
         Ok(SetPos(s.p, q.p.pos), <<>>)))

HasMore(p) == p.pos < (IF p.bound = NoBound THEN DataSize(p) ELSE p.bound)

Enter(p, end) == [p EXCEPT !.bound = end, !.depth = @ + 1]

\* Fault model: an error return skips the bookkeeping after the closure.
LeaveOnSuccess(r, p) ==
    IF r.st = "ok" THEN [r EXCEPT !.p.bound = p.bound, !.p.depth = p.depth] ELSE r
\* Fault model: the boundary of the enclosing block is not put back.
LeaveDepth(r, p) == [r EXCEPT !.p.depth = p.depth]
\* The boundary and the depth are put back whatever the closure returned.
Leave(r, p) == [r EXCEPT !.p.bound = p.bound, !.p.depth = p.depth]

\* Fault model: the cursor stays where the closure stopped.
SkipNothing(r, end) == r
SkipRest(r, end) == Then(r, LAMBDA q : Ok(SetPos(q.p, end), q.val))

\* sized_read up to the closure, which finds the end of its block as the value.
SizedRead(p) ==
    Then(ReadInt(p), LAMBDA r :
    LET end == p.pos + r.val
    IN IF r.val < 4 THEN Err(r.p, "BadValue")
       ELSE IF end > DataSize(r.p) THEN Err(r.p, "NotEnoughData")
       ELSE IF r.p.depth >= MAX_NESTED_READ_DEPTH THEN Err(r.p, "BadValue")
       ELSE Ok(Enter(r.p, end), end))

-----------------------------------------------------------------------------
(* Composite codecs.  A side is the schema a process was built from. *)

RECURSIVE DefaultOf(_, _), WriteAs(_, _, _, _), ReadAs(_, _, _),
          WriteFrom(_, _, _, _, _), ReadFrom(_, _, _, _), ReadAll(_, _, _)

\* A ParcelableHolder: nothing, a parcelable, or the bytes not yet read.
HolderOf(form, name, val, raw) == [form |-> form, name |-> name, val |-> val, raw |-> raw]
EmptyHolder == HolderOf("empty", 0, <<>>, NewParcel)

\* Default::default() of a field's Rust type.
DefaultOf(T, side) ==
    CASE T.k = "int" -> 0
      [] T.k = "par" -> [i \in 1 .. Len(side[T.name]) |-> DefaultOf(side[T.name][i], side)]
      [] T.k = "union" -> [tag |-> 0, val |-> DefaultOf(side[T.name][1], side)]
      [] T.k = "fixed" -> [i \in 1 .. T.n |-> DefaultOf(T.of, side)]
      [] T.k = "holder" -> EmptyHolder
      [] OTHER -> <<>>

\* The values from the i-th on, up to the first that fails.
WriteFrom(r, i, ts, xs, side) ==
    IF r.st # "ok" \/ i > Len(xs) THEN r
    ELSE WriteFrom(WriteAs(r.p, ts[i], xs[i], side), i + 1, ts, xs, side)
WriteAll(p, ts, xs, side) == WriteFrom(Ok(p, <<>>), 1, ts, xs, side)

\* The fields from the i-th on, into r.val; those the block does not hold keep
\* their defaults.
ReadFrom(r, i, ts, side) ==
    IF r.st # "ok" \/ i > Len(ts) \/ ~HasMore(r.p) THEN r
    ELSE ReadFrom(Map(ReadAs(r.p, ts[i], side), LAMBDA x : [r.val EXCEPT ![i] = x]), i + 1, ts, side)

\* Values of types ts, behind the ones in r.val.
ReadAll(r, ts, side) ==
    IF r.st # "ok" \/ Len(r.val) = Len(ts) THEN r
    ELSE ReadAll(Map(ReadAs(r.p, ts[Len(r.val) + 1], side), LAMBDA x : Append(r.val, x)), ts, side)

\* write_to_parcel and read_from_parcel of a generated parcelable.
WriteFields(p, name, xs, side) ==
    SizedWrite(Then(WriteInt(p, 0), LAMBDA r : WriteAll(r.p, side[name], xs, side)), p.pos)
ReadFields(p, name, side) ==
    Then(SizedRead(p), LAMBDA b :
    SkipRest(Leave(ReadFrom(Ok(b.p, DefaultOf([k |-> "par", name |-> name], side)), 1, side[name], side),
                   p), b.val))

\* write_to_parcel and read_from_parcel of a generated union: no size, so an
\* unknown tag cannot be skipped.
WriteUnion(p, name, x, side) ==
    Then(WriteInt(p, x.tag), LAMBDA r : WriteAs(r.p, side[name][x.tag + 1], x.val, side))
ReadUnion(p, name, side) ==
    Then(ReadInt(p), LAMBDA r :
         IF r.val \notin 0 .. Len(side[name]) - 1 THEN Err(r.p, "BadValue")
         ELSE Map(ReadAs(r.p, side[name][r.val + 1], side),
                  LAMBDA x : [tag |-> r.val, val |-> x]))

\* SerializeArray / DeserializeArray for any element type.
WriteVec(p, of, xs, side) ==
    Then(WriteInt(p, Len(xs)), LAMBDA r :
         WriteAll(r.p, [i \in 1 .. Len(xs) |-> of], xs, side))
ReadOptVec(p, of, side) ==
    Then(ReadInt(p), LAMBDA r :
         IF r.val < -1 THEN Err(r.p, "UnexpectedNull")
         ELSE IF r.val = -1 THEN Ok(r.p, <<>>)
         ELSE Map(ReadAll(Ok(r.p, <<>>), [i \in 1 .. r.val |-> of], side), LAMBDA xs : <<xs>>))
\* Fault model: any length will do.
FixedLengthAny(r, n) == r

FixedLength(r, n) ==
    Then(r, LAMBDA q : IF Len(q.val) = n THEN q ELSE Err(q.p, "BadValue"))

\* The null flag in front of an optional value, and of every parcelable.
WriteFlag(p, x) == WriteInt(p, Len(x))
ReadFlag(p) ==
    Then(ReadInt(p), LAMBDA r : IF r.val \in {0, 1} THEN r ELSE Err(r.p, "UnexpectedNull"))

-----------------------------------------------------------------------------
(* ParcelableHolder *)

\* append_from (the bytes; the objects in them are ParcelObjects' subject).
Append1(p, b) == WriteAt(p, b)

WriteHolder(p, stab, h, side) ==
    Then(WriteInt(p, stab), LAMBDA r :
    CASE h.form = "empty" -> WriteInt(r.p, 0)
      [] h.form = "raw" ->
           Then(WriteInt(r.p, DataSize(h.raw)), LAMBDA q : Append1(q.p, h.raw.data))
      [] h.form = "typed" ->
           Then(WriteInt(r.p, 0), LAMBDA q :
           Then(WriteStr(q.p, <<h.name>>), LAMBDA s :
           Then(WriteFields(s.p, h.name, h.val, side), LAMBDA t :
           Then(WriteInt(SetPos(t.p, r.p.pos), t.p.pos - q.p.pos), LAMBDA u :
                Ok(SetPos(u.p, t.p.pos), <<>>))))))
ReadHolder(p, stab) ==
    Then(ReadInt(p), LAMBDA r :
    IF r.val # stab THEN Err(r.p, "BadValue")
    ELSE Then(ReadInt(r.p), LAMBDA q :
         IF q.val < 0 THEN Err(q.p, "BadValue")
         ELSE IF q.val = 0 THEN Ok(q.p, EmptyHolder)
         ELSE IF q.p.pos + q.val > Len(q.p.data) THEN Err(q.p, "BadValue")
         ELSE Ok(SetPos(q.p, q.p.pos + q.val),
                 HolderOf("raw", 0, <<>>,
                          Append1(NewParcel, SubSeq(q.p.data, q.p.pos + 1,
                                                    q.p.pos + q.val)).p))))

\* get_parcelable::<T>() of the T named name: <<the Result, the holder left>>.
GetParcelable(h, name, side) ==
    CASE h.form = "empty" -> <<Ok(NewParcel, <<>>), h>>
      [] h.form = "typed" ->
           <<IF h.name # name THEN Err(NewParcel, "BadValue")
             ELSE Ok(NewParcel, <<h.val>>), h>>
      [] h.form = "raw" ->
           LET n == NonNull(ReadOptStr(SetPos(h.raw, 0)))
               v == Then(n, LAMBDA r : ReadFields(r.p, name, side))
           IN IF n.st # "ok" THEN <<n, [h EXCEPT !.raw = n.p]>>
              ELSE IF n.val # <<name>> THEN <<Ok(n.p, <<>>), [h EXCEPT !.raw = n.p]>>
              ELSE IF v.st # "ok" THEN <<v, [h EXCEPT !.raw = v.p]>>
              ELSE <<Ok(v.p, <<v.val>>), HolderOf("typed", name, v.val, NewParcel)>>

-----------------------------------------------------------------------------
(* Every codec, by type *)

\* A nullable value: <<>> is -1 as a length or 0 as a flag.
WriteOpt(p, of, x, side) ==
    IF of.k \in {"str", "bytes", "chars", "vec"}
    THEN IF x = <<>> THEN WriteInt(p, -1) ELSE WriteAs(p, of, x[1], side)
    ELSE Then(WriteFlag(p, x), LAMBDA r :
             IF x = <<>> THEN r
             ELSE IF of.k = "par" THEN WriteFields(r.p, of.name, x[1], side)
             ELSE IF of.k = "union" THEN WriteUnion(r.p, of.name, x[1], side)
             ELSE WriteAs(r.p, of, x[1], side))
ReadOpt(p, of, side) ==
    CASE of.k = "str" -> ReadOptStr(p)
      [] of.k = "bytes" -> ReadOptArray(p)
      [] of.k = "chars" -> ReadOptChars(p)
      [] of.k = "vec" -> ReadOptVec(p, of.of, side)
      [] OTHER -> Then(ReadFlag(p), LAMBDA r :
             IF r.val = 0 THEN Ok(r.p, <<>>)
             ELSE Map(IF of.k = "par" THEN ReadFields(r.p, of.name, side)
                      ELSE IF of.k = "union" THEN ReadUnion(r.p, of.name, side)
                      ELSE ReadAs(r.p, of, side), LAMBDA x : <<x>>))

WriteAs(p, T, x, side) ==
    CASE T.k = "int" -> WriteInt(p, x)
      [] T.k = "str" -> WriteStr(p, x)
      [] T.k = "bytes" -> WriteArray(p, x)
      [] T.k = "chars" -> WriteChars(p, x)
      [] T.k \in {"vec", "fixed"} -> WriteVec(p, T.of, x, side)
      [] T.k \in {"par", "union"} -> WriteOpt(p, T, <<x>>, side)
      [] T.k = "opt" -> WriteOpt(p, T.of, x, side)
      [] T.k = "holder" ->
           Then(WriteInt(p, 1), LAMBDA r : WriteHolder(r.p, T.stab, x, side))
ReadAs(p, T, side) ==
    CASE T.k = "int" -> ReadInt(p)
      [] T.k = "fixed" -> FixedLength(NonNull(ReadOptVec(p, T.of, side)), T.n)
      [] T.k = "opt" -> ReadOpt(p, T.of, side)
      [] T.k = "holder" ->
           Then(ReadFlag(p), LAMBDA r :
                IF r.val = 0 THEN Err(r.p, "UnexpectedNull") ELSE ReadHolder(r.p, T.stab))
      [] OTHER -> NonNull(ReadOpt(p, T, side))

-----------------------------------------------------------------------------
(* What the receiver of a value is meant to get: field by field, without a     *)
(* parcel.  A holder keeps its content as its writer made it until someone   *)
(* opens it.                                                                 *)

Right(v) == [st |-> "ok", val |-> v]
Wrong(e) == [st |-> e, val |-> <<>>]
RECURSIVE Convert(_, _, _, _, _, _)

\* The values of a sequence, or the first error among them.
InOrder(rs) ==
    LET bad == SelectInSeq(rs, LAMBDA r : r.st # "ok")
    IN IF bad = 0 THEN Right([i \in 1 .. Len(rs) |-> rs[i].val]) ELSE rs[bad]

Fields(name, xs, from, to, depth) ==
    IF depth >= MAX_NESTED_READ_DEPTH THEN Wrong("BadValue")
    ELSE InOrder([i \in 1 .. Len(to[name]) |->
             IF i <= Len(xs) THEN Convert(from[name][i], to[name][i], xs[i], from, to, depth + 1)
             ELSE Right(DefaultOf(to[name][i], to))])

Convert(W, T, x, from, to, depth) ==
    LET Each(n) == InOrder([i \in 1 .. n |-> Convert(W.of, T.of, x[i], from, to, depth)])
    IN CASE W.k = "opt" /\ T.k = "opt" ->
              IF x = <<>> THEN Right(<<>>)
              ELSE LET y == Convert(W.of, T.of, x[1], from, to, depth)
                   IN IF y.st = "ok" THEN Right(<<y.val>>) ELSE y
         [] W.k # "opt" /\ T.k = "opt" ->
              LET y == Convert(W, T.of, x, from, to, depth)
              IN IF y.st = "ok" THEN Right(<<y.val>>) ELSE y
         [] W.k = "opt" /\ T.k # "opt" ->
              IF x = <<>> THEN Wrong("UnexpectedNull")
              ELSE Convert(W.of, T, x[1], from, to, depth)
         [] W.k = "par" -> Fields(W.name, x, from, to, depth)
         [] W.k = "union" ->
              IF x.tag >= Len(to[W.name]) THEN Wrong("BadValue")
              ELSE LET y == Convert(from[W.name][x.tag + 1], to[W.name][x.tag + 1],
                                    x.val, from, to, depth)
                   IN IF y.st = "ok" THEN Right([x EXCEPT !.val = y.val]) ELSE y
         [] W.k = "fixed" -> IF Len(x) = T.n THEN Each(Len(x)) ELSE Wrong("BadValue")
         [] W.k = "vec" -> Each(Len(x))
         [] W.k = "holder" -> IF W.stab = T.stab THEN Right(x) ELSE Wrong("BadValue")
         [] OTHER -> Right(x)

\* What get_parcelable is meant to find in a holder whose content h.val was
\* written by a process of version h.raw.
MeantIn(h, name, v) ==
    IF h.form = "empty" \/ h.name # name THEN Right(<<>>)
    ELSE LET y == Fields(name, h.val, Schemas[h.raw], Schemas[v], 0)
         IN IF y.st = "ok" THEN Right(<<y.val>>) ELSE y

-----------------------------------------------------------------------------
(* A call and its forwarding *)

\* A sender's holders name the version that filled them.
Stamped(T, x, v) ==
    IF T.k = "holder" /\ x.form = "typed" THEN [x EXCEPT !.raw = v] ELSE x

PvStart(m) ==
    /\ leg = "held" /\ ver = m.ver /\ types = m.types /\ args = m.vals
    /\ expected = [i \in 1 .. Len(m.vals) |-> Stamped(m.types[i], m.vals[i], m.ver)]
    /\ transit = NewParcel /\ outcome = "ok" /\ due = "ok"
    /\ hops = 0 /\ gets = 0

PvInit == \E m \in Messages : PvStart(m)

\* The proxy of this process flattens the arguments (no message is so long that a
\* position overflows).
Marshal ==
    /\ leg = "held" /\ hops < MaxHops
    /\ LET r == WriteAll(NewParcel, types, args, Schemas[ver])
       IN /\ leg' = IF r.st = "ok" THEN "wire" ELSE "failed"
          /\ transit' = SetPos(r.p, 0)
          /\ outcome' = r.st
          /\ due' = "ok"
    /\ hops' = hops + 1
    /\ UNCHANGED <<ver, types, args, expected, gets>>

MeantArgs(ts, from, to) ==
    InOrder([i \in 1 .. Len(ts) |->
        IF i > Len(expected) THEN Wrong("NotEnoughData")
        ELSE Convert(types[i], ts[i], expected[i], from, to, 0)])

\* The stub of a process of version v, expecting ts, reads them.
Unmarshal(v, ts) ==
    /\ leg = "wire"
    /\ LET r == ReadAll(Ok(transit, <<>>), ts, Schemas[v])
           y == MeantArgs(ts, Schemas[ver], Schemas[v])
       IN /\ leg' = IF r.st = "ok" THEN "held" ELSE "failed"
          /\ args' = r.val
          /\ expected' = y.val
          /\ transit' = r.p
          /\ outcome' = r.st
          /\ due' = y.st
    /\ ver' = v /\ types' = ts
    /\ UNCHANGED <<hops, gets>>

\* The process looks for a parcelable called name in the holder argument i.
Get(i, name) ==
    /\ leg = "held" /\ gets < MaxGets /\ hops > 0
    /\ i \in DOMAIN args /\ types[i].k = "holder"
    /\ LET g == GetParcelable(args[i], name, Schemas[ver])
           y == MeantIn(expected[i], name, ver)
       IN /\ args' = [args EXCEPT ![i] = g[2]]
          /\ expected' = IF y.st = "ok" /\ y.val # <<>>
                      THEN [expected EXCEPT ![i].val = y.val[1], ![i].raw = ver] ELSE expected
    /\ gets' = gets + 1
    /\ UNCHANGED <<leg, ver, types, transit, outcome, due, hops>>

\* The first type of the schema is @VintfStability, the second is not.
StabilityOf(name) == IF name = 1 THEN 1 ELSE 0

\* The process refills the holder (set_parcelable) or empties it (reset).
Refill(i, name) ==
    /\ leg = "held" /\ gets < MaxGets
    /\ i \in DOMAIN args /\ types[i].k = "holder"
    /\ LET fits == StabilityOf(name) >= types[i].stab
           x == DefaultOf([k |-> "par", name |-> name], Schemas[ver])
       IN /\ args' = IF fits THEN [args EXCEPT ![i] = HolderOf("typed", name, x, NewParcel)]
                     ELSE args
          /\ expected' = IF fits THEN [expected EXCEPT ![i] = HolderOf("typed", name, x, ver)]
                      ELSE expected
    /\ gets' = gets + 1
    /\ UNCHANGED <<leg, ver, types, transit, outcome, due, hops>>

Reset(i) ==
    /\ leg = "held" /\ gets < MaxGets
    /\ i \in DOMAIN args /\ types[i].k = "holder"
    /\ args' = [args EXCEPT ![i] = EmptyHolder]
    /\ expected' = [expected EXCEPT ![i] = EmptyHolder]
    /\ gets' = gets + 1
    /\ UNCHANGED <<leg, ver, types, transit, outcome, due, hops>>

PvNext ==
    \/ Marshal
    \/ \E v \in DOMAIN Schemas : \E ts \in Expects(types) : Unmarshal(v, ts)
    \/ \E i \in DOMAIN types : Reset(i) \/ \E name \in {1, 2} : Get(i, name) \/ Refill(i, name)

PvSpec == PvInit /\ [][PvNext]_pvVars

-----------------------------------------------------------------------------
(* Properties *)

Holders == {i \in DOMAIN args : types[i].k = "holder"}

\* The stable-AIDL contract of sized_read and has_more_data: whatever versions
\* wrote and read it, a receiver gets every field both know, its own default
\* for the fields its peer did not have, and the values behind the parcelable
\* undisturbed, through any nesting in vectors, options, unions and itself.
ReadsAsMeant ==
    leg = "held" => \A i \in DOMAIN args \ Holders : args[i] = expected[i]

\* A receiver fails exactly when the two schemas really disagree, with the
\* status of the first disagreement in reading order: a null it cannot hold, a
\* union tag or an array length it does not know, another stability, one
\* argument more than was sent, or more than MAX_NESTED_READ_DEPTH levels.  What
\* it must refuse it does not accept.
FailsForCause == outcome = due

\* A holder still finds what its first sender put in, whoever forwarded it
\* unopened, however often other names were looked up in it or a lookup
\* failed half way through the content.
HolderFound ==
    leg = "held" /\ hops > 0 =>
        \A i \in Holders, name \in {1, 2} :
            args[i].form # "typed" \/ args[i].name = name =>
                LET g == GetParcelable(args[i], name, Schemas[ver])[1]
                    y == MeantIn(expected[i], name, ver)
                IN g.st = y.st /\ (g.st = "ok" => g.val = y.val)

\* Every value a process holds is the one its first sender meant, and every
\* call that failed had to (write_to_parcel and read_from_parcel of the
\* generated types, sized_read, ParcelableHolder).
ValuesAsMeant == FailsForCause /\ ReadsAsMeant /\ HolderFound
=============================================================================
