--------------------------- MODULE ParcelObjects ---------------------------
(***************************************************************************)
(* File descriptors and binder handles inside parcels: who owns each        *)
(* descriptor and each kernel reference while parcels are written, sent,    *)
(* read in any order, partly copied into another parcel (append_from, the   *)
(* content of a ParcelableHolder) and dropped, on the kernel path           *)
(* (flat_binder_object and the offset table) and on the RPC path            *)
(* (SCM_RIGHTS descriptors and the object-position table).                  *)
(* rsbinder/src/parcel.rs, binder_object.rs, file_descriptor.rs.            *)
(*                                                                         *)
(* A parcel is a row of cells; an object covers ObjCells of them.  A         *)
(* descriptor number is reused as soon as it is closed, as in a process's   *)
(* table, so closing one twice closes somebody else's.                      *)
(***************************************************************************)
EXTENDS Integers, Sequences, SequencesExt, FiniteSets, FiniteSetsExt

CONSTANTS MaxParcels, MaxFds, MaxCells,
          ParcelKinds,  \* the kinds of parcel a program starts: "local", "rpc"
          MaxParcelOps, \* bound on writes, sends and copies
          MaxObjReads,  \* bound on reads
          DupFaults     \* how often dup or acquire may fail

VARIABLES parcels,    \* parcels[i]: the parcels alive
          openFds,    \* the descriptor table
          pfds,       \* the program's ParcelFileDescriptors, in order of creation
          handleRefs, \* kernel strong references taken by acquire
          badClose,   \* a close hit a number that was not open
          lookup,     \* the last read_object: [found, there]
          copied,     \* the last append_from: the objects in the range, those taken
          opsLeft, readsLeft, dupFaults
objVars == <<parcels, openFds, pfds, handleRefs, badClose, lookup, copied,
             opsLeft, readsLeft, dupFaults>>

ObjCells == 2
Unused == 0 .. -1

\* data: the object at a cell, if one starts there (a copy keeps the bytes of
\* objects it did not take over); table: Parcel::objects, or the position table
\* of an RPC parcel; fds: fds_out, then fds_in with 0 for a taken entry.
NewParcelOf(kind) ==
    [kind |-> kind, len |-> 0, data |-> <<>>, table |-> <<>>, hint |-> 0, fds |-> <<>>]
ParcelIds == DOMAIN parcels
FreeId == Min((1 .. MaxParcels) \ ParcelIds)
With(i, p) == [j \in ParcelIds \cup {i} |-> IF j = i THEN p ELSE parcels[j]]
Without(i) == [j \in ParcelIds \ {i} |-> parcels[j]]
Place(p, pos, o) == [c \in DOMAIN p.data \cup {pos} |-> IF c = pos THEN o ELSE p.data[c]]

CanDup == openFds # 1 .. MaxFds
FreshFd == Min((1 .. MaxFds) \ openFds)
\* The n lowest free numbers, for n descriptors installed together.
FreshFds(n) == SubSeq(SetToSortSeq((1 .. MaxFds) \ openFds, <), 1, n)

CloseAll(fs) ==
    /\ openFds' = openFds \ ToSet(fs)
    /\ badClose' = (badClose \/ ~ToSet(fs) \subseteq openFds
                             \/ Cardinality(ToSet(fs)) # Len(fs))

SpendOp == opsLeft > 0 /\ opsLeft' = opsLeft - 1
ObjFault == dupFaults > 0 /\ dupFaults' = dupFaults - 1

ObjInit ==
    /\ parcels = [i \in Unused |-> 0] /\ openFds = {} /\ pfds = <<>>
    /\ handleRefs = 0 /\ badClose = FALSE /\ lookup = [found |-> TRUE, there |-> TRUE]
    /\ copied = [due |-> {}, got |-> {}]
    /\ opsLeft = MaxParcelOps /\ readsLeft = MaxObjReads /\ dupFaults = DupFaults

-----------------------------------------------------------------------------
(* The program *)

\* A descriptor of the program's own: OwnedFd into ParcelFileDescriptor.
OpenFile ==
    /\ SpendOp /\ CanDup
    /\ openFds' = openFds \cup {FreshFd}
    /\ pfds' = Append(pfds, FreshFd)
    /\ UNCHANGED <<parcels, handleRefs, badClose, lookup, copied, readsLeft, dupFaults>>

CloseFile(i) ==
    /\ CloseAll(<<pfds[i]>>)
    /\ pfds' = RemoveAt(pfds, i)
    /\ UNCHANGED <<parcels, handleRefs, lookup, copied, opsLeft, readsLeft, dupFaults>>

StartParcel(kind) ==
    /\ SpendOp /\ Cardinality(ParcelIds) < MaxParcels
    /\ parcels' = With(FreeId, NewParcelOf(kind))
    /\ UNCHANGED <<openFds, pfds, handleRefs, badClose, lookup, copied, readsLeft, dupFaults>>

-----------------------------------------------------------------------------
(* Writing.  The null marker and hasComm words in front of a descriptor are  *)
(* one plain cell.                                                          *)

Plain(p) == [p EXCEPT !.len = @ + 1]
Room(p) == p.len + 1 + ObjCells <= MaxCells

\* write_object: the bytes, then acquire, then the offset.
PushObject(p, o) ==
    [p EXCEPT !.data = Place(p, p.len, o), !.table = Append(@, p.len),
              !.len = @ + ObjCells]
\* A failed acquire leaves the bytes without an offset.
PushBytes(p, o) == [p EXCEPT !.data = Place(p, p.len, o), !.len = @ + ObjCells]

\* RpcFields: the descriptor is kept out of band, the body holds its index, and
\* the position goes to its place in the sorted table.
RpcPush(p, f) ==
    [p EXCEPT !.data = Place(p, p.len, [t |-> "rpcfd", v |-> Len(p.fds) + 1, own |-> FALSE]),
              !.table = SortSeq(Append(@, p.len), LAMBDA a, b : a < b),
              !.len = @ + ObjCells, !.fds = Append(@, f)]

\* ParcelFileDescriptor::serialize, the kernel and the RPC arm.
WriteFd(i) ==
    /\ SpendOp
    /\ parcels[i].kind \in {"local", "rpc"} /\ Room(parcels[i]) /\ pfds # <<>>
    /\ LET p == Plain(parcels[i])
       IN \/ /\ CanDup
             /\ openFds' = openFds \cup {FreshFd}
             /\ parcels' = With(i, IF p.kind = "rpc" THEN RpcPush(p, FreshFd)
                                   ELSE PushObject(p, [t |-> "fd", v |-> FreshFd, own |-> TRUE]))
             /\ UNCHANGED dupFaults
          \/ /\ ObjFault
             /\ parcels' = With(i, IF p.kind = "rpc" THEN parcels[i] ELSE p)
             /\ UNCHANGED openFds
    /\ UNCHANGED <<pfds, handleRefs, badClose, lookup, copied, readsLeft>>

\* A proxy: the object is a handle, acquire takes a kernel strong reference.
WriteHandle(i) ==
    /\ SpendOp
    /\ parcels[i].kind = "local" /\ Room(parcels[i])
    /\ LET p == Plain(parcels[i])
           o == [t |-> "handle", v |-> 0, own |-> FALSE]
       IN \/ /\ parcels' = With(i, PushObject(p, o))
             /\ handleRefs' = handleRefs + 1
             /\ UNCHANGED dupFaults
          \/ /\ ObjFault
             /\ parcels' = With(i, PushBytes(p, o))
             /\ UNCHANGED handleRefs
    /\ UNCHANGED <<openFds, pfds, badClose, lookup, copied, readsLeft>>

-----------------------------------------------------------------------------
(* Sending.  The receiver's parcel is a new one; its descriptors are new     *)
(* numbers the kernel installed.                                            *)

InTable(p, t) == SelectSeq(p.table, LAMBDA pos : p.data[pos].t = t)

\* The driver translates the objects of the offset table (from_ipc_parts).
Transact(i) ==
    /\ SpendOp /\ Cardinality(ParcelIds) < MaxParcels
    /\ parcels[i].kind = "local"
    /\ LET p == parcels[i]
           fdAt == InTable(p, "fd")
           fs == FreshFds(Len(fdAt))
           NewFd(pos) == fs[SelectInSeq(fdAt, LAMBDA x : x = pos)]
       IN /\ Cardinality(openFds) + Len(fdAt) <= MaxFds
          /\ openFds' = openFds \cup ToSet(fs)
          /\ parcels' = With(FreeId,
                 [p EXCEPT !.kind = "ipc", !.hint = 0,
                           !.data = [pos \in DOMAIN p.data |->
                               IF pos \in ToSet(fdAt)
                               THEN [p.data[pos] EXCEPT !.v = NewFd(pos)]
                               ELSE p.data[pos]]])
    /\ UNCHANGED <<pfds, handleRefs, badClose, lookup, copied, readsLeft, dupFaults>>

\* SCM_RIGHTS: the receiver installs the table and the descriptors.
SendRpc(i) ==
    /\ SpendOp /\ Cardinality(ParcelIds) < MaxParcels
    /\ parcels[i].kind = "rpc"
    /\ LET p == parcels[i]
           fs == FreshFds(Len(p.fds))
       IN /\ Cardinality(openFds) + Len(p.fds) <= MaxFds
          /\ openFds' = openFds \cup ToSet(fs)
          /\ parcels' = With(FreeId, [p EXCEPT !.kind = "rpc_in", !.fds = fs])
    /\ UNCHANGED <<pfds, handleRefs, badClose, lookup, copied, readsLeft, dupFaults>>

-----------------------------------------------------------------------------
(* Copying a range *)

\* Fault model: the destination's own objects are scanned.
ObjectsOf(dst, src) == dst.table
ObjectsIn(dst, src) == src.table

\* The offsets between the first and the last object that lie in the range.
Taken(dst, src, off, size) ==
    LET table == ObjectsIn(dst, src)
        within == {k \in DOMAIN table : table[k] >= off /\ table[k] + ObjCells <= off + size}
    IN IF within = {} THEN <<>> ELSE SubSeq(table, Min(within), Max(within))

\* The bytes of the range, at the end of dst.
Copied(dst, src, off, size) ==
    [dst EXCEPT !.len = @ + size,
                !.data = [c \in DOMAIN dst.data \cup
                                {c \in dst.len .. dst.len + size - 1 :
                                    c - dst.len + off \in DOMAIN src.data} |->
                              IF c < dst.len THEN dst.data[c] ELSE src.data[c - dst.len + off]]]

\* Fault model: every offset is committed before its object is taken over.
CommitFirst(p, fs, ps, k) == [p EXCEPT !.table = @ \o ps]
\* The first k relocated objects are acquired, their descriptors replaced by
\* dups, and only then their offsets committed.
Commit(p, fs, ps, k) == [p EXCEPT !.table = @ \o SubSeq(ps, 1, k)]

\* The dups of the descriptors among the first k objects.
Relocate(p, fs, ps, k) ==
    LET fdAt == SelectSeq(SubSeq(ps, 1, k), LAMBDA c : p.data[c].t = "fd")
    IN [p EXCEPT !.data = [c \in DOMAIN p.data |->
            IF c \in ToSet(fdAt)
            THEN [p.data[c] EXCEPT !.v = fs[SelectInSeq(fdAt, LAMBDA x : x = c)], !.own = TRUE]
            ELSE p.data[c]]]

\* An RPC parcel has no kernel objects: out of one, or into one, only bytes go.
KernelParcel(p) == p.kind \in {"local", "ipc"}

\* append_from of size cells at off into a parcel written here, j; a fault stops
\* it after k objects.
AppendFrom(i, j, off, size) ==
    /\ SpendOp /\ i # j
    /\ parcels[j].kind \in {"local", "rpc"}
    /\ off + size <= parcels[i].len /\ parcels[j].len + size <= MaxCells
    /\ LET p == Copied(parcels[j], parcels[i], off, size)
           src == IF KernelParcel(parcels[i]) /\ KernelParcel(parcels[j])
                  THEN Taken(parcels[j], parcels[i], off, size) ELSE <<>>
           ps == [k \in 1 .. Len(src) |-> src[k] - off + parcels[j].len]
           NumOf(t, k) == Cardinality({n \in 1 .. k : p.data[ps[n]].t = t})
       IN \E k \in 0 .. Len(ps) :
              /\ IF k = Len(ps) THEN UNCHANGED dupFaults ELSE ObjFault
              /\ Cardinality(openFds) + NumOf("fd", k) <= MaxFds
              /\ LET fs == FreshFds(NumOf("fd", k))
                 IN /\ openFds' = openFds \cup ToSet(fs)
                    /\ parcels' = With(j, Commit(Relocate(p, fs, ps, k), fs, ps, k))
              /\ handleRefs' = handleRefs + NumOf("handle", k)
              /\ copied' = IF k < Len(ps) THEN copied
                           ELSE [due |-> {c - off : c \in {c \in ToSet(parcels[i].table) :
                                              /\ c >= off /\ c + ObjCells <= off + size
                                              /\ KernelParcel(parcels[i]) /\ KernelParcel(parcels[j])}},
                                 got |-> {c - parcels[j].len : c \in ToSet(ps)}]
    /\ UNCHANGED <<pfds, badClose, lookup, readsLeft>>

-----------------------------------------------------------------------------
(* Reading *)

\* read_object's search from the hint: forwards to the first offset not below
\* pos, then backwards to the last one not above it.  Positions count from 1.
FirstFrom(t, k, pos) == Min({n \in k .. Len(t) : t[n] >= pos} \cup {Len(t)})
LastTo(t, k, pos) == Max({n \in 1 .. k : t[n] <= pos} \cup {1})

\* Fault model: an offset below the hint is not looked for.
ForwardOnly(p, pos) ==
    IF p.table = <<>> THEN 0
    ELSE LET a == IF p.hint < Len(p.table) THEN FirstFrom(p.table, p.hint + 1, pos)
                  ELSE Len(p.table)
         IN IF p.table[a] = pos THEN a ELSE 0
Search(p, pos) ==
    IF p.table = <<>> THEN 0
    ELSE LET a == IF p.hint < Len(p.table) THEN FirstFrom(p.table, p.hint + 1, pos)
                  ELSE Len(p.table)
             b == LastTo(p.table, a, pos)
         IN IF p.table[a] = pos THEN a ELSE IF p.table[b] = pos THEN b ELSE 0

\* ParcelFileDescriptor::deserialize at cell pos of a kernel parcel: an object
\* of the table, of the right type, dup'd for the caller.
ReadFd(i, pos) ==
    /\ readsLeft > 0 /\ readsLeft' = readsLeft - 1
    /\ parcels[i].kind \in {"local", "ipc"} /\ pos \in DOMAIN parcels[i].data
    /\ LET p == parcels[i]
           at == Search(p, pos)
       IN /\ lookup' = [found |-> at # 0, there |-> pos \in ToSet(p.table)]
          /\ parcels' = With(i, IF at = 0 THEN p ELSE [p EXCEPT !.hint = at])
          /\ \/ /\ at # 0 /\ p.data[pos].t = "fd" /\ CanDup
                /\ openFds' = openFds \cup {FreshFd}
                /\ pfds' = Append(pfds, FreshFd)
                /\ UNCHANGED dupFaults
             \/ /\ at = 0 \/ p.data[pos].t # "fd"
                /\ UNCHANGED <<openFds, pfds, dupFaults>>
             \/ /\ at # 0 /\ p.data[pos].t = "fd" /\ ObjFault
                /\ UNCHANGED <<openFds, pfds>>
    /\ UNCHANGED <<handleRefs, badClose, copied, opsLeft>>

\* Fault model: the entry stays in the received list.
TakeCopy(p, n) == p.fds
\* take_in_fd: an entry is given out once.
TakeIn(p, n) == [p.fds EXCEPT ![n] = 0]

\* The RPC arm: the position must be in the table, the index names a received
\* descriptor not yet taken.
ReadRpcFd(i, pos) ==
    /\ readsLeft > 0 /\ readsLeft' = readsLeft - 1
    /\ parcels[i].kind = "rpc_in" /\ pos \in DOMAIN parcels[i].data
    /\ LET p == parcels[i]
           n == p.data[pos].v
       IN IF pos \notin ToSet(p.table) \/ p.fds[n] = 0 THEN UNCHANGED <<parcels, pfds>>
          ELSE /\ pfds' = Append(pfds, p.fds[n])
               /\ parcels' = With(i, [p EXCEPT !.fds = TakeIn(p, n)])
    /\ UNCHANGED <<openFds, handleRefs, badClose, lookup, copied, opsLeft, dupFaults>>

-----------------------------------------------------------------------------
(* Dropping *)

\* close_file_descriptors in free_buffer: a received descriptor is the
\* parcel's whatever the sender's cookie said.
Freed(p) == InTable(p, "fd")
\* release_objects of a parcel written here.
Released(p) == SelectSeq(InTable(p, "fd"), LAMBDA pos : p.data[pos].own)

FdsOfDrop(p) ==
    CASE p.kind = "ipc" -> [k \in DOMAIN Freed(p) |-> p.data[Freed(p)[k]].v]
      [] p.kind = "local" -> [k \in DOMAIN Released(p) |-> p.data[Released(p)[k]].v]
      [] OTHER -> SelectSeq(p.fds, LAMBDA f : f # 0)

DropParcel(i) ==
    /\ CloseAll(FdsOfDrop(parcels[i]))
    /\ handleRefs' = handleRefs -
           (IF parcels[i].kind = "local" THEN Len(InTable(parcels[i], "handle")) ELSE 0)
    /\ parcels' = Without(i)
    /\ UNCHANGED <<pfds, lookup, copied, opsLeft, readsLeft, dupFaults>>

-----------------------------------------------------------------------------
ObjNext ==
    \/ OpenFile
    \/ \E k \in DOMAIN pfds : CloseFile(k)
    \/ \E kind \in ParcelKinds : StartParcel(kind)
    \/ \E i \in ParcelIds :
        \/ WriteFd(i) \/ WriteHandle(i) \/ Transact(i) \/ SendRpc(i) \/ DropParcel(i)
        \/ \E pos \in DOMAIN parcels[i].data : ReadFd(i, pos) \/ ReadRpcFd(i, pos)
        \/ \E j \in ParcelIds, off \in 0 .. MaxCells, size \in 1 .. MaxCells :
               AppendFrom(i, j, off, size)

ObjSpec == ObjInit /\ [][ObjNext]_objVars

-----------------------------------------------------------------------------
(* Properties *)

OwnedBy(p) ==
    IF p.kind = "local" THEN [k \in DOMAIN Released(p) |-> p.data[Released(p)[k]].v]
    ELSE IF p.kind = "ipc"
         THEN [k \in DOMAIN InTable(p, "fd") |-> p.data[InTable(p, "fd")[k]].v]
    ELSE SelectSeq(p.fds, LAMBDA f : f # 0)
Owned == pfds \o FlattenSeq([i \in 1 .. MaxParcels |->
             IF i \in ParcelIds THEN OwnedBy(parcels[i]) ELSE <<>>])

\* Every open descriptor has exactly one owner and every owner's descriptor is
\* open, so none is closed twice or leaked: through sends, partial copies that
\* fail half way, reads in any order and drops in any order.
OneOwnerPerFd ==
    /\ ~badClose
    /\ ToSet(Owned) = openFds
    /\ Len(Owned) = Cardinality(openFds)

\* The kernel references acquire took are the handle objects that release will
\* give back: an object whose acquire failed is in no offset table.
HandleRefsExact ==
    handleRefs = FoldSet(LAMBDA i, n : n + Len(InTable(parcels[i], "handle")), 0,
                         {i \in ParcelIds : parcels[i].kind = "local"})

\* read_object accepts exactly the offsets of the table, whatever the order of
\* the reads and wherever the previous one left the hint.
SearchFinds == lookup.found = lookup.there

\* A range copied between kernel parcels brings every object that lies in it and no
\* other: what a ParcelableHolder forwards still has its descriptors and binders.
\* One copied out of an RPC parcel or into one brings none: a holder that came
\* over an RPC session has lost them (SearchFinds: their bytes are no objects).
RangeTaken == copied.got = copied.due

\* A Parcel owns what its table names, no more and no less (write_object,
\* append_from, read_object and release_objects of parcel.rs).
ObjectsOwned == OneOwnerPerFd /\ HandleRefsExact /\ SearchFinds /\ RangeTaken
=============================================================================
