----------------------------- MODULE AidlStubs -----------------------------
(***************************************************************************)
(* The code the AIDL compiler generates for an interface: the checks it makes *)
(* first (validate_transaction_codes, validate_oneway_methods, the direction  *)
(* and array rules of type_generator.rs), and a call through the proxy        *)
(* (build_parcel, submit_transact, read_response) and on_transact of the      *)
(* service (rsbinder-aidl/src/generator.rs), with the permission check of     *)
(* rsbinder/src/permission_controller.rs.                                    *)
(*                                                                         *)
(* The client may be built from a newer interface than the service, with      *)
(* methods appended.  A parcel is a sequence of numbers: a plain value takes   *)
(* one, an array its length (-1 for null) and its elements, 0 is a null        *)
(* element and Fresh a default value.  The parcel codec itself is in           *)
(* ParcelValues; the transport in KernelCalls and the RPC modules.             *)
(***************************************************************************)
EXTENDS Integers, Sequences, SequencesExt, FiniteSets

CONSTANTS Setups,           \* [iface, caller]: an interface and who calls it
          MaxUserCode,      \* K_MAX_USER_SET_METHOD_ID
          MaxPlaced,        \* how many methods an older service may lack
          MaxStubCalls      \* how many calls are made

\* An interface is [oneway, version, methods].  A method is [id, oneway, code,
\* ret, perm, args] with code NoCode unless written, ret TRUE when it returns a
\* value and perm [op, ps]; an argument is [dir, k, elem, nullable] with k
\* "plain" or "arr" (a variable array), elem "prim", "parc", "iface", "binder"
\* or "fd".

NoCode == -1
Fresh == 9
VersionCode == MaxUserCode + 2    \* FIRST_CALL_TRANSACTION + 16777214
Version == 7

VARIABLES cli, srv,     \* the interfaces of the client and the service
          at,           \* where the call is
          call,         \* [m, args]: the method called and the caller's values
          parcel,       \* the parcel under way, request or reply
          ran,          \* what the service ran: [id, seen, after, ret, err]
          result,       \* what the caller got: [kind, ret, args]
          cached,       \* cached_version of the proxy
          caller,       \* [rpc, holds, grants]: the transport, the caller's permissions
                        \* and what an authority, once installed, grants it
          authority,    \* the permissions an installed authority grants, or "none"
          stubCalls
stubVars == <<cli, srv, at, call, parcel, ran, result, cached, caller, authority, stubCalls>>

-----------------------------------------------------------------------------
(* What the compiler accepts *)

IsOut(a) == a.dir \in {"out", "inout"}
Oneway(i, m) == i.oneway \/ m.oneway

\* validate_oneway_methods.
OnewayOk(i) ==
    \A j \in DOMAIN i.methods :
       LET m == i.methods[j]
       IN Oneway(i, m) => ~m.ret /\ \A k \in DOMAIN m.args : ~IsOut(m.args[k])

\* Fault model: the codes of the generated methods are not reserved.
CodeInRangeWide(c) == c >= 0

\* An explicit code is non-negative and leaves the generated methods theirs.
CodeInRange(c) == c >= 0 /\ c <= MaxUserCode

\* validate_transaction_codes: all or nothing, in range, unique.
CodesOk(i) ==
    LET explicit == {j \in DOMAIN i.methods : i.methods[j].code # NoCode}
    IN explicit = {} \/ /\ explicit = DOMAIN i.methods
                        /\ \A j \in explicit : CodeInRange(i.methods[j].code)
                        /\ \A j, k \in explicit : i.methods[j].code = i.methods[k].code => j = k

\* direction_at: no out or inout primitive.
DirectionsOk(i) ==
    \A j \in DOMAIN i.methods : \A k \in DOMAIN i.methods[j].args :
       LET a == i.methods[j].args[k] IN IsOut(a) /\ a.k = "plain" => a.elem # "prim"

\* can_be_defaulted, and whether the elements of an array are optional: in the
\* variable on_transact declares (list_type_decl), and in the parameter of the
\* trait (func_list_type_decl).
CanBeDefaulted(elem) == elem \in {"prim", "parc"}
ListOptional(a) ==
    CASE a.dir = "out" -> a.nullable \/ ~CanBeDefaulted(a.elem)
      [] a.dir = "inout" -> a.nullable \/ ~(CanBeDefaulted(a.elem) \/ a.elem = "iface")
      [] OTHER -> a.nullable /\ a.elem # "prim"
FuncOptional(a) ==
    CASE a.dir = "out" -> a.nullable \/ ~CanBeDefaulted(a.elem)
      [] a.dir = "inout" -> a.nullable /\ ~CanBeDefaulted(a.elem)
      [] OTHER -> a.nullable /\ a.elem # "prim"

\* The Rust compiler accepts the stub only when the two agree.
StubCompiles(i) ==
    \A j \in DOMAIN i.methods : \A k \in DOMAIN i.methods[j].args :
       LET a == i.methods[j].args[k] IN a.k = "arr" => ListOptional(a) = FuncOptional(a)

Accepted(i) == OnewayOk(i) /\ CodesOk(i) /\ DirectionsOk(i)

\* The transactions module: explicit codes as written, the others by position.
CodeOf(i, j) == IF i.methods[j].code = NoCode THEN j - 1 ELSE i.methods[j].code

-----------------------------------------------------------------------------
(* Values *)

IsArr(a) == a.k = "arr"
Elems(a) == IF ListOptional(a) THEN {0, 1} ELSE {1}

\* What a caller passes, or a service leaves, in an argument.
Values(a) ==
    IF ~IsArr(a) THEN {<<1>>} \cup IF a.nullable THEN {<<0>>} ELSE {}
    ELSE {<<0>>} \cup {<<2, x, 1>> : x \in Elems(a)}
         \cup IF a.nullable THEN {<<-1>>} ELSE {}

\* What an out argument starts as, for a given length on the wire.
FreshElem(a) == IF ListOptional(a) THEN 0 ELSE Fresh
Sized(a, n) == IF n < 0 THEN <<-1>> ELSE <<n>> \o [i \in 1 .. n |-> FreshElem(a)]

\* The sequences with one member of each set.
OneOfEach(sets) == {f \in [DOMAIN sets -> UNION Range(sets)] : \A k \in DOMAIN sets : f[k] \in sets[k]}

Fails == [ok |-> FALSE, v |-> <<>>, rest |-> <<>>]

\* Parcel::read of a value of an argument's type.
ReadValue(a, cells) ==
    LET n == IF ~IsArr(a) \/ cells[1] < 0 THEN 1 ELSE cells[1] + 1
    IN IF cells = <<>> THEN Fails
       ELSE IF Len(cells) < n THEN Fails
       ELSE IF IsArr(a) /\ cells[1] < 0 /\ ~a.nullable THEN Fails
       ELSE [ok |-> TRUE, v |-> SubSeq(cells, 1, n), rest |-> SubSeq(cells, n + 1, Len(cells))]

-----------------------------------------------------------------------------
(* The proxy *)

\* Fault model: the length of an out array is not sent.
WriteArgSizeless(a, v) == IF a.dir # "out" THEN v ELSE <<>>

\* make_fn_member: what build_parcel writes for an argument.
WriteArg(a, v) == IF a.dir # "out" THEN v ELSE IF IsArr(a) THEN <<v[1]>> ELSE <<>>

\* The service may be built from an interface without the last n methods.
StubStart(s, n) ==
    /\ cli = s.iface /\ caller = s.caller
    /\ n <= Len(cli.methods) /\ srv = [cli EXCEPT !.methods = SubSeq(@, 1, Len(@) - n)]
    /\ at = "compile"
    /\ call = <<>> /\ parcel = <<>> /\ ran = <<>> /\ result = <<>>
    /\ cached = -1 /\ stubCalls = 0
    /\ authority = {"none"}

StubInit == \E s \in Setups, n \in 0 .. MaxPlaced : StubStart(s, n)

Compile ==
    /\ at = "compile"
    /\ at' = IF Accepted(cli) /\ StubCompiles(cli) THEN "ready" ELSE "refused"
    /\ UNCHANGED <<cli, srv, call, parcel, ran, result, cached, caller, authority, stubCalls>>

\* A method of the interface is called: build_parcel and submit_transact.
CallMethod(j) ==
    LET m == cli.methods[j]
    IN /\ at = "ready" /\ stubCalls < MaxStubCalls
       /\ \E args \in OneOfEach([k \in DOMAIN m.args |-> Values(m.args[k])]) :
             /\ call' = [m |-> j, args |-> args]
             /\ parcel' = FlattenSeq([k \in DOMAIN m.args |-> WriteArg(m.args[k], args[k])])
       /\ at' = "sent" /\ stubCalls' = stubCalls + 1 /\ ran' = <<>> /\ result' = <<>>
       /\ UNCHANGED <<cli, srv, cached, caller, authority>>

\* getInterfaceVersion: from the cache, or a call of its own.
CallVersion ==
    /\ at = "ready" /\ stubCalls < MaxStubCalls /\ cli.version
    /\ stubCalls' = stubCalls + 1 /\ ran' = <<>>
    /\ call' = [m |-> 0, args |-> <<>>]
    /\ parcel' = <<>>
    /\ IF cached # -1 THEN at' = "ready" /\ result' = [kind |-> "ok", ret |-> cached, args |-> <<>>]
       ELSE at' = "sent" /\ result' = <<>>
    /\ UNCHANGED <<cli, srv, cached, caller, authority>>

-----------------------------------------------------------------------------
(* The service *)

\* check_permission: an installed authority decides for every transport; without
\* one RPC is denied and the permission service asked.
CheckPermission(p) ==
    IF authority # {"none"} THEN p \in authority
    ELSE ~caller.rpc /\ p \in caller.holds

\* Fault model: the permissions of allOf are joined like those of anyOf.
PermittedAny(perm) == perm.op = "none" \/ \E p \in perm.ps : CheckPermission(p)

\* render_enforce_permission_check.
Permitted(perm) ==
    CASE perm.op = "none" -> TRUE
      [] perm.op = "anyOf" -> \E p \in perm.ps : CheckPermission(p)
      [] OTHER -> \A p \in perm.ps : CheckPermission(p)

\* transaction_decl with resize_out_vec: one argument of the arm.
ReadArg(a, cells) ==
    IF a.dir # "out" THEN ReadValue(a, cells)
    ELSE IF ~IsArr(a) THEN [ok |-> TRUE, v |-> <<IF a.nullable THEN 0 ELSE Fresh>>, rest |-> cells]
    ELSE IF cells = <<>> THEN Fails
    ELSE IF cells[1] < 0 /\ ~a.nullable THEN Fails
    ELSE [ok |-> TRUE, v |-> Sized(a, cells[1]), rest |-> Tail(cells)]

\* The arguments of a method in turn.
ReadArgs(args, cells) ==
    FoldLeft(LAMBDA acc, a : IF ~acc.ok THEN acc
                             ELSE LET r == ReadArg(a, acc.rest)
                                  IN [ok |-> r.ok, v |-> Append(acc.v, r.v), rest |-> r.rest],
             [ok |-> TRUE, v |-> <<>>, rest |-> cells], args)

\* Fault model: an unset element is written like any other.
NeedsNullGuardNever(a) == FALSE

\* out_array_needs_null_guard.
NeedsNullGuard(a) == a.dir = "out" /\ IsArr(a) /\ ~a.nullable /\ a.elem = "fd"
HasUnset(a, v) == IsArr(a) /\ \E i \in 2 .. Len(v) : v[i] = 0

\* The reply of a method that returned Ok: status, value, then the out arguments.
Reply(m, after, ret) ==
    <<0>> \o (IF m.ret THEN <<ret>> ELSE <<>>)
    \o FlattenSeq([k \in DOMAIN m.args |-> IF IsOut(m.args[k]) THEN after[k] ELSE <<>>])

\* A transaction fails with a status code, or carries a reply.
Replies(cells) == at' = "replied" /\ parcel' = cells
FailsWith(status) == at' = status /\ parcel' = <<>>

\* The arm of a method: permission, arguments, the method itself, the reply.
RunArm(m, oneway) ==
    LET in == ReadArgs(m.args, parcel)
    IN IF ~Permitted(m.perm) THEN Replies(<<5>>) /\ UNCHANGED ran
       ELSE IF ~in.ok THEN FailsWith("malformed") /\ UNCHANGED ran
       ELSE \/ /\ \E after \in OneOfEach([k \in DOMAIN m.args |->
                                            IF IsOut(m.args[k]) THEN Values(m.args[k]) \cup {in.v[k]} ELSE {in.v[k]}]),
                     ret \in {1, 2} :
                    /\ ran' = [id |-> m.id, seen |-> in.v, after |-> after, ret |-> ret, err |-> FALSE]
                    /\ IF \E k \in DOMAIN m.args : ~oneway /\ NeedsNullGuard(m.args[k]) /\ HasUnset(m.args[k], after[k])
                       THEN FailsWith("unset")
                       ELSE Replies(IF oneway THEN <<>> ELSE Reply(m, after, ret))
            \/ /\ ran' = [id |-> m.id, seen |-> in.v, after |-> in.v, ret |-> 0, err |-> TRUE]
               /\ Replies(IF oneway THEN <<>> ELSE <<8>>)

\* on_transact: the first arm whose code matches.
OnTransact ==
    LET code == IF call.m = 0 THEN VersionCode ELSE CodeOf(cli, call.m)
        arms == {j \in DOMAIN srv.methods : CodeOf(srv, j) = code}
        first == CHOOSE j \in arms : \A k \in arms : j <= k
    IN /\ at = "sent"
       /\ IF arms # {} THEN RunArm(srv.methods[first], Oneway(srv, srv.methods[first]))
          ELSE IF srv.version /\ code = VersionCode
          THEN /\ ran' = [id |-> "version", seen |-> <<>>, after |-> <<>>, ret |-> Version, err |-> FALSE]
               /\ Replies(<<0, Version>>)
          ELSE FailsWith("unknown") /\ UNCHANGED ran
       /\ UNCHANGED <<cli, srv, call, result, cached, caller, authority, stubCalls>>

-----------------------------------------------------------------------------
(* The reply at the proxy *)

\* The out and inout arguments are read onto the caller's variables.
ReadOnto(args, cells, old) ==
    FoldLeft(LAMBDA acc, k : IF ~acc.ok THEN acc
                             ELSE IF ~IsOut(args[k]) THEN [acc EXCEPT !.v = Append(@, old[k])]
                             ELSE LET r == ReadValue(args[k], acc.rest)
                                  IN [ok |-> r.ok, v |-> Append(acc.v, r.v), rest |-> r.rest],
             [ok |-> TRUE, v |-> <<>>, rest |-> cells], [k \in DOMAIN args |-> k])

Returns(kind, ret, args) == result' = [kind |-> kind, ret |-> ret, args |-> args]

\* read_response of a method, or of getInterfaceVersion, which fills the cache.
\* A oneway call has no reply and learns nothing; a method the service does not
\* know goes to the default implementation.
ReadResponse ==
    LET m == cli.methods[call.m]
        body == IF call.m > 0 /\ ~m.ret THEN Tail(parcel) ELSE SubSeq(parcel, 3, Len(parcel))
        back == ReadOnto(m.args, body, call.args)
    IN /\ at \in {"replied", "malformed", "unset", "unknown"}
       /\ at' = "ready"
       /\ cached' = IF call.m = 0 /\ at = "replied" THEN parcel[2] ELSE cached
       /\ IF call.m > 0 /\ Oneway(cli, m) THEN Returns("ok", 0, call.args)
          ELSE IF at # "replied" THEN Returns(IF at = "unknown" /\ call.m > 0 THEN "default" ELSE at, 0, call.args)
          ELSE IF call.m = 0 THEN Returns("ok", parcel[2], <<>>)
          ELSE IF parcel[1] # 0 THEN Returns(IF parcel[1] = 5 THEN "denied" ELSE "exception", 0, call.args)
          ELSE IF back.ok /\ back.rest = <<>> THEN Returns("ok", IF m.ret THEN parcel[2] ELSE 0, back.v)
          ELSE Returns("malformed", 0, call.args)
       /\ UNCHANGED <<cli, srv, call, parcel, ran, caller, authority, stubCalls>>

SetAuthority ==
    /\ at = "ready" /\ authority = {"none"}
    /\ authority' = caller.grants
    /\ UNCHANGED <<cli, srv, at, call, parcel, ran, result, cached, caller, stubCalls>>

StubNext == Compile \/ (\E j \in DOMAIN cli.methods : CallMethod(j)) \/ CallVersion \/ OnTransact \/ ReadResponse \/ SetAuthority
StubSpec == StubInit /\ [][StubNext]_stubVars

-----------------------------------------------------------------------------
(* Properties *)

Returned == at = "ready" /\ result # <<>> /\ call # <<>>
Called == cli.methods[call.m]

\* Both sides agree on a call, for every signature the compiler accepts: the
\* service sees the values passed and out arrays of the caller's length; the
\* caller gets the value returned and the out arguments as the service left
\* them; and a call fails only because the service lacks the method, denied it,
\* answered with an exception, or left a descriptor unset.
CallAgrees ==
    /\ at # "malformed"
    /\ Returned /\ call.m > 0 =>
       /\ result.kind # "malformed"
       /\ ran # <<>> => \A k \in DOMAIN Called.args :
             LET a == Called.args[k]
             IN IF a.dir # "out" THEN ran.seen[k] = call.args[k]
                ELSE IsArr(a) => ran.seen[k] = Sized(a, call.args[k][1])
       /\ result.kind = "ok" /\ ~Oneway(cli, Called) =>
             /\ ran # <<>> /\ ~ran.err
             /\ Called.ret => result.ret = ran.ret
             /\ \A k \in DOMAIN Called.args :
                   result.args[k] = IF IsOut(Called.args[k]) THEN ran.after[k] ELSE call.args[k]

\* The method that runs is the method called, when the service was built from
\* the interface or from one with fewer methods: user codes, positions and the
\* code of getInterfaceVersion never meet.
RightMethod ==
    ran # <<>> => ran.id = IF call.m = 0 THEN "version" ELSE cli.methods[call.m].id

\* A method under @EnforcePermission runs only for a caller that holds what it
\* names: as the installed authority has it, or, without one, over the kernel
\* transport only.
GuardedRuns ==
    ran # <<>> /\ call.m > 0 =>
       LET holds == IF authority # {"none"} THEN authority ELSE IF caller.rpc THEN {} ELSE caller.holds
           perm == Called.perm
       IN perm.op = "none" \/ at = "ready" \/
          IF perm.op = "anyOf" THEN perm.ps \cap holds # {} ELSE perm.ps \subseteq holds

\* A caller never finds a descriptor missing in an array that is not nullable:
\* the service's unset element becomes an error first.
NoUnsetFd ==
    Returned /\ call.m > 0 /\ result.kind = "ok" =>
       \A k \in DOMAIN Called.args :
          Called.args[k].dir = "out" /\ Called.args[k].elem = "fd" /\ ~Called.args[k].nullable
             => ~HasUnset(Called.args[k], result.args[k])

\* The generated proxy and stub fit together: the method called runs, for a
\* caller that may run it, with the arguments and results of one signature
\* (build_parcel, on_transact and read_response of generator.rs).
StubsAgree == CallAgrees /\ RightMethod /\ GuardedRuns /\ NoUnsetFd
=============================================================================
