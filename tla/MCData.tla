------------------------------- MODULE MCData -------------------------------
(* What a call carries, on small instances: values and objects in a Parcel,   *)
(* the stubs the AIDL compiler generates for it, and the compiler's own steps. *)
(* These parts share no state; a behaviour explores the one it starts with,   *)
(* and the others rest.                                                       *)
EXTENDS ParcelValues, ParcelObjects, AidlNames, AidlSources, AidlStubs

-----------------------------------------------------------------------------
(* ParcelValues: three versions of two parcelables and a union *)

Int_ == [k |-> "int"]
Str_ == [k |-> "str"]
Bytes_ == [k |-> "bytes"]
Chars_ == [k |-> "chars"]
Opt(t) == [k |-> "opt", of |-> t]
Vec(t) == [k |-> "vec", of |-> t]
Fixed(t, n) == [k |-> "fixed", of |-> t, n |-> n]
Par(n) == [k |-> "par", name |-> n]
Uni(n) == [k |-> "union", name |-> n]
Hold(s) == [k |-> "holder", stab |-> s]

PvSchemas == <<
    << <<Int_, Opt(Par(1))>>, <<Str_>>, <<Int_>> >>,
    << <<Int_, Opt(Par(1)), Vec(Par(2)), Uni(3), Fixed(Int_, 2)>>,
       <<Str_, Bytes_, Chars_>>, <<Int_, Str_>> >>,
    << <<Int_, Opt(Par(1)), Vec(Par(2)), Uni(3), Fixed(Int_, 1)>>,
       <<Opt(Str_), Bytes_, Opt(Chars_)>>, <<Int_, Str_, Par(2)>> >> >>

U1 == [tag |-> 0, val |-> 3]
U2 == [tag |-> 1, val |-> <<2>>]
P1(n, link) == <<n, link>>
P2(n, link, u) == <<n, link, << <<<<1>>, <<2, 3, 1>>, <<1, 1>>>> >>, u, <<1, 2>>>>
Chain == P1(1, <<P1(2, <<>>)>>)
DeepChain == P1(0, <<Chain>>)
Said(v, ts, xs) == [ver |-> v, types |-> ts, vals |-> xs]
Filled(n, x) == HolderOf("typed", n, x, NewParcel)

PvMessages == {
    Said(1, <<Par(1), Int_>>, <<Chain, 5>>),
    Said(1, <<Par(1), Int_>>, <<DeepChain, 5>>),
    Said(2, <<Par(1), Int_>>, <<P2(1, <<P2(2, <<>>, U1)>>, U2), 5>>),
    Said(2, <<Vec(Par(1)), Int_>>, <<<<P2(1, <<>>, U1)>>, 5>>),
    Said(1, <<Vec(Par(1)), Int_>>, <<<<P1(1, <<>>), P1(2, <<P1(3, <<>>)>>)>>, 5>>),
    Said(3, <<Uni(3), Int_>>, <<[tag |-> 2, val |-> <<<<>>, <<1>>, <<<<2>>>>>>], -1>>),
    Said(3, <<Uni(3), Int_>>, <<[tag |-> 1, val |-> <<2>>], 5>>),
    Said(3, <<Opt(Par(2)), Int_>>, <<<<<<<<>>, <<3>>, <<>>>>>>, 5>>),
    Said(3, <<Opt(Par(2)), Int_>>, <<<<>>, 5>>),
    Said(2, <<Par(2), Int_>>, <<<<<<1, 2>>, <<>>, <<3>>>>, 5>>),
    Said(2, <<Hold(0), Int_>>, <<Filled(1, P2(1, <<>>, U2)), 5>>),
    Said(1, <<Hold(0), Int_>>, <<Filled(1, DeepChain), 5>>),
    Said(3, <<Hold(0), Int_>>, <<Filled(2, <<<<<<1>>>>, <<1, 2>>, <<<<1>>>>>>), 5>>),
    Said(3, <<Hold(0), Int_>>, <<Filled(2, <<<<>>, <<1, 2>>, <<<<1>>>>>>), 5>>),
    Said(1, <<Hold(0), Int_>>, <<EmptyHolder, 5>>),
    Said(1, <<Hold(1), Int_>>, <<Filled(2, <<<<1>>>>), 5>>) }

PvExpects(ts) ==
    {ts} \cup (IF Len(ts) = 2 THEN {Append(ts, Int_)} ELSE {})
         \cup (IF ts[1] = Opt(Par(2)) THEN {<<Par(2), Int_>>} ELSE {})
         \cup (IF ts[1].k = "holder" THEN {<<Hold(0), Int_>>} ELSE {})

-----------------------------------------------------------------------------
(* AidlNames *)

\* Two documents: an interface with constants and an enum in package p; another
\* interface, a parcelable and an enum in package q.  The initialisers vary, and
\* the name of the other interface's constant, which may be one of the first
\* interface's, the default of the field, or one that nothing else declares.
Lit(n) == ParseIntvalue(n, FALSE, "")
Scalar(id, base, e) == [id |-> id, array |-> FALSE, dim |-> NoExpr, base |-> base, e |-> e]
Array(id, dim, e) == [id |-> id, array |-> TRUE, dim |-> dim, base |-> "int", e |-> e]
PkgP == [package |-> <<"p">>, imports |-> <<>>]
PkgQ == [package |-> <<"q">>, imports |-> ("I" :> <<"p", "I">>)]

Program(e1, e2, e3, e4, e5, e6, e7, e8, e9, other, swapped) ==
    LET i == IF swapped THEN 2 ELSE 1
        j == 3 - i
        ofP == <<[kind |-> "interface", doc |-> i, ns |-> <<"p", "I">>, fields |-> <<>>,
                  consts |-> <<Scalar("X", "int", e1), Scalar("Y", "int", e2)>>],
                 [kind |-> "enum", doc |-> i, ns |-> <<"p", "I", "E">>, fields |-> <<>>,
                  consts |-> <<Scalar("A", "long", e3), Scalar("B", "long", NoExpr), Scalar("C", "long", e4)>>]>>
        ofQ == <<[kind |-> "interface", doc |-> j, ns |-> <<"q", "K">>, fields |-> <<>>,
                  consts |-> <<Scalar(other, "int", Lit(5))>>],
                 [kind |-> "parcelable", doc |-> j, ns |-> <<"q", "P">>,
                  fields |-> <<[id |-> "f", enum |-> <<"I", "E">>, e |-> e6]>>,
                  consts |-> <<Scalar("Z", "int", e5), Scalar("W", "byte", Name(<<"Z">>)),
                               Array("R", e8, Arr(<<Name(<<"F", "A">>), e9>>))>>],
                 [kind |-> "enum", doc |-> j, ns |-> <<"q", "F">>, fields |-> <<>>,
                  consts |-> <<Scalar("A", "long", Lit(3)), Scalar("N", "long", e7)>>]>>
    IN [docs |-> IF swapped THEN <<PkgQ, PkgP>> ELSE <<PkgP, PkgQ>>,
        decls |-> IF swapped THEN ofQ \o ofP ELSE ofP \o ofQ]

\* <<e1, e2, e3, e4, swapped>>: the constants of I and the members of E.
Inits ==
    {Lit(1), Name(<<"q", "F", "A">>)} \X {Bin("+", Name(<<"X">>), Name(<<"X">>)), Name(<<"I", "E", "B">>)}
       \X {Lit(2), Name(<<"X">>)} \X {NoExpr, Name(<<"A">>), Name(<<"I", "Y">>)} \X BOOLEAN
\* An enum in which a member stands for a sibling by its short name, while that
\* one needs a constant, is kept apart.
ShortAlias(x) == x[3].t = "name" /\ x[4] = Name(<<"A">>)

ProgramsOver(inits, members, dims, seconds, others) ==
    {Program(x[1], x[2], x[3], x[4], e5, e6, e7, e8, e9, other, x[5]) :
        x \in inits, e7 \in members, e8 \in dims, e9 \in seconds, other \in others,
        e5 \in {Bin("+", Name(<<"I", "E", "C">>), Lit(1)), Name(<<"F", "N">>), Name(<<"W">>), Name(<<"I", "Q">>)},
        e6 \in {Name(<<"B">>), Name(<<"F", "A">>)}}
AllMembers == {NoExpr, Name(<<"I", "Y">>), Name(<<"I", "E", "C">>)}
AllDims == {Lit(2), Name(<<"I", "X">>)}
AidlPrograms ==
    LET apart == {x \in Inits : ~ShortAlias(x)}
    IN ProgramsOver(apart, AllMembers, AllDims, {Lit(1)}, {"V"})
       \cup ProgramsOver(apart, {Name(<<"I", "E", "C">>)}, {Lit(2)}, {Lit(1)}, {"X", "B", "Q"})
       \cup ProgramsOver(apart, {NoExpr}, {Lit(2)}, {Name(<<"F", "A">>)}, {"V"})
AliasPrograms == ProgramsOver({x \in Inits : ShortAlias(x)}, AllMembers, AllDims, {Lit(1)}, {"V"})

-----------------------------------------------------------------------------
(* AidlSources *)

\* Below root r1: A (package 1) imports B, B (package 1.2) imports A and C, C
\* (package 2.2) imports nothing; D has no package and imports C.  Root r2 has a
\* second C (C2).  Directory d1 holds A and the directory d2, d2 holds B and D.
Tree ==
    [files |-> {"A", "B", "C", "C2", "D"}, dirs |-> {"d1", "d2"},
     entries |-> [d1 |-> {"A", "d2"}, d2 |-> {"B", "D"}],
     package |-> [A |-> <<1>>, B |-> <<1, 2>>, C |-> <<2, 2>>, C2 |-> <<2, 2>>, D |-> <<>>],
     imports |-> [A |-> {"1.B", "builtin"}, B |-> {"1.A", "2.C"}, C |-> {}, C2 |-> {}, D |-> {"2.C"}],
     root |-> [A |-> "r1", B |-> "r1", C |-> "r1", C2 |-> "r2", D |-> NoRoot],
     builtin |-> {"builtin"}]
Below == [r1 |-> ("1.A" :> "A") @@ ("1.B" :> "B") @@ ("2.C" :> "C"), r2 |-> ("2.C" :> "C2")]
UnderRoots(rs) == [x \in {<<r, n>> \in rs \X {"1.A", "1.B", "2.C"} : n \in DOMAIN Below[r]} |-> Below[x[1]][x[2]]]

BuildsFor(rs, incs, sources) ==
    {[files |-> Tree.files, dirs |-> Tree.dirs, entries |-> Tree.entries, package |-> Tree.package,
      imports |-> Tree.imports, root |-> Tree.root, builtin |-> Tree.builtin, under |-> UnderRoots(rs),
      broken |-> x, bad |-> y, sources |-> s, includes |-> i, versioned |-> v] :
        x \in {{}, {"C"}}, y \in {{}, {"B"}}, s \in sources, i \in incs, v \in {{}, {"D"}}}
AidlBuilds ==
    BuildsFor({"r1", "r2"}, {<<>>, <<"r1", "r1">>, <<"r1", "r2">>},
              {<<>>, <<"A">>, <<"D">>, <<"d1">>, <<"A", "C", "A">>, <<"D", "A">>, <<"C", "nowhere">>})

-----------------------------------------------------------------------------
(* AidlStubs *)

\* Interfaces of one or two methods.
Arg(dir, k, elem, nullable) == [dir |-> dir, k |-> k, elem |-> elem, nullable |-> nullable]
NoPerm == [op |-> "none", ps |-> {}]
Method(id, oneway, code, ret, perm, takes) ==
    [id |-> id, oneway |-> oneway, code |-> code, ret |-> ret, perm |-> perm, args |-> takes]
Iface(oneway, version, methods) == [oneway |-> oneway, version |-> version, methods |-> methods]

StubArgs ==
    {Arg("in", "plain", "prim", FALSE), Arg("in", "arr", "parc", TRUE), Arg("out", "plain", "parc", TRUE),
     Arg("out", "plain", "prim", FALSE), Arg("out", "arr", "prim", FALSE), Arg("out", "arr", "fd", FALSE),
     Arg("out", "arr", "binder", TRUE), Arg("inout", "arr", "parc", FALSE), Arg("inout", "arr", "iface", FALSE),
     Arg("inout", "arr", "fd", FALSE)}
StubPerms == {NoPerm, [op |-> "allOf", ps |-> {"p", "q"}], [op |-> "anyOf", ps |-> {"p", "q"}]}
Setup(iface, rpc, holds, grants) ==
    [iface |-> iface, caller |-> [rpc |-> rpc, holds |-> holds, grants |-> grants]]
StubSetups ==
    \* every pair of arguments
    {Setup(Iface(FALSE, FALSE, <<Method("f", FALSE, NoCode, r, NoPerm, <<a, b>>)>>), FALSE, {}, {}) :
        a, b \in StubArgs, r \in BOOLEAN}
    \* oneway and permissions
    \cup {Setup(Iface(o, FALSE, <<Method("f", w, NoCode, r, p, <<Arg("in", "plain", "prim", FALSE)>>)>>), rpc, h, g) :
             o, w, r, rpc \in BOOLEAN, p \in StubPerms, h, g \in SUBSET {"p", "q"}}
    \* codes and the version
    \cup {Setup(Iface(FALSE, v, <<Method("f", FALSE, c, TRUE, NoPerm, <<>>), Method("g", FALSE, d, FALSE, NoPerm, <<>>)>>),
                FALSE, {}, {}) :
             v \in BOOLEAN, c, d \in {NoCode, 0, 1, MaxUserCode, MaxUserCode + 2}}

-----------------------------------------------------------------------------
(* One part at a time *)

VARIABLE part
dataVars == <<part, pvVars, objVars, constVars, nameVars, srcVars, stubVars>>

\* Where a part starts if it is explored, and where it rests otherwise.
From(p, S, rest) == IF part = p THEN S ELSE {rest}

DataInit ==
    /\ part \in {"values", "objects", "const", "names", "sources", "stubs"}
    /\ \E m \in From("values", Messages, Said(1, <<>>, <<>>)) : PvStart(m)
    /\ ObjInit
    /\ \E p \in From("const", Operands, <<Val("bool", 0), Val("bool", 0)>>) : ConstStart(p)
    /\ \E p \in From("names", Programs, [docs |-> <<>>, decls |-> <<>>]) : NameStart(p)
    /\ \E b \in From("sources", Builds, [sources |-> <<>>, includes |-> <<>>]) : SrcStart(b)
    /\ \E s \in From("stubs", Setups, Setup(Iface(FALSE, FALSE, <<>>), FALSE, {}, {})),
         n \in From("stubs", 0 .. MaxPlaced, 0) : StubStart(s, n)

Rest(p) ==
    /\ UNCHANGED part
    /\ p # "values" => UNCHANGED pvVars
    /\ p # "objects" => UNCHANGED objVars
    /\ p # "const" => UNCHANGED constVars
    /\ p # "names" => UNCHANGED nameVars
    /\ p # "sources" => UNCHANGED srcVars
    /\ p # "stubs" => UNCHANGED stubVars

DataNext ==
    \/ part = "values" /\ PvNext /\ Rest(part)
    \/ part = "objects" /\ ObjNext /\ Rest(part)
    \/ part = "const" /\ ConstNext /\ Rest(part)
    \/ part = "names" /\ NameNext /\ Rest(part)
    \/ part = "sources" /\ SrcNext /\ Rest(part)
    \/ part = "stubs" /\ StubNext /\ Rest(part)

DataSpec == DataInit /\ [][DataNext]_dataVars
=============================================================================
