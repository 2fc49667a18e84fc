----------------------------- MODULE AidlNames -----------------------------
(***************************************************************************)
(* Names in AIDL constants: how the compiler resolves them, numbers enum    *)
(* members and generates the declarations of several documents              *)
(* (rsbinder-aidl/src/parser.rs, generator.rs, type_generator.rs, and the    *)
(* evaluator calculate_with_visited of const_expr.rs).                      *)
(*                                                                         *)
(* The thread-locals are the state: the symbol table and the cache of enum   *)
(* values, filled while every document is pre-registered and then while each *)
(* one is generated.  A program is a sequence of documents; its declarations *)
(* are listed in the order the compiler walks them, a declaration before the *)
(* ones nested in it.  A name is the sequence of its dotted parts.  Unions   *)
(* and Java-only declarations are left out.                                 *)
(***************************************************************************)
EXTENDS AidlConst, Sequences, SequencesExt, FiniteSets

CONSTANTS Programs,         \* the programs compiled
          MAX_EXPR_DEPTH    \* how deep an expression may nest

\* A program: docs is a sequence of [package, imports], imports a function from
\* simple to full names; decls a sequence of [kind, doc, ns, consts, fields]
\* with kind "interface", "parcelable" or "enum".  A constant is [id, array,
\* dim, base, e]; the members of an enum are its consts; a field has an enum
\* type and a default, [id, enum, e].

VARIABLES prog,     \* the program
          step,     \* <<phase, i, j>>: the next constant, of declaration i
          doneConsts, \* the constants and fields of that declaration, as processed
          syms,     \* SYMBOL_TABLE
          cache,    \* ENUM_VALUE_CACHE
          out,      \* the constants generated: [ns, id, v]
          failed    \* the first constant refused in each document that has one
nameVars == <<prog, step, doneConsts, syms, cache, out, failed>>

\* Expressions beside the values of AidlConst.
NoExpr == [t |-> "none"]
Name(n) == [t |-> "name", n |-> n]
Bin(op, l, r) == [t |-> "bin", op |-> op, l |-> l, r |-> r]
Un(op, e) == [t |-> "un", op |-> op, e |-> e]
Arr(es) == [t |-> "arr", es |-> es]
Ref(enum, member, v) == [t |-> "ref", v |-> v, enum |-> enum, member |-> member]

-----------------------------------------------------------------------------
(* Declarations by name.  An environment is [p, ns, doc, syms, stack]: the    *)
(* program, the namespace and the document in force, the symbols, and the     *)
(* enum members being resolved.                                             *)

Has(p, ns) == \E i \in DOMAIN p.decls : p.decls[i].ns = ns
DeclAt(p, ns) == p.decls[CHOOSE i \in DOMAIN p.decls : p.decls[i].ns = ns]
Up(ns) == IF ns = <<>> THEN <<>> ELSE Front(ns)

\* make_ns_candidate: the name itself, and without its last part.
Candidates(ns, name) == <<ns \o name>> \o IF Len(name) > 1 THEN <<ns \o Front(name)>> ELSE <<>>

\* lookup_decl_from_name: the namespace of the declaration found, or <<>>.
LookupDecl(name, env) ==
    LET doc == env.p.docs[env.doc]
        places == Candidates(env.ns, name) \o Candidates(Up(env.ns), name)
                  \o Candidates(doc.package, name)
                  \o (IF name[1] \in DOMAIN doc.imports THEN <<doc.imports[name[1]] \o Tail(name)>> ELSE <<>>)
                  \o (IF Len(name) > 1 THEN Candidates(<<>>, name) ELSE <<>>)
        found == SelectSeq(places, LAMBDA ns : Has(env.p, ns))
    IN IF found # <<>> THEN found[1]
       ELSE IF Len(name) = 1 /\ Has(env.p, env.ns) THEN env.ns ELSE <<>>

IsEnum(p, ns) == Has(p, ns) /\ DeclAt(p, ns).kind = "enum"

-----------------------------------------------------------------------------
(* Resolution and evaluation, which need each other.  Both return the cache   *)
(* of enum values they leave behind.                                        *)

RECURSIVE Calc(_, _, _, _, _), EnumMember(_, _, _, _), EnumFrom(_, _, _, _, _)

\* Fault model: the value carried out of an enumerator that does not fold is
\* cached like a folded one.
CacheCarried(c, key, carried, e) == IF key \in DOMAIN c THEN c ELSE c @@ (key :> e)

\* Only folded members are cached; a carried expression may fold later.
CacheFolded(c, key, carried, e) == IF carried \/ key \in DOMAIN c THEN c ELSE c @@ (key :> e)

\* Fault model: the members of an enum are resolved where they are used.
EnumEnvHere(env, ns, key) == [env EXCEPT !.stack = @ \cup {key}]

\* DocumentGuard and NamespaceGuard: they are resolved where the enum is declared.
EnumEnv(env, ns, key) ==
    [env EXCEPT !.ns = ns, !.doc = DeclAt(env.p, ns).doc, !.stack = @ \cup {key}]

\* One enumerator of the loop in enum_member_const_expr_from_lookup, its
\* expression calculated to x: what it does to the counter, the carried
\* expression and the cache.
Enumerated(a, m, x) ==
    IF x.r.t \in Integral THEN [a EXCEPT !.val = x.r.v, !.carried = NoExpr, !.c = x.c]
    ELSE [a EXCEPT !.c = x.c, !.carried = IF x.r.t \in {"err", "name"} THEN m.e ELSE x.r]
Enumerator(a, m, env) == IF m.e = NoExpr THEN a ELSE Enumerated(a, m, Calc(m.e, {}, 0, env, a.c))

\* Its loop, from enumerator i on: each one without a value is one more than
\* the one before.
Passed(a, isIt) == IF isIt THEN [a EXCEPT !.found = TRUE] ELSE [a EXCEPT !.val = Cast(@ + 1, LongBits)]
EnumFrom(consts, i, a, member, env) ==
    IF a.found \/ i > Len(consts) THEN a
    ELSE EnumFrom(consts, i + 1, Passed(Enumerator(a, consts[i], env), consts[i].id = member), member, env)

\* enum_member_const_expr_from_lookup, after the loop and as a whole.
Searched(a, key, e) ==
    IF ~a.found THEN [e |-> NoExpr, c |-> a.c]
    ELSE [e |-> e, c |-> CacheFolded(a.c, key, a.carried # NoExpr, e)]
Looped(a, key) == Searched(a, key, IF a.carried # NoExpr THEN a.carried ELSE Ref(key[1], key[2], a.val))
EnumMember(ns, member, env, c) ==
    LET key == <<ns, member>>
    IN IF key \in DOMAIN c THEN [e |-> c[key], c |-> c]
       ELSE IF key \in env.stack THEN [e |-> NoExpr, c |-> c]
       ELSE Looped(EnumFrom(DeclAt(env.p, ns).consts, 1,
                            [val |-> 0, carried |-> NoExpr, found |-> FALSE, c |-> c],
                            member, EnumEnv(env, ns, key)), key)

\* name_to_enum_member_const_expr, the target enum <<>> when there is none.
NameToEnumMember(name, target, env, c) ==
    LET none == [e |-> NoExpr, c |-> c]
        dotted == Len(name) > 1
        enum == IF dotted THEN LookupDecl(Front(name), env)
                ELSE IF target # <<>> THEN LookupDecl(target, env) ELSE env.ns
    IN IF \/ ~IsEnum(env.p, enum)
          \/ dotted /\ target # <<>> /\ LookupDecl(target, env) # enum
       THEN none ELSE EnumMember(enum, Last(name), env, c)

\* lookup_name_from_decl: a constant of the declaration, or of one nested in it.
NameFromDecl(ns, ident, env, c) ==
    LET under == SelectSeq(env.p.decls, LAMBDA d : IsPrefix(ns, d.ns) /\ d.kind # "enum"
                                                   /\ \E i \in DOMAIN d.consts : d.consts[i].id = ident)
        hit == SelectSeq(under[1].consts, LAMBDA k : k.id = ident)
    IN IF IsEnum(env.p, ns) THEN EnumMember(ns, ident, env, c)
       ELSE [e |-> IF under = <<>> THEN NoExpr ELSE hit[1].e, c |-> c]

\* generate_name_variants.
Variants(name, ns) ==
    IF Len(name) > 1 THEN [i \in 1 .. Len(name) |-> SubSeq(name, i, Len(name))]
    ELSE (IF ns = <<>> THEN <<>> ELSE <<ns \o name>>) \o <<name>>

\* name_to_const_expr: an enum member; else a symbol of that name; else what the
\* declaration found declares; else a symbol under a variant of the name.
DeclaredConst(name, ns, env, c) ==
    IF ns = <<>> THEN [e |-> NoExpr, c |-> c] ELSE NameFromDecl(ns, Last(name), env, c)
VariantElse(declared, name, env) ==
    LET known == SelectSeq(Variants(name, env.ns), LAMBDA v : v \in DOMAIN env.syms)
    IN IF known = <<>> \/ (Len(name) > 1 /\ declared.e # NoExpr) THEN declared
       ELSE [e |-> env.syms[known[1]], c |-> declared.c]
MemberElse(member, name, env) ==
    IF member.e # NoExpr THEN member
    ELSE IF name \in DOMAIN env.syms THEN [e |-> env.syms[name], c |-> member.c]
    ELSE VariantElse(DeclaredConst(name, LookupDecl(name, env), env, member.c), name, env)
NameToConst(name, env, c) == MemberElse(NameToEnumMember(name, <<>>, env, c), name, env)

\* Each operand works on its own copy of the names on the path.
RightOperand(a, r, env, vis, depth) == Calc(r, vis, depth, env, a.c)

\* calculate_with_visited: the value, an unresolved name, or Refused.  Its cases,
\* with what their operands, or the name, came to.
CalcUnary(op, x) == IF x.r.t = "err" THEN x ELSE [x EXCEPT !.r = Unary(op, x.r)]
CalcBoth(op, a, b, vis) ==
    [r |-> IF b.r.t = "err" THEN Refused ELSE Binary(op, a.r, b.r), vis |-> vis, c |-> b.c]
CalcBinary(e, a, env, vis, depth) ==
    IF a.r.t = "err" THEN [a EXCEPT !.vis = vis]
    ELSE CalcBoth(e.op, a, RightOperand(a, e.r, env, vis, depth), vis)
CalcNamed(e, x, env, vis, depth) ==
    IF x.e = NoExpr THEN [r |-> e, vis |-> vis, c |-> x.c] ELSE Calc(x.e, vis, depth, env, x.c)

Calc(e, vis, depth, env, c) ==
    IF depth > MAX_EXPR_DEPTH THEN [r |-> Refused, vis |-> vis, c |-> c]
    ELSE CASE e.t = "un" -> CalcUnary(e.op, Calc(e.e, vis, depth + 1, env, c))
           [] e.t = "bin" -> CalcBinary(e, Calc(e.l, vis, depth + 1, env, c), env, vis, depth + 1)
           [] e.t = "arr" ->
                LET Elem(a, x) == IF a.r.t = "err" THEN a
                                  ELSE LET y == Calc(x, a.vis, depth + 1, env, a.c)
                                       IN [y EXCEPT !.r = IF @.t = "err" THEN @ ELSE Arr(Append(a.r.es, @))]
                IN FoldLeft(Elem, [r |-> Arr(<<>>), vis |-> vis, c |-> c], e.es)
           [] e.t = "name" ->
                IF e.n \in vis THEN [r |-> Refused, vis |-> vis, c |-> c]
                ELSE CalcNamed(e, NameToConst(e.n, env, c), env, vis \cup {e.n}, depth + 1)
           [] OTHER -> [r |-> e, vis |-> vis, c |-> c]

Calculate(e, env, c) == Calc(e, {}, 0, env, c)

-----------------------------------------------------------------------------
(* Pre-registration and generation of one constant *)

Put(f, key, v) == (key :> v) @@ f

\* register_symbol of an interface constant: its simple name, and one with the
\* name of the interface.
RegisterConst(s, d, id, e) == Put(Put(s, <<id>>, e), <<Last(d.ns), id>>, e)

\* register_enum_members, one member: under the full name of its enum.
Registered(x, name, s) == [s |-> IF x.e = NoExpr THEN s ELSE Put(s, name, x.e), c |-> x.c]
RegisterMember(d, m, env, c) == Registered(EnumMember(d.ns, m.id, env, c), Append(d.ns, m.id), env.syms)

\* One constant in pre_register_enum_decls.
PreRegistered(d, k, env, c) ==
    CASE d.kind = "enum" -> RegisterMember(d, k, env, c)
      [] d.kind = "interface" -> [s |-> RegisterConst(env.syms, d, k.id, k.e), c |-> c]
      [] OTHER -> [s |-> env.syms, c |-> c]

\* init_scalar_branch: an enum member stands for its number.
InitScalar(x, base) ==
    CASE x.t \in {"err", "name", "arr"} -> Refused
      [] x.t = "ref" -> Val("long", x.v)
      [] OTHER -> ConvertTo(x, base)

\* ArrayInfo::new: a dimension is a positive int; 0 stands for "not fixed".
DimensionOf(x) ==
    IF x.t \in {"byte", "int", "long", "ref"} /\ x.v > 0 /\ InWidth(x.v, IntBits) THEN x.v ELSE -1
Dimension(k, env, c) == IF k.dim = NoExpr THEN 0 ELSE DimensionOf(Calculate(k.dim, env, c).r)

\* init_array_value, with check_fixed_arity.
InitArray(x, k, dim) ==
    IF x.t # "arr" THEN Refused
    ELSE LET es == [i \in DOMAIN x.es |-> ConvertTo(x.es[i], k.base)]
         IN IF (\E i \in DOMAIN es : es[i].t = "err") \/ (dim > 0 /\ Len(es) # dim) THEN Refused ELSE Arr(es)

\* init_value of a constant: type first, then value.
InitValue(k, dim, x) ==
    [v |-> IF dim < 0 THEN Refused ELSE IF k.array THEN InitArray(x.r, k, dim) ELSE InitScalar(x.r, k.base),
     c |-> x.c]
InitConst(k, env, c) == InitValue(k, Dimension(k, env, c), Calculate(k.e, env, c))

\* init_enum_value: a simple name is looked up in the field's enum, and only a
\* member of that enum will do.
OnlyOf(target, x) == [v |-> IF x.r.t = "ref" /\ x.r.enum = target THEN x.r ELSE Refused, c |-> x.c]
InitDefault(f, target, member, env) ==
    OnlyOf(target, Calculate(IF member.e = NoExpr THEN f.e ELSE member.e, env, member.c))
InitField(f, env, c) ==
    LET target == LookupDecl(f.enum, env)
    IN InitDefault(f, target,
                   IF f.e.t = "name" THEN NameToEnumMember(f.e.n, target, env, c) ELSE [e |-> NoExpr, c |-> c], env)

\* decl_enum: the number of each member.
Discriminant(y) == [v |-> IF y.r.t \in Integral THEN Val("long", y.r.v) ELSE Refused, c |-> y.c]
CalculateMember(x, env) == Discriminant(Calculate(x.e, env, x.c))
InitMember(d, m, env, c) == CalculateMember(EnumMember(d.ns, m.id, env, c), env)

\* What is generated for the j-th of a declaration's constants and fields, as
\* processed.
Items(d) == d.consts \o d.fields
Init1(d, j, items, env, c) ==
    IF j > Len(d.consts) THEN InitField(items[j], env, c)
    ELSE IF d.kind = "enum" THEN InitMember(d, items[j], env, c)
    ELSE InitConst(items[j], env, c)

IdOf(d, j) == Items(d)[j].id

-----------------------------------------------------------------------------
(* Builder::generate: every document is pre-registered, then generated.  The   *)
(* steps of decl_interface, decl_parcelable and decl_enum are those of their   *)
(* constants: all are processed, then all are written out.                    *)

NameStart(p) ==
    /\ prog = p
    /\ step = <<"pre", 1, 1>>
    /\ doneConsts = <<>> /\ syms = <<>> /\ cache = <<>> /\ out = {} /\ failed = <<>>

NameInit == \E p \in Programs : NameStart(p)

Here == prog.decls[step[2]]
HereEnv == [p |-> prog, ns |-> Here.ns, doc |-> Here.doc, syms |-> syms, stack |-> {}]

\* The next declaration of a pass, or the next pass.
NextDecl(phase, after) ==
    IF step[2] < Len(prog.decls) THEN <<phase, step[2] + 1, 1>> ELSE <<after, 1, 1>>

PreRegister ==
    /\ step[1] = "pre"
    /\ LET r == PreRegistered(Here, Here.consts[step[3]], HereEnv, cache) IN syms' = r.s /\ cache' = r.c
    /\ step' = IF step[3] < Len(Here.consts) THEN [step EXCEPT ![3] = @ + 1] ELSE NextDecl("pre", "process")
    /\ UNCHANGED <<prog, doneConsts, out, failed>>

\* pre_process replaces a constant, or a field's default, that calculates by its
\* value.
PreProcessed(k, r) == IF r.t = "err" THEN k ELSE [k EXCEPT !.e = r]

\* An interface then registers its constants again, an enum its members.
ProcessMember(k, r) == doneConsts' = Append(doneConsts, k) /\ syms' = r.s /\ cache' = r.c
ProcessConst(k, x, last) ==
    /\ doneConsts' = Append(doneConsts, PreProcessed(k, x.r))
    /\ cache' = x.c
    /\ syms' = IF last /\ Here.kind = "interface"
               THEN FoldLeft(LAMBDA a, w : RegisterConst(a, Here, w.id, w.e), syms, doneConsts') ELSE syms
Process ==
    LET k == Items(Here)[step[3]]
        last == step[3] = Len(Items(Here))
    IN /\ step[1] = "process" /\ Here.doc \notin DOMAIN failed
       /\ IF Here.kind = "enum" THEN ProcessMember(k, RegisterMember(Here, k, HereEnv, cache))
          ELSE ProcessConst(k, Calculate(k.e, HereEnv, cache), last)
       /\ step' = IF last THEN <<"emit", step[2], 1>> ELSE [step EXCEPT ![3] = @ + 1]
       /\ UNCHANGED <<prog, out, failed>>

\* A refused constant ends the generation of its document only.
Emitting(x, bad, last) ==
    /\ cache' = x.c
    /\ out' = IF bad THEN out ELSE out \cup {[ns |-> Here.ns, id |-> IdOf(Here, step[3]), v |-> x.v]}
    /\ failed' = IF bad THEN Put(failed, Here.doc, <<Here.ns, IdOf(Here, step[3])>>) ELSE failed
    /\ step' = IF bad \/ last THEN NextDecl("process", "done") ELSE [step EXCEPT ![3] = @ + 1]
    /\ doneConsts' = IF bad \/ last THEN <<>> ELSE doneConsts
Emit ==
    /\ step[1] = "emit"
    /\ \E x \in {Init1(Here, step[3], doneConsts, HereEnv, cache)} :
          Emitting(x, x.v.t = "err", step[3] = Len(Items(Here)))
    /\ UNCHANGED <<prog, syms>>

Skip ==
    /\ step[1] = "process" /\ Here.doc \in DOMAIN failed
    /\ step' = NextDecl("process", "done")
    /\ UNCHANGED <<prog, doneConsts, syms, cache, out, failed>>

NameNext == PreRegister \/ Process \/ Emit \/ Skip
NameSpec == NameInit /\ [][NameNext]_nameVars

-----------------------------------------------------------------------------
(* What the names mean: lexical scope.  A simple name is a constant of the    *)
(* declaration it stands in or of one around it; a dotted name is a constant  *)
(* of the declaration its prefix names.                                     *)

RECURSIVE Meant(_, _, _, _)

Owner(p, ns, doc, n) ==
    LET scopes == {s \in {SubSeq(ns, 1, i) : i \in 1 .. Len(ns)} :
                      Has(p, s) /\ \E i \in DOMAIN DeclAt(p, s).consts : DeclAt(p, s).consts[i].id = Last(n)}
    IN IF Len(n) = 1
       THEN IF scopes = {} THEN <<>> ELSE CHOOSE s \in scopes : \A q \in scopes : Len(q) <= Len(s)
       ELSE LET full == SelectSeq([i \in 1 .. Len(ns) + 1 |-> SubSeq(ns, 1, Len(ns) + 1 - i) \o Front(n)]
                                  \o (IF n[1] \in DOMAIN p.docs[doc].imports
                                      THEN <<p.docs[doc].imports[n[1]] \o Tail(Front(n))>> ELSE <<>>),
                                  LAMBDA s : Has(p, s))
            IN IF full = <<>> THEN <<>> ELSE full[1]

Counted(base, n) == IF base.t \notin Integral THEN Refused ELSE Val("ref", base.v + n)
MeantMember(p, d, i, seen) ==
    LET last == CHOOSE j \in 0 .. i : /\ j > 0 => d.consts[j].e # NoExpr
                                      /\ \A k \in j + 1 .. i : d.consts[k].e = NoExpr
    IN Counted(IF last = 0 THEN Val("long", -1)
               ELSE Meant(p, d, d.consts[last].e, seen \cup {<<d.ns, d.consts[last].id>>}), i - last)

\* A name that stands for constant id of declaration o.
MeantName(p, o, id, seen) ==
    LET at == {i \in DOMAIN o.consts : o.consts[i].id = id}
        i == CHOOSE j \in at : TRUE
    IN IF at = {} \/ <<o.ns, id>> \in seen THEN Refused
       ELSE IF o.kind = "enum" THEN MeantMember(p, o, i, seen \cup {<<o.ns, id>>})
       ELSE Meant(p, o, o.consts[i].e, seen \cup {<<o.ns, id>>})
MeantUnder(p, ns, id, seen) == IF ns = <<>> THEN Refused ELSE MeantName(p, DeclAt(p, ns), id, seen)

\* An operation has a value when its operands have.
MeantBoth(op, l, r) == IF "err" \in {l.t, r.t} THEN Refused ELSE Binary(op, l, r)
MeantOne(op, x) == IF x.t = "err" THEN Refused ELSE Unary(op, x)
MeantAll(es) == IF \E i \in DOMAIN es : es[i].t = "err" THEN Refused ELSE Arr(es)

Meant(p, d, e, seen) ==
    CASE e.t = "name" -> MeantUnder(p, Owner(p, d.ns, d.doc, e.n), Last(e.n), seen)
      [] e.t = "bin" -> MeantBoth(e.op, Meant(p, d, e.l, seen), Meant(p, d, e.r, seen))
      [] e.t = "un" -> MeantOne(e.op, Meant(p, d, e.e, seen))
      [] e.t = "arr" -> MeantAll([i \in DOMAIN e.es |-> Meant(p, d, e.es[i], seen)])
      [] OTHER -> e

\* The number of one constant, member or field of the program, the numbers of
\* an array, or Refused.
Numbers(x) == IF x.t = "arr" THEN [i \in DOMAIN x.es |-> x.es[i].v] ELSE <<x.v>>

MeantField(p, d, f, target) ==
    IF Len(f.e.n) > 1 /\ Owner(p, d.ns, d.doc, f.e.n) # target THEN Refused
    ELSE Meant(p, DeclAt(p, target), Name(<<Last(f.e.n)>>), {})
MeantConst(k, x, n) ==
    IF x.t = "err" \/ n < 0 THEN Refused
    ELSE IF k.array THEN (IF Len(x.es) # n /\ k.dim # NoExpr THEN Refused ELSE x)
    ELSE IF x.t = "ref" THEN x ELSE ConvertTo(x, k.base)

MeantOf(p, d, id) ==
    LET i == CHOOSE j \in DOMAIN d.consts : d.consts[j].id = id
        f == CHOOSE g \in Range(d.fields) : g.id = id
        k == d.consts[i]
    IN IF \E g \in Range(d.fields) : g.id = id
       THEN MeantField(p, d, f, Owner(p, d.ns, d.doc, Append(f.enum, "_")))
       ELSE IF d.kind = "enum" THEN MeantMember(p, d, i, {<<d.ns, id>>})
       ELSE MeantConst(k, Meant(p, d, k.e, {<<d.ns, id>>}), IF k.dim = NoExpr THEN 0 ELSE Meant(p, d, k.dim, {}).v)

-----------------------------------------------------------------------------
(* What the compiler's tables cannot tell apart.  A constant of an interface is *)
(* a symbol under its simple name alone, and the elements of an array share    *)
(* the names on the path.                                                   *)

RECURSIVE Needs(_, _, _, _)

Declares(p, ns, id) == Has(p, ns) /\ \E i \in DOMAIN DeclAt(p, ns).consts : DeclAt(p, ns).consts[i].id = id

\* The names that constant id of declaration o rests on, each with the
\* declaration it means.
NeedsOf(p, o, id, seen) ==
    LET d == DeclAt(p, o)
        i == CHOOSE j \in DOMAIN d.consts : d.consts[j].id = id
        last == CHOOSE j \in 0 .. i : /\ j > 0 => d.consts[j].e # NoExpr
                                      /\ \A k \in j + 1 .. i : d.consts[k].e = NoExpr
    IN IF ~Declares(p, o, id) \/ <<o, id>> \in seen \/ last = 0 THEN {}
       ELSE Needs(p, d, d.consts[last].e, seen \cup {<<o, id>>})

Needs(p, d, e, seen) ==
    CASE e.t = "name" -> LET o == Owner(p, d.ns, d.doc, e.n)
                         IN {<<o, e.n>>} \cup NeedsOf(p, o, Last(e.n), seen)
      [] e.t = "bin" -> Needs(p, d, e.l, seen) \cup Needs(p, d, e.r, seen)
      [] e.t = "un" -> Needs(p, d, e.e, seen)
      [] e.t = "arr" -> UNION {Needs(p, d, e.es[i], seen) : i \in DOMAIN e.es}
      [] OTHER -> {}

\* What one constant, member or field needs.
NeedsFor(p, d, id) ==
    LET f == CHOOSE g \in Range(d.fields) : g.id = id
        k == CHOOSE g \in Range(d.consts) : g.id = id
        target == Owner(p, d.ns, d.doc, Append(f.enum, "_"))
    IN IF \E g \in Range(d.fields) : g.id = id
       THEN {<<target, f.e.n>>} \cup NeedsOf(p, target, Last(f.e.n), {})
       ELSE NeedsOf(p, d.ns, id, {}) \cup Needs(p, d, k.dim, {})

\* A simple name, or one that names nothing, which another interface declares.
Mistaken(p, o, n) ==
    /\ Len(n) = 1 \/ ~Declares(p, o, Last(n))
    /\ \E i \in DOMAIN p.decls : /\ p.decls[i].kind = "interface" /\ p.decls[i].ns # o
                                /\ Declares(p, p.decls[i].ns, Last(n))

Clear(p, d, id) == \A need \in NeedsFor(p, d, id) : ~Mistaken(p, need[1], need[2])

\* An array two elements of which need a name in common.
Repeats(p, d, id) ==
    \E k \in Range(d.consts) :
       /\ k.id = id /\ k.e.t = "arr"
       /\ \E i, j \in DOMAIN k.e.es :
             i # j /\ Needs(p, d, k.e.es[i], {}) \cap Needs(p, d, k.e.es[j], {}) # {}

-----------------------------------------------------------------------------
(* Properties *)

\* Every constant, default and discriminant generated is the one its names mean
\* where they are written, in whatever order the documents are compiled, unless
\* one of them is also a constant of another interface.
NamesAsMeant ==
    \A g \in out : LET d == DeclAt(prog, g.ns)
                  IN Clear(prog, d, g.id) => Numbers(g.v) = Numbers(MeantOf(prog, d, g.id))

\* A document is refused only for a constant that means nothing (a cycle, an
\* unknown name, an operation without a value), for a name that is also a
\* constant of another interface, or for an array that needs a name twice.
RefusedForCause ==
    \A i \in DOMAIN failed :
       LET d == DeclAt(prog, failed[i][1])  id == failed[i][2]
       IN \/ MeantOf(prog, d, id).t = "err"
          \/ ~Clear(prog, d, id) \/ Repeats(prog, d, id)

\* What pre-registration caches for an enum member is the discriminant it is
\* generated with: a member that could not be folded yet is folded later, never
\* frozen.
CacheAsMeant ==
    \A key \in DOMAIN cache :
       LET d == DeclAt(prog, key[1])
           m == MeantOf(prog, d, key[2])
       IN Clear(prog, d, key[2]) => cache[key].t = "ref" /\ m.t # "err" /\ cache[key].v = m.v

\* Names are resolved lexically in the two passes over the documents, and the
\* tables the passes share hold nothing else (SYMBOL_TABLE, ENUM_VALUE_CACHE
\* and lookup_name_from_resolver of parser.rs), but for the names of interface
\* constants that the tables do not tell apart.
ResolvesAsMeant == NamesAsMeant /\ RefusedForCause /\ CacheAsMeant
=============================================================================
