----------------------------- MODULE AidlConst -----------------------------
(***************************************************************************)
(* The values of AIDL constant expressions: integer literals               *)
(* (rsbinder-aidl/src/parser.rs, parse_intvalue) and the operators and      *)
(* conversions that fold them (const_expr.rs), next to what they mean: exact *)
(* arithmetic over the integers, refused when the promoted type cannot hold  *)
(* the result.                                                             *)
(*                                                                         *)
(* The widths of byte, int and long are parameters.  A constant is folded    *)
(* one operator at a time; every value of a narrow width is reachable, so    *)
(* chains of any length are covered.  Floats are left out.                  *)
(***************************************************************************)
EXTENDS Integers, Bitwise

CONSTANTS ByteBits, IntBits, LongBits,   \* the widths of i8, i32 and i64
          Numerals,                      \* the numbers literals are written with
          Chars,                         \* the code points of char literals
          EnumValues,                    \* the values of enum members used as operands
          EnumMixes                      \* they also stand where they are not compared as numbers, or beside a char

Range2(bits) == -(2 ^ (bits - 1)) .. 2 ^ (bits - 1) - 1
InWidth(v, bits) == v >= -(2 ^ (bits - 1)) /\ v < 2 ^ (bits - 1)

\* The "as" cast of Rust to a signed type of that many bits.
Cast(v, bits) == ((v + 2 ^ (bits - 1)) % 2 ^ bits) - 2 ^ (bits - 1)

\* ValueType: t is the variant, v its payload.  Refused is Err(ConstExprError).
Val(t, v) == [t |-> t, v |-> v]
Refused == [t |-> "err", v |-> 0]
Integral == {"bool", "byte", "int", "long", "ref"}

-----------------------------------------------------------------------------
(* Literals *)

\* n is the number the digits spell, under their own radix.
Unsigned(n, bits, t) == IF n < 2 ^ bits THEN Val(t, Cast(n, bits)) ELSE Refused

Decimal(n) ==
    IF InWidth(n, ByteBits) THEN Val("byte", n)
    ELSE IF InWidth(n, IntBits) THEN Val("int", n)
    ELSE IF InWidth(n, LongBits) THEN Val("long", n) ELSE Refused

ParseIntvalue(n, hex, suffix) ==
    CASE suffix = "u32" -> Unsigned(n, IntBits, "int")
      [] suffix = "u64" -> Unsigned(n, LongBits, "long")
      [] suffix = "u8" -> Unsigned(n, ByteBits, "byte")
      [] suffix = "l" /\ hex -> Unsigned(n, LongBits, "long")
      [] suffix = "l" /\ ~hex -> IF InWidth(n, LongBits) THEN Val("long", n) ELSE Refused
      [] suffix = "" /\ hex -> IF n < 2 ^ IntBits THEN Unsigned(n, IntBits, "int")
                               ELSE Unsigned(n, LongBits, "long")
      [] suffix = "" /\ ~hex -> Decimal(n)

-----------------------------------------------------------------------------
(* Conversions *)

\* order: the rank of a variant among the ones that occur here.
TypeOrder(t) == CASE t = "name" -> 1 [] t = "bool" -> 2 [] t = "byte" -> 3 [] t = "int" -> 4
              [] t = "long" -> 5 [] t = "char" -> 6 [] t = "string" -> 7 [] t = "arr" -> 10
              [] t = "ref" -> 18

\* to_i64 and to_bool refuse strings, arrays and unresolved names; to_bool
\* refuses enum members as well.
HasInt(x) == x.t \in Integral \cup {"char"}
HasBool(x) == x.t \in (Integral \cup {"char"}) \ {"ref"}
AsBool(x) == x.t = "char" \/ x.v # 0
Bool(b) == Val("bool", IF b THEN 1 ELSE 0)

\* Fault model: narrowing wraps instead of refusing.
NarrowWraps(v, bits, t) == Val(t, Cast(v, bits))

Narrow(v, bits, t) == IF InWidth(v, bits) THEN Val(t, v) ELSE Refused

\* convert_to a scalar type.  Only the length of a string is kept: every string
\* repeats one letter.
ConvertTo(x, t) ==
    CASE x.t = t \/ t = "ref" -> x
      [] t = "string" /\ x.t # "string" -> Val("string", 1)
      [] t = "bool" /\ x.t # "bool" -> IF HasBool(x) THEN Bool(AsBool(x)) ELSE Refused
      [] t = "byte" /\ x.t # "byte" -> IF HasInt(x) THEN Narrow(x.v, ByteBits, "byte") ELSE Refused
      [] t = "int" /\ x.t # "int" -> IF HasInt(x) THEN Narrow(x.v, IntBits, "int") ELSE Refused
      [] t = "long" /\ x.t # "long" -> IF HasInt(x) THEN Val("long", x.v) ELSE Refused
      [] t = "char" /\ x.t # "char" -> IF HasInt(x) /\ x.v \in Chars THEN Val("char", x.v) ELSE Refused

\* integral_promotion and type_conversion.
Promote(t) == IF TypeOrder(t) > TypeOrder("int") THEN t ELSE "int"

Promoted(l, r) ==
    LET a == Promote(l.t)  b == Promote(r.t)
    IN IF TypeOrder(a) >= TypeOrder(b) THEN a ELSE b

-----------------------------------------------------------------------------
(* Unary operators *)

WidthOf(t) == CASE t = "byte" -> ByteBits [] t = "int" -> IntBits [] OTHER -> LongBits

UnaryMinus(x) ==
    CASE x.t \in {"bool", "char"} -> x
      [] x.t \in {"byte", "int", "long"} -> IF InWidth(-x.v, WidthOf(x.t)) THEN Val(x.t, -x.v) ELSE Refused
      [] OTHER -> Refused

UnaryNot(x) ==
    CASE x.t = "char" -> x
      [] x.t = "bool" -> Bool(x.v = 0)
      [] x.t \in {"byte", "int", "long"} -> Val(x.t, -x.v - 1)
      [] OTHER -> Refused

LogicalNot(x) == IF HasBool(x) THEN Bool(~AsBool(x)) ELSE Refused

Unary(op, x) ==
    CASE op = "-" -> UnaryMinus(x)
      [] op = "~" -> UnaryNot(x)
      [] op = "!" -> LogicalNot(x)
      [] op = "+" -> IF x.t = "string" THEN Refused ELSE x

-----------------------------------------------------------------------------
(* Binary operators *)

\* The quotient and the remainder of Rust, towards zero.
Quot(a, b) == LET q == (IF a < 0 THEN -a ELSE a) \div (IF b < 0 THEN -b ELSE b)
              IN IF (a < 0) = (b < 0) THEN q ELSE -q
Rem(a, b) == a - b * Quot(a, b)

\* checked_add, checked_sub, checked_mul, checked_div and checked_rem of i64.
Checked(op, a, b) ==
    LET fits(v) == IF InWidth(v, LongBits) THEN Val("long", v) ELSE Refused
    IN CASE op = "+" -> fits(a + b)
         [] op = "-" -> fits(a - b)
         [] op = "*" -> fits(a * b)
         [] op = "/" -> IF b = 0 THEN Refused ELSE fits(Quot(a, b))
         [] op = "%" -> IF b = 0 \/ ~InWidth(Quot(a, b), LongBits) THEN Refused ELSE Val("long", Rem(a, b))

\* Fault model: the range check of int alone decides, as for a quotient.
RemOverflowsNever(op, a, b) == FALSE

\* INT32_MIN % -1 overflows although its remainder is in range.
RemOverflows(op, a, b) == op = "%" /\ a = -(2 ^ (IntBits - 1)) /\ b = -1

\* arithmetic_basic_op.
Basic(op, l, r, promoted) ==
    LET a == ConvertTo(l, promoted)
        b == ConvertTo(r, promoted)
    IN CASE a.t = "err" \/ b.t = "err" -> Refused
         [] a.t # "err" /\ b.t # "err" /\ promoted = "string" ->
               IF op = "+" /\ l.t = "string" /\ r.t = "string" THEN Val("string", a.v + b.v) ELSE Refused
         [] a.t # "err" /\ b.t # "err" /\ promoted = "int" ->
               LET v == Checked(op, a.v, b.v)
               IN IF v.t = "err" \/ ~InWidth(v.v, IntBits) \/ RemOverflows(op, a.v, b.v)
                  THEN Refused ELSE Val("int", v.v)
         [] a.t # "err" /\ b.t # "err" /\ promoted \in {"long", "ref"} ->
               IF HasInt(a) /\ HasInt(b) THEN Checked(op, a.v, b.v) ELSE Refused
         [] OTHER -> Refused

\* arithmetic_bit_op: on the i64 of the operands, cast to the promoted type.
BitOp(op, l, r, promoted) ==
    LET a == l.v % 2 ^ LongBits
        b == r.v % 2 ^ LongBits
        v == CASE op = "|" -> a | b [] op = "&" -> a & b [] op = "^" -> a ^^ b
    IN IF ~HasInt(l) \/ ~HasInt(r) THEN Refused
       ELSE CASE promoted = "int" -> Val("int", Cast(v, IntBits))
              [] promoted \in {"long", "ref"} -> Val("long", Cast(v, LongBits))
              [] OTHER -> Refused

\* leading_zeros of an unsigned number of that many bits.
LeadingZeros(v, bits) == CHOOSE z \in 0 .. bits : v % 2 ^ bits < 2 ^ (bits - z) /\ (z = bits \/ v % 2 ^ bits >= 2 ^ (bits - z - 1))

ShiftFits(v, n, bits) == n <= LeadingZeros(v, bits)

Shift(op, l, r, promoted) ==
    LET bits == IF promoted \in {"long", "ref"} THEN LongBits ELSE IntBits
        left == IF r.v < 0 THEN op = ">>" ELSE op = "<<"
        n == IF r.v < 0 THEN -r.v ELSE r.v
        v == IF left THEN Cast(l.v * 2 ^ n, LongBits) ELSE l.v \div 2 ^ n
    IN IF \/ ~HasInt(l) \/ ~HasInt(r)
          \/ n >= bits \/ l.v < 0 \/ (left /\ ~ShiftFits(l.v, n, bits))
       THEN Refused
       ELSE CASE promoted = "int" -> Val("int", Cast(v, IntBits))
              [] promoted \in {"long", "ref"} -> Val("long", v)
              [] OTHER -> Refused

\* partial_cmp after both sides were converted: "lt", "eq", "gt", or "none" for
\* an enum member on the left, or beside a bool.  Beside an enum member the left
\* side keeps its own type, and the member is cast to it.
Compare(a, b) ==
    LET v == IF a.t \in {"byte", "int", "long"} THEN Cast(b.v, WidthOf(a.t)) ELSE b.v
    IN IF a.t = "ref" \/ (a.t = "bool" /\ ~HasBool(b)) THEN "none"
       ELSE IF a.v < v THEN "lt" ELSE IF a.v = v THEN "eq" ELSE "gt"

Comparisons == {"==", "!=", "<=", ">=", "<", ">"}

Comparison(op, l, r, promoted) ==
    LET a == ConvertTo(l, promoted)
        b == ConvertTo(r, promoted)
        c == Compare(a, b)
    IN IF a.t = "err" \/ b.t = "err" THEN Refused
       ELSE Bool(CASE op = "==" -> c = "eq" [] op = "!=" -> c # "eq"
                   [] op = "<=" -> c \in {"lt", "eq"} [] op = ">=" -> c \in {"gt", "eq"}
                   [] op = "<" -> c = "lt" [] op = ">" -> c = "gt")

\* || and && do not look at the right operand when the left one decides.
Logical(op, l, r) ==
    IF ~HasBool(l) THEN Refused
    ELSE IF AsBool(l) = (op = "||") THEN Bool(op = "||")
    ELSE IF HasBool(r) THEN Bool(AsBool(r)) ELSE Refused

\* calc_expr, once its operands are calculated.
Binary(op, l, r) ==
    LET promoted == Promoted(l, r)
    IN CASE op \in {"||", "&&"} -> Logical(op, l, r)
         [] op \in {"|", "&", "^"} -> BitOp(op, l, r, promoted)
         [] op \in Comparisons -> Comparison(op, l, r, promoted)
         [] op \in {"<<", ">>"} -> Shift(op, l, r, promoted)
         [] op \in {"+", "-", "*", "/", "%"} -> Basic(op, l, r, promoted)

-----------------------------------------------------------------------------
(* What the expressions mean: exact integers with a type, the result of an   *)
(* operator defined when the type its operands are promoted to can hold it.  *)

MeantLiteral(n, hex, suffix) ==
    LET bits == CASE suffix = "u8" -> ByteBits [] suffix = "u32" -> IntBits
                  [] suffix = "u64" -> LongBits [] suffix = "l" -> LongBits
                  [] OTHER -> IF hex THEN (IF n < 2 ^ IntBits THEN IntBits ELSE LongBits)
                              ELSE CHOOSE b \in {ByteBits, IntBits, LongBits} :
                                      /\ n < 2 ^ (b - 1) \/ b = LongBits
                                      /\ \A c \in {ByteBits, IntBits} : c < b => n >= 2 ^ (c - 1)
        t == CASE bits = ByteBits -> "byte" [] bits = IntBits -> "int" [] bits = LongBits -> "long"
        pattern == hex \/ suffix \in {"u8", "u32", "u64"}
    IN IF n >= (IF pattern THEN 2 ^ bits ELSE 2 ^ (bits - 1)) THEN Refused
       ELSE Val(t, IF n >= 2 ^ (bits - 1) THEN n - 2 ^ bits ELSE n)

\* Operands that the exact meaning speaks of.  char and string operands under
\* logical, mixed comparison and sign operators, which the compiler lets pass,
\* are not among them, nor are enum members under logical operators, which it
\* refuses, nor the comparisons of enum members that it does not make between
\* numbers: with the member on the left, with a bool, and with a byte or an int
\* too narrow for the member (where 44 == E.A holds although E.A is 300).
ComparesNumbers(l, r) ==
    /\ l.t # "ref"
    /\ r.t = "ref" => l.t # "bool" /\ InWidth(r.v, WidthOf(l.t))
Speaks1(op, x) == x.t \in {"byte", "int", "long"} \/ (op = "!" /\ x.t = "bool") \/ x.t = "string"

Speaks2(op, l, r) ==
    \/ /\ l.t \in Integral /\ r.t \in Integral
       /\ op \in {"||", "&&"} => "ref" \notin {l.t, r.t}
       /\ op \in Comparisons => ComparesNumbers(l, r) \/ EnumMixes
    \/ op \in {"==", "!="} /\ l.t = r.t /\ l.t \notin Integral
    \/ op \notin {"||", "&&"} \cup Comparisons /\ ({l.t, r.t} # {"char", "ref"} \/ EnumMixes)

MeantUnary(op, x) ==
    IF x.t = "string" THEN Refused
    ELSE CASE op = "!" -> Bool(x.v = 0)
           [] op = "+" -> x
           [] op = "-" -> IF -x.v \in Range2(WidthOf(x.t)) THEN Val(x.t, -x.v) ELSE Refused
           [] op = "~" -> Val(x.t, -1 - x.v)

\* The bits of an integer, the sign repeated for ever.
Bit(v, i) == (v \div 2 ^ i) % 2
FromBits(bit(_), bits) ==
    LET sum[i \in 0 .. bits - 1] == (IF i = 0 THEN 0 ELSE sum[i - 1]) + bit(i) * 2 ^ i
    IN sum[bits - 2] - bit(bits - 1) * 2 ^ (bits - 1)

MeantBinary(op, l, r) ==
    LET long == "long" \in {l.t, r.t} \/ "ref" \in {l.t, r.t}
        t == IF long THEN "long" ELSE "int"
        bits == WidthOf(t)
        fits(v) == IF v \in Range2(bits) THEN Val(t, v) ELSE Refused
        shl(v, n) == IF v * 2 ^ n >= 2 ^ bits THEN Refused
                     ELSE Val(t, IF v * 2 ^ n >= 2 ^ (bits - 1) THEN v * 2 ^ n - 2 ^ bits ELSE v * 2 ^ n)
        shr(v, n) == Val(t, v \div 2 ^ n)
        amount == IF r.v < 0 THEN -r.v ELSE r.v
        integers == l.t \in Integral /\ r.t \in Integral
    IN CASE op \in {"==", "!="} /\ ~integers -> Bool((l.v = r.v) = (op = "=="))
         [] op = "+" /\ l.t = "string" /\ r.t = "string" -> Val("string", l.v + r.v)
         [] ~integers /\ op \notin {"==", "!="} /\ ~(op = "+" /\ l.t = "string" /\ r.t = "string") -> Refused
         [] integers -> CASE op = "||" -> Bool(l.v # 0 \/ r.v # 0)
              [] op = "&&" -> Bool(l.v # 0 /\ r.v # 0)
              [] op = "|" -> Val(t, FromBits(LAMBDA i : IF Bit(l.v, i) = 1 \/ Bit(r.v, i) = 1 THEN 1 ELSE 0, bits))
              [] op = "&" -> Val(t, FromBits(LAMBDA i : IF Bit(l.v, i) = 1 /\ Bit(r.v, i) = 1 THEN 1 ELSE 0, bits))
              [] op = "^" -> Val(t, FromBits(LAMBDA i : IF Bit(l.v, i) # Bit(r.v, i) THEN 1 ELSE 0, bits))
              [] op = "==" -> Bool(l.v = r.v)
              [] op = "!=" -> Bool(l.v # r.v)
              [] op = "<=" -> Bool(l.v <= r.v)
              [] op = ">=" -> Bool(l.v >= r.v)
              [] op = "<" -> Bool(l.v < r.v)
              [] op = ">" -> Bool(l.v > r.v)
              [] op = "+" -> fits(l.v + r.v)
              [] op = "-" -> fits(l.v - r.v)
              [] op = "*" -> fits(l.v * r.v)
              [] op = "/" -> IF r.v = 0 THEN Refused ELSE fits(Quot(l.v, r.v))
              [] op = "%" -> IF r.v = 0 \/ fits(Quot(l.v, r.v)).t = "err" THEN Refused ELSE fits(Rem(l.v, r.v))
              [] op \in {"<<", ">>"} ->
                   IF l.v < 0 \/ amount >= bits THEN Refused
                   ELSE IF (op = "<<") = (r.v >= 0) THEN shl(l.v, amount) ELSE shr(l.v, amount)

-----------------------------------------------------------------------------
(* Folding a constant, next to its meaning *)

VARIABLES folded,   \* the compiler's value of the expression so far
          meant,    \* its meaning
          emitted   \* per declared type, what the generated constant gets
constVars == <<folded, meant, emitted>>

\* A literal, and the value an enum member or a bool, char or string spells.
Literals ==
    {<<ParseIntvalue(n, hex, suffix), MeantLiteral(n, hex, suffix)>> :
        n \in Numerals, hex \in BOOLEAN, suffix \in {"", "u8", "u32", "u64", "l"}}
Others ==
    {Val("bool", 0), Val("bool", 1), Val("string", 1)} \cup {Val("char", c) : c \in Chars}
    \cup {Val("ref", v) : v \in EnumValues}
Operands == Literals \cup {<<x, x>> : x \in Others}
Written == {p \in Operands : p[1].t # "err"}

Targets == {"byte", "int", "long"}
Emitted(x) == [t \in Targets |-> IF HasInt(x) THEN ConvertTo(x, t) ELSE Refused]

FoldTo(x, m) ==
    /\ folded' = x
    /\ meant' = m
    /\ emitted' = Emitted(x)

ConstStart(p) ==
    /\ folded = p[1]
    /\ meant = p[2]
    /\ emitted = Emitted(p[1])

ConstInit == \E p \in Operands : ConstStart(p)

\* Strings are kept short.
Short(x) == x.t # "string" \/ x.v <= 2

FoldUnary(op) ==
    /\ folded.t # "err" /\ meant.t # "err"
    /\ Speaks1(op, meant)
    /\ FoldTo(Unary(op, folded), MeantUnary(op, meant))

FoldLeft2(op, p) ==
    /\ folded.t # "err" /\ meant.t # "err"
    /\ Speaks2(op, meant, p[2]) /\ Short(folded)
    /\ FoldTo(Binary(op, folded, p[1]), MeantBinary(op, meant, p[2]))

FoldRight2(op, p) ==
    /\ folded.t # "err" /\ meant.t # "err"
    /\ Speaks2(op, p[2], meant) /\ Short(folded)
    /\ FoldTo(Binary(op, p[1], folded), MeantBinary(op, p[2], meant))

UnaryOps == {"-", "~", "!", "+"}
BinaryOps == {"||", "&&", "|", "&", "^", "<<", ">>", "+", "-", "*", "/", "%"} \cup Comparisons

ConstNext ==
    \/ \E op \in UnaryOps : FoldUnary(op)
    \/ \E op \in BinaryOps, p \in Written : FoldLeft2(op, p) \/ FoldRight2(op, p)

ConstSpec == ConstInit /\ [][ConstNext]_constVars

-----------------------------------------------------------------------------
(* Properties *)

\* The compiler folds every expression to its exact meaning, in the type the
\* operands promote to, or refuses it, and it refuses only what has no value in
\* that type: overflow, division by zero, a shift past the width or of a
\* negative number, an operand that is not a number.
FoldsAsMeant == folded = meant

\* The constant generated for a declared type is the meaning of the expression
\* or the declaration is refused: narrowing never changes a value, and never
\* refuses one that fits.
EmittedAsMeant ==
    \A t \in Targets :
       IF HasInt(meant) /\ meant.v \in Range2(WidthOf(t)) THEN emitted[t].v = meant.v /\ emitted[t].t = t
       ELSE emitted[t].t = "err"

\* From the literals to the generated constant nothing changes an expression's
\* value (calculate, parse_intvalue and convert_to of const_expr.rs).
ConstantsAsMeant == FoldsAsMeant /\ EmittedAsMeant
=============================================================================
