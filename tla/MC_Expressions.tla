-------------------------- MODULE MC_Expressions --------------------------
(***************************************************************************)
(* The programs of the Expressions runs: every kind of expression, alone   *)
(* and inside every context an expression can stand in, as a value, a      *)
(* target or an argument, in every kind of statement.                      *)
(***************************************************************************)
EXTENDS Expressions

N(x) == Node("name", <<x>>, <<>>)
a == N("a")
b == N("b")
c == N("c")
One == Node("const", <<"1">>, <<>>)
K == Node("const", <<"'k'">>, <<>>)
Op1(k, e) == Node(k, <<>>, <<e>>)
Op2(k, d, e) == Node(k, <<>>, <<d, e>>)
Attr(e, x) == Node("attr", <<x>>, <<e>>)
Sub(e, key) == Op2("sub", e, key)
F(args) == Node("call", <<>>, <<N("f")>> \o args)
Kw(e) == Node("kw", <<"k">>, <<e>>)
S1(e) == Op1("star", e)
S2(e) == Op1("dstar", e)
Plus(d, e) == Node("bin", <<"+">>, <<d, e>>)
Less(d, e) == Node("cmp", <<"<">>, <<d, e>>)
In(d, e) == Node("cmp", <<"in">>, <<d, e>>)
If(e, d, f) == Node("if", <<>>, <<e, d, f>>)
Walrus(e) == Node("walrus", <<"w">>, <<e>>)
Row(k, items) == Node(k, <<>>, items)
Pair(e) == Op2("pair", K, e)

\* What every hole can be filled with.
Plain == {a, Attr(a, "x"), Sub(a, b), Sub(a, Op2("slice", b, None)), F(<<b>>), F(<<S1(a)>>), F(<<a, S1(b)>>), F(<<a, S2(b)>>),
          F(<<Kw(a)>>), F(<<S1(a), Kw(b), S2(c)>>), Node("call", <<>>, <<Attr(a, "m"), b>>), Plus(a, b), Op1("neg", a), Op1("not", a),
          Row("tuple", <<a>>), Row("tuple", <<a, b>>), Row("tuple", <<S1(a), b>>), Row("list", <<a>>), Row("list", <<a, S1(b), c>>),
          Row("set", <<a>>), Row("dict", <<Pair(a)>>), Row("dict", <<Pair(a), S2(b)>>), Row("dict", <<S2(a), Pair(b)>>)}
Constants == {One, Op1("neg", One), Row("tuple", <<>>)}
Loose == {Less(a, b), In(a, b), Walrus(a), Op1("yield", a)}
Filling == Constants \cup Plain \cup Loose

\* An expression in every place of a larger one.  A conditional expression only comes back from some of
\* them: these are the ones where the prescan finds it.
AroundAny(e) ==
    {Sub(e, b), Sub(b, e), Sub(b, Op2("slice", e, None)), F(<<e>>), F(<<b, e>>), F(<<S1(e)>>),
     F(<<S1(b), e>>), F(<<S1(b), Kw(e)>>), Plus(e, b), Plus(b, e), Op1("neg", e), Op1("not", e), Less(e, b), Less(b, e),
     In(b, e), Row("tuple", <<e>>), Row("tuple", <<e, b>>), Row("list", <<e>>), Row("list", <<S1(b), e>>),
     Row("set", <<e, b>>), Row("dict", <<Pair(e)>>), Row("dict", <<S2(b), Pair(e)>>), Op1("yield", e)}
Around(e) ==
    AroundAny(e) \cup
    {Attr(e, "x"), Node("call", <<>>, <<e, b>>), Node("call", <<>>, <<Attr(e, "m"), b>>), F(<<Kw(e)>>), F(<<b, S1(e)>>), F(<<S2(e)>>),
     F(<<Kw(b), S2(e)>>), Walrus(e), Row("tuple", <<S1(e), b>>), Row("list", <<b, S1(e)>>), Row("dict", <<Pair(b), S2(e)>>)}
Conditionals == {If(a, b, c), If(Less(a, b), b, F(<<c>>)), If(In(a, b), Plus(b, c), Row("tuple", <<a, b>>))}

Set(targets, e) == Row("assign", Append(targets, e))
x == N("x")
y == N("y")
ay == Attr(a, "y")
InStatement(e) ==
    {Op1("expr", e), Set(<<x>>, e), Set(<<x, y>>, e), Set(<<ay>>, e), Set(<<ay, x>>, e), Set(<<x, ay, Sub(a, b)>>, e),
     Set(<<Row("tuple", <<x, y>>)>>, e), Set(<<Row("tuple", <<x, ay>>)>>, e), Set(<<y, Row("tuple", <<x, ay>>)>>, e),
     Set(<<y, Row("tuple", <<x, a>>)>>, e), Set(<<Row("tuple", <<x, S1(a)>>), y>>, e),
     Set(<<Row("tuple", <<x, ay>>), y>>, e), Set(<<Row("tuple", <<x, S1(ay)>>)>>, e), Set(<<Row("tuple", <<x, Row("tuple", <<y, ay>>)>>)>>, e),
     Set(<<Row("tuple", <<x, y>>)>>, Row("tuple", <<e, F(<<c>>)>>)), Set(<<Row("tuple", <<x, ay>>)>>, Row("tuple", <<b, e>>)),
     Set(<<Row("tuple", <<Sub(a, b), x, y>>)>>, Row("tuple", <<e, y, x>>)), Set(<<Row("tuple", <<x, y>>)>>, Row("tuple", <<y, e>>)),
     Set(<<Attr(e, "y")>>, b), Set(<<Sub(e, b)>>, c), Set(<<Sub(b, e)>>, c), Op2("aug", x, e), Op2("aug", ay, e), Op2("aug", Sub(b, e), c),
     Op2("aug", Attr(e, "y"), b), Op1("del", Attr(e, "y")), Op1("del", Sub(b, e)), Op1("return", e)}

----------------------------------------------------------------------------
(* What does not come back, and is left out here.                          *)

RECURSIVE Parts(_)
Parts(n) == {n} \cup UNION {Parts(n.c[m]) : m \in DOMAIN n.c}
Merged(n) == n.k = "dict" /\ Starred(n.c)
NegativeLiteral(n) == n.k = "neg" /\ n.c[1].k = "const"

\* The compiler computes it and never leaves it to the program.
Folded(n) ==
    \/ n.k = "expr" /\ n.c[1] \in Constants
    \/ n.k \in {"neg", "not"} /\ n.c[1] \in Constants /\ ~NegativeLiteral(n)
    \/ n.k = "not" /\ n.c[1].k = "cmp" /\ n.c[1].v = <<"in">>
    \/ n.k = "tuple" /\ n.c # <<>> /\ \A m \in DOMAIN n.c : n.c[m] \in Constants
\* A comparison is written without parentheses as an operand, a callee or the object of a store.
LosesItsGrouping(n) ==
    \/ n.k \in {"bin", "cmp"} /\ \E m \in DOMAIN n.c : n.c[m].k = "cmp"
    \/ n.k = "call" /\ (n.c[1].k = "cmp" \/ NegativeLiteral(n.c[1]))
    \/ n.k = "assign" /\ n.c[1].k = "attr" /\ (n.c[1].c[1].k = "cmp" \/ n.c[1].c[1] \in Constants)
\* A yield or an assignment expression is written without parentheses after f(*b, and after `**`.
Bared(n) ==
    /\ n.k = "call" /\ Starred(n.c)
    /\ \E m \in 2..Len(n.c) : \/ n.c[m].k \in {"kw", "dstar"} /\ n.c[m].c[1].k \in {"yield", "walrus"}
                              \/ n.c[m].k = "yield"
\* The same call or display with a display's items in the place of the display: other instructions,
\* the same values.
Spliced(n) ==
    \/ n.k = "star" /\ n.c[1].k = "tuple"
    \/ n.k = "dstar" /\ n.c[1].k = "dict"
\* A display with `**` counts as no plain value: it is not recognised as the value of several stores,
\* nor are a yield and an assignment expression as one of the values of a tuple assignment.
WrittenTwice(n) ==
    \/ n.k = "walrus" /\ Merged(n.c[1])
    \/ n.k = "assign" /\ Len(n.c) > 2 /\ Merged(Last(n.c))
    \/ n.k = "assign" /\ n.c[1] = Row("tuple", <<x, y>>) /\ Last(n.c).k = "tuple"
       /\ \E m \in DOMAIN Last(n.c).c : Merged(Last(n.c).c[m]) \/ Last(n.c).c[m].k \in {"yield", "walrus"}
\* The name given to a value that several targets share, one of them an unpacking into no names, stays bound
\* (SharedUnpackings below; TemporariesAreReleased says so).
NamesItsValue(n) ==
    /\ n.k = "assign" /\ \E m \in 1..Len(n.c) - 1 : n.c[m].k = "tuple" /\ \E d \in Parts(n.c[m]) : d.k = "attr"
    /\ Len(n.c) > 2 \/ Last(n.c).k = "walrus"

Missed(n) == Folded(n) \/ LosesItsGrouping(n) \/ Bared(n) \/ Spliced(n) \/ WrittenTwice(n) \/ NamesItsValue(n)
Statements ==
    UNION {InStatement(e) : e \in Filling}
    \cup {Set(<<x>>, e) : e \in UNION {Around(d) : d \in Filling} \cup UNION {AroundAny(d) : d \in Conditionals}}
    \cup {Op1(k, e) : k \in {"return"}, e \in Conditionals} \cup {Op2("aug", x, e) : e \in Conditionals}
MCPrograms == {<<s>> : s \in {t \in Statements : ~\E n \in Parts(t) : Missed(n)}}
MCFast == BOOLEAN

\* One value for a name and for an unpacking into more than names.
SharedUnpackings == {<<Set(<<y, Row("tuple", <<x, ay>>)>>, e)>> : e \in Plain}
\* A set display with a star in it.
StarredSets == {<<Set(<<x>>, Row("set", s))>> : s \in {<<S1(b)>>, <<a, S1(b)>>, <<S1(a), S1(b)>>}}
=============================================================================
