---------------------------- MODULE PythonText ----------------------------
(***************************************************************************)
(* What Python's parser makes of a line of source text.  The decompiler    *)
(* glues pieces of text together and asks ast.parse how the result reads;  *)
(* and what a line it wrote means is what the parser makes of it, so       *)
(* grouping is settled here and not by the good will of the model.         *)
(*                                                                         *)
(* A text is a sequence of tokens.  A node is its kind k, its words v (a   *)
(* name, operators), its children c, the token i it starts at (ast's       *)
(* col_offset) and the one j after its last; the parentheses around an     *)
(* expression are not part of its node.                                    *)
(***************************************************************************)
EXTENDS Integers, SequencesExt

Comparisons == {"<", "==", "in"}
Literals == {"1", "None", "'k'"}
Reserved == Comparisons \cup Literals \cup {"if", "else", "not", "yield", "del", "return", "(", ")", "[", "]", "{",
             "}", ",", ":", ".", "=", ":=", "+=", "+", "-", "*", "**", "end"}

T(t, i) == IF i <= Len(t) THEN t[i] ELSE "end"
IsName(w) == w \notin Reserved

Node(k, v, c) == [k |-> k, v |-> v, c |-> c, i |-> 0, j |-> 0]
None == Node("const", <<"None">>, <<>>)
\* A parser's result: the node it read from token i on, and the first token it did not take.
Got(k, v, c, i, at) == [n |-> [k |-> k, v |-> v, c |-> c, i |-> i, j |-> at], at |-> at]
Bad(i) == Got("bad", <<>>, <<>>, i, i)
Closed(r, by, t) == IF T(t, r.at) = by THEN [r EXCEPT !.at = r.at + 1] ELSE Bad(r.at)

RECURSIVE Broken(_), Dump(_), Assignable(_), Parse(_, _, _, _)

Broken(n) == n.k = "bad" \/ \E x \in DOMAIN n.c : Broken(n.c[x])
\* ast.dump: the node without the place it was read at.
Dump(n) == Node(n.k, n.v, [x \in DOMAIN n.c |-> Dump(n.c[x])])
Assignable(n) ==
    \/ n.k \in {"name", "attr", "sub"}
    \/ n.k \in {"tuple", "list", "star"} /\ \A x \in DOMAIN n.c : Assignable(n.c[x])

\* The rules of the grammar.  Each calls the others through Parse; `l` is what has been read of the
\* node or of the list so far, where a rule goes on from there.
Named(t, i) == Parse("named", t, i, <<>>)
Test(t, i) == Parse("test", t, i, <<>>)
NotTest(t, i) == Parse("not_test", t, i, <<>>)
Sums(t, i, l) == Parse("sums", t, i, l)
Compares(t, i, l) == Parse("compares", t, i, l)
Unary(t, i) == Parse("unary", t, i, <<>>)
Trailers(t, i, l) == Parse("trailers", t, i, l)
Items(t, i, close, acc) == Parse("items", t, i, [close |-> close, acc |-> acc])
Listed(t, i) == Parse("listed", t, i, <<>>)
Assigned(t, i, acc) == Parse("assigned", t, i, acc)

Yielded(t, i) ==
    LET r == Test(t, i + 1)
    IN  IF T(t, i + 1) \in {")", "end"} THEN Got("yield", <<>>, <<None>>, i, i + 1)
        ELSE Got("yield", <<>>, <<r.n>>, i, r.at)

NamedRule(t, i) ==
    LET r == Test(t, i + 2)
    IN  IF IsName(T(t, i)) /\ T(t, i + 1) = ":=" THEN Got("walrus", <<t[i]>>, <<r.n>>, i, r.at) ELSE Test(t, i)

TestRule(t, i) ==
    LET body == NotTest(t, i)
        cond == NotTest(t, body.at + 1)
        other == Test(t, cond.at + 1)
    IN  IF T(t, body.at) # "if" THEN body
        ELSE IF T(t, cond.at) # "else" THEN Bad(i)
        ELSE Got("if", <<>>, <<cond.n, body.n, other.n>>, i, other.at)

SumsRule(t, i, l) ==
    LET r == Unary(t, l.at + 1)
    IN  IF T(t, l.at) # "+" THEN l ELSE Sums(t, i, Got("bin", <<"+">>, <<l.n, r.n>>, i, r.at))
Sum(t, i) == Sums(t, i, Unary(t, i))

\* a < b < c is one comparison of three operands.
ComparesRule(t, i, l) ==
    LET r == Sum(t, l.at + 1)
    IN  IF T(t, l.at) \notin Comparisons THEN l
        ELSE Compares(t, i, Got("cmp", Append(l.n.v, t[l.at]), Append(l.n.c, r.n), i, r.at))

NotTestRule(t, i) ==
    LET r == NotTest(t, i + 1)
        first == Sum(t, i)
        all == Compares(t, i, Got("cmp", <<>>, <<first.n>>, i, first.at))
    IN  IF T(t, i) = "not" THEN Got("not", <<>>, <<r.n>>, i, r.at)
        ELSE IF all.n.v = <<>> THEN first ELSE all

\* One item of a display or of a call's arguments.
Item(t, i, close) ==
    LET starred == IF "call" \in close THEN Test(t, i + 1) ELSE Sum(t, i + 1)
        keyword == Test(t, i + 2)
        r == Named(t, i)
        value == Test(t, r.at + 1)
    IN  CASE T(t, i) = "*" -> Got("star", <<>>, <<starred.n>>, i, starred.at)
          [] T(t, i) = "**" -> Got("dstar", <<>>, <<starred.n>>, i, starred.at)
          [] "call" \in close /\ IsName(T(t, i)) /\ T(t, i + 1) = "=" -> Got("kw", <<t[i]>>, <<keyword.n>>, i, keyword.at)
          [] OTHER -> IF T(t, r.at) # ":" \/ r.n.k = "walrus" THEN r ELSE Got("pair", <<>>, <<r.n, value.n>>, i, value.at)

ItemsRule(t, i, close, acc) ==
    LET r == Item(t, i, close)
        all == Append(acc, r.n)
    IN  CASE T(t, i) \in close -> Got("items", IF acc = <<>> THEN <<>> ELSE <<",">>, acc, i, i)
          [] T(t, i) \notin close /\ T(t, r.at) = "," -> Items(t, r.at + 1, close, all)
          [] T(t, i) \notin close /\ T(t, r.at) \in close -> Got("items", <<>>, all, i, r.at)
          [] OTHER -> Bad(i)

Kinds(r) == {x.k : x \in Range(r.n.c)}
\* The expression a comma-separated list is: its only item, or a tuple.
Expression(r, i, at) ==
    IF r.n.k = "bad" \/ Kinds(r) \cap {"dstar", "kw", "pair"} # {} THEN Bad(i)
    ELSE IF Len(r.n.c) = 1 /\ r.n.v = <<>> /\ r.n.c[1].k # "star" THEN [n |-> r.n.c[1], at |-> at]
    ELSE Got("tuple", <<>>, r.n.c, i, at)

Atom(t, i) ==
    LET paren == Items(t, i + 1, {")"}, <<>>)
        bracket == Items(t, i + 1, {"]"}, <<>>)
        brace == Items(t, i + 1, {"}"}, <<>>)
    IN  CASE T(t, i) = "(" /\ T(t, i + 1) = "yield" -> Closed(Yielded(t, i + 1), ")", t)
          [] T(t, i) = "(" /\ T(t, i + 1) # "yield" -> Expression(paren, i, paren.at + 1)
          [] T(t, i) = "[" -> IF bracket.n.k = "bad" \/ Kinds(bracket) \cap {"dstar", "pair"} # {} THEN Bad(i)
                              ELSE Got("list", <<>>, bracket.n.c, i, bracket.at + 1)
          [] T(t, i) = "{" -> IF brace.n.k = "bad" THEN Bad(i)
                              ELSE IF Kinds(brace) \subseteq {"pair", "dstar"} THEN Got("dict", <<>>, brace.n.c, i, brace.at + 1)
                              ELSE IF Kinds(brace) \cap {"pair", "dstar"} # {} THEN Bad(i)
                              ELSE Got("set", <<>>, brace.n.c, i, brace.at + 1)
          [] T(t, i) \in Literals -> Got("const", <<t[i]>>, <<>>, i, i + 1)
          [] IsName(T(t, i)) -> Got("name", <<t[i]>>, <<>>, i, i + 1)
          [] OTHER -> Bad(i)

\* What stands between the brackets of a subscript: an expression, or the two ends of a slice.
Key(t, i) ==
    LET start == IF T(t, i) = ":" THEN [n |-> None, at |-> i] ELSE Named(t, i)
        stop == IF T(t, start.at + 1) = "]" THEN [n |-> None, at |-> start.at + 1] ELSE Named(t, start.at + 1)
    IN  IF T(t, start.at) = ":" THEN Got("slice", <<>>, <<start.n, stop.n>>, i, stop.at) ELSE start

TrailersRule(t, i, l) ==
    LET key == Key(t, l.at + 1)
        args == Items(t, l.at + 1, {")", "call"}, <<>>)
    IN  CASE T(t, l.at) = "." -> Trailers(t, i, IF IsName(T(t, l.at + 1))
                                                THEN Got("attr", <<t[l.at + 1]>>, <<l.n>>, i, l.at + 2) ELSE Bad(l.at + 2))
          [] T(t, l.at) = "[" -> Trailers(t, i, IF T(t, key.at) = "]"
                                                THEN Got("sub", <<>>, <<l.n, key.n>>, i, key.at + 1) ELSE Bad(key.at + 1))
          [] T(t, l.at) = "(" -> Trailers(t, i, IF args.n.k = "items" /\ "pair" \notin Kinds(args)
                                                THEN Got("call", <<>>, <<l.n>> \o args.n.c, i, args.at + 1) ELSE Bad(l.at + 1))
          [] OTHER -> l

UnaryRule(t, i) ==
    LET r == Unary(t, i + 1) IN
    IF T(t, i) = "-" THEN Got("neg", <<>>, <<r.n>>, i, r.at) ELSE Trailers(t, i, Atom(t, i))

Ends == {"=", "+=", "end"}
ListedRule(t, i) ==
    LET r == Items(t, i, Ends, <<>>) IN IF T(t, i) = "yield" THEN Yielded(t, i) ELSE Expression(r, i, r.at)

\* An expression statement, or an assignment to the targets in acc and the ones still to read.
AssignedRule(t, i, acc) ==
    LET r == Listed(t, i)
        value == Listed(t, r.at + 1)
        all == Append(acc, r.n)
    IN  CASE T(t, r.at) = "=" -> IF r.at > i THEN Assigned(t, r.at + 1, all) ELSE Bad(i)
          [] T(t, r.at) = "+=" -> Got("aug", <<>>, <<r.n, value.n>>, i, value.at)
          [] OTHER -> Got(IF acc = <<>> THEN "expr" ELSE "assign", <<>>, all, i, r.at)

Parse(rule, t, i, l) ==
    CASE rule = "named" -> NamedRule(t, i)
      [] rule = "test" -> TestRule(t, i)
      [] rule = "not_test" -> NotTestRule(t, i)
      [] rule = "sums" -> SumsRule(t, i, l)
      [] rule = "compares" -> ComparesRule(t, i, l)
      [] rule = "unary" -> UnaryRule(t, i)
      [] rule = "trailers" -> TrailersRule(t, i, l)
      [] rule = "items" -> ItemsRule(t, i, l.close, l.acc)
      [] rule = "listed" -> ListedRule(t, i)
      [] rule = "assigned" -> AssignedRule(t, i, l)

\* The node `r` read when it is the whole text; a node of kind "bad" where ast.parse raises SyntaxError.
Whole(t, r, Fits(_)) == IF r.at = Len(t) + 1 /\ ~Broken(r.n) /\ Fits(r.n) THEN r.n ELSE Bad(1).n
\* ast.parse(text, mode="eval").body: one expression or several, none of them starred or a bare `:=`.
ParseEval(t) ==
    LET r == Items(t, 1, {"end"}, <<>>)
        bare(n) == \/ n.k = "star"
                   \/ n.k = "walrus" /\ (n.i = 1 \/ t[n.i - 1] = ",")
    IN  IF r.n.k = "bad" \/ r.n.c = <<>> \/ \E x \in DOMAIN r.n.c : bare(r.n.c[x]) THEN Bad(1).n
        ELSE Whole(t, Expression(r, 1, r.at), LAMBDA n : TRUE)

\* The targets of a statement, and whether each is one.
Targets(n) ==
    CASE n.k = "assign" -> Front(n.c)
      [] n.k = "aug" -> <<n.c[1]>>
      [] n.k = "del" -> n.c
      [] OTHER -> <<>>
TargetsFit(n) == \A x \in DOMAIN Targets(n) : Assignable(Targets(n)[x])
Deleted(r) == Got("del", <<>>, r.n.c, 1, r.at)
Returned(r) == Got("return", <<>>, <<r.n>>, 1, r.at)
\* ast.parse(line).body[0]
ParseLine(t) ==
    CASE T(t, 1) = "del" -> Whole(t, Deleted(Items(t, 2, {"end"}, <<>>)), TargetsFit)
      [] T(t, 1) = "return" -> Whole(t, Returned(Test(t, 2)), TargetsFit)
      [] OTHER -> Whole(t, Assigned(t, 1, <<>>), TargetsFit)
============================================================================
