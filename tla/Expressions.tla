---------------------------- MODULE Expressions ----------------------------
(***************************************************************************)
(* The instructions with no jump: how the 3.11 backend turns loads,        *)
(* operators, calls, displays, unpackings and stores into lines of source  *)
(* (decompiler/generic.py, py311.py, base.py, expr.py).                    *)
(*                                                                         *)
(* The decompiler keeps text on its stack, not trees.  A few values carry  *)
(* more than their text, as the str subclasses of expr.py do:              *)
(*   null      the sentinel under a callable                               *)
(*   chained   a value several stores take; chains[id] is the row its      *)
(*             first store wrote (0: none) and the name it was given       *)
(*   accessor  a temporary that one target of an unpacking receives        *)
(*   merged    a dict display built by {k: v, **d}                         *)
(*   yield     a yield, in parentheses                                     *)
(* Everything else is a str.  Lines are sequences of tokens; `pc` indexes  *)
(* the next instruction, and a handler may move it past ones it has used.  *)
(***************************************************************************)
EXTENDS StraightCode, FiniteSets

CONSTANTS Programs,     \* the statements to be compiled: sequences of nodes
          Fast          \* whether names are stored as a function's locals

ASSUME FastAssumption == Fast \subseteq BOOLEAN

VARIABLES program,      \* what was compiled
          code,         \* self.instructions
          self          \* the rest of the decompiler

vars == <<program, code, self>>

Kept(kind, t) == [k |-> kind, t |-> t, id |-> 0]
Str(t) == Kept("str", t)
Null == Kept("null", <<>>)
NoBatch == [first |-> 0, reverse |-> FALSE, last |-> 0]
Fresh == [pc |-> 1, stack |-> <<>>, lines |-> <<>>, kw_names |-> <<>>, tuple_assign |-> NoBatch,
          groups |-> <<>>, chains |-> <<>>, issued |-> 0]

Push(s, v) == [s EXCEPT !.stack = Append(@, v)]
PushText(s, t) == Push(s, Str(t))
Drop(s, n) == [s EXCEPT !.stack = Below(@, n)]
Arg(s, n) == s.stack[Len(s.stack) - n + 1]
Write(s, line) == [s EXCEPT !.lines = Append(@, line)]
Wrapped(t) == <<"(">> \o t \o <<")">>
\* _YieldExpr.bare; the text itself for anything else.
Bare(v) == IF v.k = "yield" THEN SubSeq(v.t, 2, Len(v.t) - 1) ELSE v.t
RECURSIVE Joined(_)
Joined(parts) ==
    IF parts = <<>> THEN <<>> ELSE IF Len(parts) = 1 THEN parts[1] ELSE parts[1] \o <<",">> \o Joined(Tail(parts))
Texts(vals) == [x \in DOMAIN vals |-> vals[x].t]
Segment(t, n) == SubSeq(t, n.i, n.j - 1)        \* ast.get_source_segment

----------------------------------------------------------------------------
(* Grouping: what is put in parentheses before it is glued to its neighbours. *)

WrapNegativeLiteral(t) == IF t[1] \in {"-", "1"} /\ Len(t) <= 2 THEN Wrapped(t) ELSE t
\* A node of one of the `loose` kinds that is not in parentheses: it starts with its text.
Ungrouped(node, loose) == node.k \in loose /\ node.i = 1
WrapIf(t, loose) == IF Ungrouped(ParseEval(t), loose) THEN Wrapped(t) ELSE t
Receiver(t) == WrapIf(WrapNegativeLiteral(t), {"cmp", "if", "walrus", "bin", "neg", "not", "yield"})
Comparand(t) == WrapIf(t, {"if", "walrus"})
ParenthesizeCallee(t) == IF ParseEval(t).k = "if" THEN Wrapped(t) ELSE t
\* Whether one pair of parentheses spans the whole text.
Grouped(t) ==
    LET depth(m) == Len(SelectSeq(SubSeq(t, 1, m), LAMBDA w : w = "(")) - Len(SelectSeq(SubSeq(t, 1, m), LAMBDA w : w = ")"))
    IN  t[1] = "(" /\ Last(t) = ")" /\ \A m \in 1..Len(t) - 1 : depth(m) > 0
OperandOf(t, node) ==
    IF \/ node.k \in {"name", "attr", "sub", "call", "const"} \/ Grouped(t)
       \/ node.k \in {"list", "set", "dict", "tuple"} /\ t[1] \in {"(", "[", "{"}
    THEN t ELSE Wrapped(t)
UnaryOperand(t) == OperandOf(t, ParseEval(t))

\* The text of the node `n` without the parentheses around it, where it still reads as that node: as
\* the `Child` of what stands between `open` and `close`.
SameChild(probe, n, Child(_)) == probe.k # "bad" /\ Len(probe.c) = 1 /\ Dump(Child(probe.c[1])) = Dump(n)
KeptItem(t, n, open, close, Child(_)) ==
    IF SameChild(ParseEval(open \o Segment(t, n) \o close), n, Child) THEN Segment(t, n) ELSE Wrapped(Segment(t, n))
DisplayItem(t, n) ==
    CASE n.k = "pair" -> KeptItem(t, n.c[1], <<"{">>, <<":", "1", "}">>, LAMBDA p : p.c[1]) \o <<":">>
                         \o KeptItem(t, n.c[2], <<"{", "1", ":">>, <<"}">>, LAMBDA p : p.c[2])
      [] n.k = "dstar" -> <<"**">> \o KeptItem(t, n.c[1], <<"{", "**">>, <<"}">>, LAMBDA p : p.c[1])
      [] OTHER -> KeptItem(t, n, <<"[">>, <<"]">>, LAMBDA p : p)
\* The items of the display `t` is, each as text that still reads as that item; <<>> in a
\* sequence of its own when `t` is not such a display.
ItemsOf(t, node, kind) ==
    IF node.k # kind THEN <<>> ELSE <<Joined([x \in DOMAIN node.c |-> DisplayItem(t, node.c[x])])>>
DisplayItems(t, kind) == ItemsOf(t, ParseEval(t), kind)

\* Slip: the star is put before any text.
UnpackedBare(star, t) == <<star>> \o t
Unpacked(star, t) ==
    LET open == IF star = "*" THEN <<"[">> ELSE <<"{">>
        close == IF star = "*" THEN <<"]">> ELSE <<"}">>
    IN  IF SameChild(ParseEval(open \o <<star>> \o t \o close), ParseEval(t), LAMBDA p : p.c[1])
        THEN <<star>> \o t ELSE <<star>> \o Wrapped(t)

----------------------------------------------------------------------------
(* Tuple assignments: stores that belong to one statement.                 *)

Stores == {"STORE", "STORE_ATTR", "STORE_SUBSCR"}
Loads == {"LOAD", "LOAD_CONST", "LOAD_GLOBAL", "LOAD_ATTR", "LOAD_METHOD"}
Op(k) == IF k \in DOMAIN code THEN code[k].op ELSE "none"
RotationSize(i) == IF i.op = "SWAP" THEN i.a ELSE 0
\* The first instruction from `k` on whose name is not in `ops`.
Past(k, ops) == Min({m \in k..Len(code) + 1 : Op(m) \notin ops})

TupleAssignSize(s, i) ==
    LET first == Past(s.pc, {"SWAP"})
        at == Past(first, Loads \cup {"BINARY_SUBSCR", "BUILD_SLICE"})
    IN  IF Op(at) \notin Stores \/ (at = first /\ Op(at) # "STORE") THEN 0
        ELSE Max({RotationSize(i)} \cup {RotationSize(code[m]) : m \in s.pc..first - 1})

BeginTupleAssign(s, size, reverse, start) ==
    LET end == Past(start, Stores \cup Loads \cup {"BINARY_SUBSCR", "BUILD_SLICE", "SWAP"})
        stores == {m \in start..end - 1 : Op(m) \in Stores}
        reach == {m \in stores : Cardinality({l \in stores : l <= m}) = size}
    IN  IF s.tuple_assign # NoBatch \/ size < 2 \/ reach = {} THEN s
        ELSE [s EXCEPT !.tuple_assign = [first |-> Len(s.lines), reverse |-> reverse, last |-> Max(reach)]]

\* Slip: the stores of names are taken to be in the order of the values.
BeginNameBatchForwards(s) ==
    BeginTupleAssign(s, Past(s.pc - 1, {"STORE"}) - s.pc + 1, FALSE, s.pc - 1)
BeginNameBatch(s) ==
    LET start == s.pc - 1
        count == Past(start, {"STORE"}) - start
        waiting == Top(s.stack, count)
    IN  IF /\ count >= 2 /\ Len(s.stack) >= count
           /\ \A x \in DOMAIN waiting : waiting[x].k = "str"
           /\ Op(start - 1) \notin {"UNPACK_SEQUENCE", "UNPACK_EX"}
        THEN BeginTupleAssign(s, count, TRUE, start) ELSE s

\* One statement for the `rows`, which read as `nodes`; no text when one of them is no assignment.
OneAssignment(rows, nodes, Ordered(_)) ==
    LET target(x) == Segment(rows[x], nodes[x].c[1])
        value(x) == LET n == nodes[x].c[2]
                    IN  IF n.k \in {"walrus", "yield"} THEN Wrapped(Segment(rows[x], n)) ELSE Segment(rows[x], n)
    IN  IF (\E x \in DOMAIN nodes : nodes[x].k # "assign" \/ Len(nodes[x].c) # 2) \/ Len(rows) < 2 THEN <<>>
        ELSE Joined(Ordered([x \in DOMAIN rows |-> target(x)])) \o <<"=">> \o Joined(Ordered([x \in DOMAIN rows |-> value(x)]))
ReplaceRows(s, first, line) ==
    [s EXCEPT !.tuple_assign = NoBatch, !.lines = IF line = <<>> THEN @ ELSE Append(SubSeq(@, 1, first), line)]
FinishTupleAssign(s) ==
    LET b == s.tuple_assign
        rows == SubSeq(s.lines, b.first + 1, Len(s.lines))
        Ordered(parts) == IF b.reverse THEN Reverse(parts) ELSE parts
    IN  ReplaceRows(s, b.first, OneAssignment(rows, [x \in DOMAIN rows |-> ParseLine(rows[x])], Ordered))

EndsWith(t, tail) == Len(tail) <= Len(t) /\ SubSeq(t, Len(t) - Len(tail) + 1, Len(t)) = tail
\* `target = value`, or one more target for the row an earlier store of the same value wrote.
EmitAssignment(s, target, v) ==
    LET chain == s.chains[v.id]
        row == s.lines[chain.row]
        shared == [s EXCEPT !.lines[chain.row] = SubSeq(row, 1, Len(row) - Len(v.t)) \o target \o <<"=">> \o v.t]
        written == Write(s, target \o <<"=">> \o (IF chain.alias = <<>> THEN v.t ELSE chain.alias))
    IN  IF v.k # "chained" THEN Write(s, target \o <<"=">> \o Bare(v))
        ELSE IF chain.row # 0 /\ chain.row = Len(s.lines) /\ EndsWith(row, <<"=">> \o v.t) THEN shared
        ELSE IF chain.alias # <<>> THEN written
        ELSE [written EXCEPT !.chains[v.id].row = Len(written.lines)]

----------------------------------------------------------------------------
(* Handlers.  `s` is the decompiler with pc past the instruction `i`.       *)

OpLoad(s, i) == IF i.op = "LOAD_GLOBAL" THEN PushText(Push(s, Null), i.n) ELSE PushText(s, i.n)

OpStore(s0, i) ==
    LET s == BeginNameBatch(s0)
        v == Arg(s, 1)
    IN  IF s.stack = <<>> THEN s
        ELSE IF v.t = i.n THEN Drop(s, 1) ELSE EmitAssignment(Drop(s, 1), i.n, v)
OpStoreAttr(s, i) ==
    IF Len(s.stack) < 2 THEN s ELSE EmitAssignment(Drop(s, 2), Arg(s, 1).t \o <<".">> \o i.n, Arg(s, 2))
Subscript(container, key) == Receiver(container.t) \o <<"[">> \o key.t \o <<"]">>
OpStoreSubscr(s, i) ==
    IF Len(s.stack) < 3 THEN s ELSE EmitAssignment(Drop(s, 3), Subscript(Arg(s, 2), Arg(s, 1)), Arg(s, 3))

OpDelete(s, i) ==
    CASE i.op = "DELETE" -> Write(s, <<"del">> \o i.n)
      [] i.op = "DELETE_ATTR" -> Write(Drop(s, 1), <<"del">> \o Receiver(Arg(s, 1).t) \o <<".">> \o i.n)
      [] i.op = "DELETE_SUBSCR" -> Write(Drop(s, 2), <<"del">> \o Subscript(Arg(s, 2), Arg(s, 1)))

\* Whether the duplicated value is stored again right away, from `k` on: the next store takes it with
\* only the operands of its own target in between.
RECURSIVE ChainFollows(_, _)
ChainFollows(k, depth) ==
    CASE Op(k) \in {"STORE", "UNPACK_SEQUENCE", "UNPACK_EX"} -> depth = 0
      [] Op(k) = "COPY" -> code[k].a = 1 /\ depth = 0
      [] Op(k) = "STORE_ATTR" -> depth = 1
      [] Op(k) = "STORE_SUBSCR" -> depth = 2
      [] Op(k) = "PUSH_NULL" -> ChainFollows(k + 1, depth)
      [] Op(k) \in Loads -> ChainFollows(k + 1, depth + 1)
      [] Op(k) \in {"BINARY_OP", "BINARY_SUBSCR", "BUILD_SLICE"} /\ depth >= 2 -> ChainFollows(k + 1, depth - 1)
      [] OTHER -> FALSE
ChainOperands == Loads \cup {"BINARY_OP", "BINARY_SUBSCR", "BUILD_SLICE", "PUSH_NULL", "KW_NAMES", "CALL",
                             "BUILD_TUPLE", "BUILD_LIST"}
StoredNext(s) == Op(Past(s.pc, ChainOperands)) \in Stores \cup {"UNPACK_SEQUENCE", "UNPACK_EX"}

SetTop(s, v) == [s EXCEPT !.stack = Append(Front(@), v)]
\* COPY 1: an assignment expression, a value that several stores take, or just a second reference.
DuplicateTop(s) ==
    LET v == Arg(s, 1)
        plain == v.k \in {"str", "yield"}
        named == SetTop(s, Str(<<"(">> \o code[s.pc].n \o <<":=">> \o v.t \o <<")">>))
        chained == [k |-> "chained", t |-> Bare(v), id |-> Len(s.chains) + 1]
        marked == [SetTop(s, chained) EXCEPT !.chains = Append(@, [row |-> 0, alias |-> <<>>])]
    IN  IF plain /\ Op(s.pc) = "STORE" /\ ~ChainFollows(s.pc + 1, 0) THEN [named EXCEPT !.pc = s.pc + 1]
        ELSE IF plain /\ StoredNext(s) THEN Push(marked, chained)
        ELSE Push(s, v)

OpStackManip(s0, i) ==
    LET prev == s0.pc - 2
        s == IF Op(prev) = "SWAP" THEN s0 ELSE BeginTupleAssign(s0, TupleAssignSize(s0, i), FALSE, s0.pc)
        n == Len(s.stack)
        m == n - i.a + 1
    IN  CASE i.op = "SWAP" -> IF i.a > 1 /\ n >= i.a
                              THEN [s EXCEPT !.stack = [s.stack EXCEPT ![n] = s.stack[m], ![m] = s.stack[n]]] ELSE s
          [] i.op = "COPY" /\ i.a = 1 -> IF n > 0 THEN DuplicateTop(s) ELSE s
          [] i.op = "COPY" /\ i.a > 1 -> IF n >= i.a THEN Push(s, s.stack[m]) ELSE s

----------------------------------------------------------------------------
(* Operators.                                                              *)

Tokens(t) == Range(t)
OpBinary(s, i) ==
    LET side(v) == IF {"if", "else"} \subseteq Tokens(v.t) THEN Wrapped(v.t) ELSE v.t
    IN  IF Len(s.stack) < 2 THEN s ELSE PushText(Drop(s, 2), Wrapped(side(Arg(s, 2)) \o i.n \o side(Arg(s, 1))))

\* Whether `store` writes back to what the text `left` reads.
MatchAugassignStore(left, store) ==
    IF store.op = "STORE_SUBSCR" THEN "[" \in Tokens(left) /\ Last(left) = "]"
    ELSE Last(left) = store.n[1] /\ (Len(left) = 1 \/ left[Len(left) - 1] = ".")
\* The operands of its target that lie under the value a store writes back.
\* Slip: an index is forgotten.
HeldObject(op) == IF op \in {"STORE_ATTR", "STORE_SUBSCR"} THEN 1 ELSE 0
Held(op) == CASE op = "STORE_ATTR" -> 1 [] op = "STORE_SUBSCR" -> 2 [] OTHER -> 0
\* `left += right`: the statement itself when the store that follows writes it back.
OpInplace(s, i) ==
    LET left == Arg(s, 2).t
        right == Arg(s, 1).t
        at == Past(s.pc, {"SWAP"})
        held == Held(Op(at))
        rest == Drop(s, 2)
    IN  IF Len(s.stack) < 2 THEN s
        ELSE IF Op(at) \in Stores /\ MatchAugassignStore(left, code[at])
        THEN [Write(IF Len(rest.stack) >= held THEN Drop(rest, held) ELSE rest, left \o i.n \o right) EXCEPT !.pc = at + 1]
        ELSE PushText(rest, Wrapped(left \o i.n \o right))

OpCompare(s, i) ==
    IF Len(s.stack) < 2 THEN s
    ELSE PushText(Drop(s, 2), Comparand(Arg(s, 2).t) \o i.n \o Comparand(Arg(s, 1).t))
OpUnary(s, i) == IF s.stack = <<>> THEN s ELSE PushText(Drop(s, 1), Wrapped(i.n \o UnaryOperand(Arg(s, 1).t)))
\* The arms and the test of a conditional expression, once the prescan has found its jumps.
ConditionalTernary(s) ==
    PushText(Drop(s, 3), Arg(s, 2).t \o <<"if">> \o Arg(s, 3).t \o <<"else">> \o Arg(s, 1).t)

OpBinarySubscr(s) == IF Len(s.stack) < 2 THEN s ELSE PushText(Drop(s, 2), Subscript(Arg(s, 2), Arg(s, 1)))
OpBuildSlice(s) ==
    LET end(v) == IF v.t = <<"None">> THEN <<>> ELSE v.t
    IN  PushText(Drop(s, 2), end(Arg(s, 2)) \o <<":">> \o end(Arg(s, 1)))
OpLoadAttr(s, i) ==
    LET rest == IF i.op = "LOAD_METHOD" THEN Push(Drop(s, 1), Null) ELSE Drop(s, 1)
    IN  IF s.stack = <<>> THEN s ELSE PushText(rest, Receiver(Arg(s, 1).t) \o <<".">> \o i.n)
OpYieldValue(s) == Push(Drop(s, 1), Kept("yield", Wrapped(IF Arg(s, 1).t = <<"None">> THEN <<"yield">>
                                                          ELSE <<"yield">> \o Arg(s, 1).t)))

----------------------------------------------------------------------------
(* Displays.                                                               *)

OpBuildCollection(s, i) ==
    LET items == Joined(Texts(Top(s.stack, i.a)))
        open == CASE i.op = "BUILD_TUPLE" -> "(" [] i.op = "BUILD_LIST" -> "[" [] i.op = "BUILD_SET" -> "{"
        close == CASE i.op = "BUILD_TUPLE" -> ")" [] i.op = "BUILD_LIST" -> "]" [] i.op = "BUILD_SET" -> "}"
        comma == IF i.op = "BUILD_TUPLE" /\ i.a = 1 THEN <<",">> ELSE <<>>
    IN  PushText(Drop(s, i.a), IF i.op = "BUILD_SET" /\ i.a = 0 THEN <<"set", "(", ")">>
                               ELSE <<open>> \o items \o comma \o <<close>>)
OpBuildMap(s, i) ==
    LET parts == Texts(Top(s.stack, 2 * i.a))
    IN  PushText(Drop(s, 2 * i.a),
                 <<"{">> \o Joined([x \in 1..i.a |-> parts[2 * x - 1] \o <<":">> \o parts[2 * x]]) \o <<"}">>)

NonEmpty(parts) == SelectSeq(parts, LAMBDA p : p # <<>>)
TupleOfList(t, node) ==
    IF node.k = "list" THEN Wrapped(SubSeq(t, 2, Len(t) - 1) \o (IF Len(node.c) = 1 THEN <<",">> ELSE <<>>))
    ELSE <<"tuple">> \o Wrapped(t)
OpListToTuple(s) == PushText(Drop(s, 1), TupleOfList(Arg(s, 1).t, ParseEval(Arg(s, 1).t)))
\* What is between the brackets of the display that was read, or the text as one starred item.
ItemsOrStar(items, star, t) == IF items # <<>> THEN items[1] ELSE Unpacked(star, t)
OpListExtend(s) ==
    LET have == ItemsOrStar(DisplayItems(Arg(s, 2).t, "list"), "*", Arg(s, 2).t)
        extra == ItemsOrStar(DisplayItems(Arg(s, 1).t, "tuple"), "*", Arg(s, 1).t)
    IN  IF Len(s.stack) < 2 THEN s
        ELSE PushText(Drop(s, 2), <<"[">> \o Joined(NonEmpty(<<have, extra>>)) \o <<"]">>)
\* One more item for the display on top of the stack.
OpListAppend(s) ==
    LET v == Arg(s, 1).t
        target == Arg(s, 2).t
        inner == SubSeq(target, 2, Len(target) - 1)
    IN  SetTop(Drop(s, 1), Str(<<"[">> \o Joined(NonEmpty(<<inner, v>>)) \o <<"]">>))
OpSetUpdate(s) == PushText(Drop(s, 2), Arg(s, 1).t)
OpDictMerge(s, i) ==
    LET part(v, spread) == ItemsOrStar(IF spread THEN DisplayItems(v.t, "dict") ELSE <<>>, "**", v.t)
        base == part(Arg(s, 2), TRUE)
        src == part(Arg(s, 1), Arg(s, 1).k # "merged")
    IN  IF Len(s.stack) < 2 THEN s
        ELSE Push(Drop(s, 2), Kept(IF i.op = "DICT_UPDATE" THEN "merged" ELSE "str",
                                   <<"{">> \o Joined(NonEmpty(<<base, src>>)) \o <<"}">>))

----------------------------------------------------------------------------
(* Calls.                                                                  *)

\* The `n` values on top that are no sentinel, and the stack without what was taken to find them.
RECURSIVE Collected(_, _)
Collected(stack, n) ==
    IF n = 0 \/ stack = <<>> THEN [vals |-> <<>>, stack |-> stack]
    ELSE IF Last(stack).k = "null" THEN Collected(Front(stack), n)
    ELSE LET r == Collected(Front(stack), n - 1) IN [r EXCEPT !.vals = Append(@, Last(stack))]

\* The callable under the arguments, without its sentinel; with no sentinel there, what was taken for
\* the callable is its first argument.
ResolveCallee(s, vals, bound) ==
    LET func == Arg(s, 1)
        rest == Drop(s, 1)
        at(m) == Arg(rest, m)
    IN  CASE func.k = "null" -> [s |-> Drop(rest, 1), func |-> at(1), vals |-> vals]
          [] func.k # "null" /\ rest.stack # <<>> /\ at(1).k = "null" -> [s |-> Drop(rest, 1), func |-> func, vals |-> vals]
          [] func.k # "null" /\ rest.stack # <<>> /\ at(1).k # "null" /\ bound ->
               [s |-> Drop(rest, 1), func |-> at(1), vals |-> <<func.t>> \o vals]
          [] OTHER -> [s |-> rest, func |-> func, vals |-> vals]
Called(s, vals, bound) ==
    LET r == ResolveCallee(s, vals, bound)
    IN  PushText(r.s, ParenthesizeCallee(r.func.t) \o Wrapped(Joined(r.vals)))

OpCall(s, i) ==
    LET r == Collected(s.stack, i.a)
        positional == Len(r.vals) - Len(s.kw_names)
        arg(x) == IF x > positional THEN <<s.kw_names[x - positional], "=">> \o r.vals[x].t ELSE r.vals[x].t
    IN  Called([s EXCEPT !.stack = r.stack, !.kw_names = <<>>], [x \in DOMAIN r.vals |-> arg(x)], TRUE)

\* f(*args, **kwargs): displays are spread into the arguments they stand for.
SpreadArguments(args, tuple, kwargs, dict) ==
    LET positional == IF tuple.k = "tuple" THEN [x \in DOMAIN tuple.c |-> Segment(args, tuple.c[x])]
                      ELSE IF args = <<"(", ")">> THEN <<>> ELSE <<<<"*">> \o args>>
        key(n) == n.c[1]
        named(x) == key(dict.c[x]).k = "const" /\ key(dict.c[x]).v = <<"'k'">>
                    /\ \A y \in 1..x - 1 : dict.c[y].k = "pair" => key(dict.c[y]).v # <<"'k'">>
        entry(n) == IF n.k = "dstar" THEN <<"**">> \o Segment(kwargs, n.c[1]) ELSE <<"k", "=">> \o Segment(kwargs, n.c[2])
        spread == dict.k = "dict" /\ \A x \in DOMAIN dict.c : dict.c[x].k = "pair" => named(x)
    IN  positional \o (IF kwargs = <<>> THEN <<>>
                       ELSE IF spread THEN [x \in DOMAIN dict.c |-> entry(dict.c[x])] ELSE <<<<"**">> \o kwargs>>)
CallExArguments(args, kwargs) == SpreadArguments(args, ParseEval(args), kwargs, ParseEval(kwargs))
OpCallFunctionEx(s, i) ==
    LET kw == Collected(s.stack, i.a)
        args == Collected(kw.stack, 1)
    IN  Called([s EXCEPT !.stack = args.stack],
               CallExArguments(args.vals[1].t, IF i.a = 1 THEN kw.vals[1].t ELSE <<>>), FALSE)

----------------------------------------------------------------------------
(* Unpackings.                                                             *)

Shape(i) ==
    IF i.op = "UNPACK_SEQUENCE" THEN [count |-> i.a, star |-> 0]
    ELSE [count |-> (i.a % 256) + 1 + (i.a \div 256), star |-> (i.a % 256) + 1]
NoTarget == [ok |-> FALSE, text |-> <<>>, nested |-> FALSE, next |-> 0]
\* The target that starts at `k` as text, when it is made of names and unpackings only.
RECURSIVE ParseStoreTarget(_), ParseTargets(_, _, _)
ParseTargets(k, n, acc) ==
    LET r == ParseStoreTarget(k)
        text == IF r.nested THEN Wrapped(r.text) ELSE r.text
    IN  IF n = 0 THEN [ok |-> TRUE, parts |-> acc, next |-> k]
        ELSE IF ~r.ok THEN [ok |-> FALSE, parts |-> acc, next |-> k]
        ELSE ParseTargets(r.next, n - 1, Append(acc, text))
ParseStoreTarget(k) ==
    LET shape == Shape(code[k])
        r == ParseTargets(k + 1, shape.count, <<>>)
        parts == [x \in DOMAIN r.parts |-> IF x = shape.star THEN <<"*">> \o r.parts[x] ELSE r.parts[x]]
    IN  IF Op(k) = "STORE" THEN [ok |-> TRUE, text |-> code[k].n, nested |-> FALSE, next |-> k + 1]
        ELSE IF Op(k) \notin {"UNPACK_SEQUENCE", "UNPACK_EX"} \/ ~r.ok THEN NoTarget
        ELSE [ok |-> TRUE, text |-> Joined(parts) \o (IF shape.count = 1 THEN <<",">> ELSE <<>>), nested |-> TRUE, next |-> r.next]

TempName == <<"_1", "_2", "_3", "_4", "_5", "_6">>
\* The value is taken apart into fresh temporaries, one for each target.
IntoTemporaries(s, i, t) ==
    LET shape == Shape(i)
        names == SubSeq(TempName, s.issued + 1, s.issued + shape.count)
        lhs == [x \in DOMAIN names |-> IF x = shape.star THEN <<"*", names[x]>> ELSE <<names[x]>>]
        comma == IF shape.count = 1 THEN <<",">> ELSE <<>>
        accessors == [x \in DOMAIN names |-> Kept("accessor", <<names[x]>>)]
    IN  [Write(s, Joined(lhs) \o comma \o <<"=">> \o t) EXCEPT
            !.stack = @ \o Reverse(accessors), !.groups = Append(@, names), !.issued = @ + shape.count]
\* A value other stores will read too gets a name before it is taken apart.
BindChained(s, v) ==
    LET alias == <<TempName[s.issued + 1]>>
        row == s.chains[v.id].row
        named == [s EXCEPT !.issued = @ + 1, !.chains[v.id].alias = alias]
    IN  IF row # 0 /\ EndsWith(s.lines[row], <<"=">> \o v.t)
        THEN [named EXCEPT !.lines[row] = alias \o <<"=">> \o @]
        ELSE Write(named, alias \o <<"=">> \o v.t)

OpUnpackSequence(s, i) ==
    LET target == ParseStoreTarget(s.pc - 1)
        v == Arg(s, 1)
        rest == Drop(s, 1)
        bound == BindChained(rest, v)
    IN  CASE s.stack = <<>> -> s
          [] s.stack # <<>> /\ target.ok -> [EmitAssignment(rest, target.text, v) EXCEPT !.pc = target.next]
          [] s.stack # <<>> /\ ~target.ok /\ v.k = "chained" -> IntoTemporaries(bound, i, bound.chains[v.id].alias)
          [] OTHER -> IntoTemporaries(rest, i, v.t)

\* The temporaries of a finished unpacking are deleted: the program never bound them.
ReleaseUnpackTemporaries(s) ==
    LET live == {v.t[1] : v \in {x \in Range(s.stack) : x.k = "accessor"}}
        Dead(g) == Range(g) \cap live = {}
        Del(t, g) == Write(t, <<"del">> \o Joined([x \in DOMAIN g |-> <<g[x]>>]))
    IN  [FoldLeft(Del, s, SelectSeq(s.groups, Dead)) EXCEPT !.groups = SelectSeq(@, LAMBDA g : ~Dead(g))]

----------------------------------------------------------------------------
(* The main pass.                                                          *)

OpReturnValue(s) ==
    LET v == Arg(s, 1)
    IN  IF s.stack = <<>> THEN s
        ELSE IF "__class__" \in Tokens(v.t) THEN Drop(s, 1) ELSE Write(Drop(s, 1), <<"return">> \o v.t)
OpPopTop(s) ==
    IF s.stack = <<>> THEN s ELSE IF Arg(s, 1).t = <<"None">> THEN Drop(s, 1) ELSE Write(Drop(s, 1), Bare(Arg(s, 1)))

\* What _decompile_step does around every handler.  The 3.11 backend handles BINARY_OP itself and
\* returns before the temporaries are looked at.
Finished(s) ==
    LET released == IF code[self.pc].op = "BINARY_OP" THEN s ELSE ReleaseUnpackTemporaries(s)
    IN  IF s.tuple_assign # NoBatch /\ s.pc > s.tuple_assign.last THEN FinishTupleAssign(released) ELSE released

Handle(op, Handler(_, _)) ==
    /\ self.pc \in DOMAIN code
    /\ code[self.pc].op \in op
    /\ self' = Finished(Handler([self EXCEPT !.pc = @ + 1], code[self.pc]))
    /\ UNCHANGED <<program, code>>

Load == Handle({"LOAD", "LOAD_CONST", "LOAD_GLOBAL"}, OpLoad)
PushNull == Handle({"PUSH_NULL"}, LAMBDA s, i : Push(s, Null))
StoreName == Handle({"STORE"}, OpStore)
StoreAttr == Handle({"STORE_ATTR"}, OpStoreAttr)
StoreSubscr == Handle({"STORE_SUBSCR"}, OpStoreSubscr)
DeleteTarget == Handle({"DELETE", "DELETE_ATTR", "DELETE_SUBSCR"}, OpDelete)
StackManip == Handle({"SWAP", "COPY"}, OpStackManip)
BinaryOp == Handle({"BINARY_OP"}, LAMBDA s, i : IF i.a < 13 THEN OpBinary(s, i) ELSE OpInplace(s, i))
CompareOp == Handle({"COMPARE_OP"}, OpCompare)
UnaryOp == Handle({"UNARY"}, OpUnary)
Ternary == Handle({"TERNARY"}, LAMBDA s, i : ConditionalTernary(s))
BinarySubscr == Handle({"BINARY_SUBSCR"}, LAMBDA s, i : OpBinarySubscr(s))
BuildSlice == Handle({"BUILD_SLICE"}, LAMBDA s, i : OpBuildSlice(s))
LoadAttr == Handle({"LOAD_ATTR", "LOAD_METHOD"}, OpLoadAttr)
YieldValue == Handle({"YIELD_VALUE"}, LAMBDA s, i : OpYieldValue(s))
BuildCollection == Handle({"BUILD_TUPLE", "BUILD_LIST", "BUILD_SET"}, OpBuildCollection)
BuildMap == Handle({"BUILD_MAP"}, OpBuildMap)
ListToTuple == Handle({"LIST_TO_TUPLE"}, LAMBDA s, i : OpListToTuple(s))
ListExtend == Handle({"LIST_EXTEND"}, LAMBDA s, i : OpListExtend(s))
ListAppend == Handle({"LIST_APPEND"}, LAMBDA s, i : OpListAppend(s))
SetUpdate == Handle({"SET_UPDATE"}, LAMBDA s, i : OpSetUpdate(s))
DictMerge == Handle({"DICT_UPDATE", "DICT_MERGE"}, OpDictMerge)
KwNames == Handle({"KW_NAMES"}, LAMBDA s, i : [s EXCEPT !.kw_names = i.n])
CallFunction == Handle({"CALL"}, OpCall)
CallFunctionEx == Handle({"CALL_FUNCTION_EX"}, OpCallFunctionEx)
UnpackSequence == Handle({"UNPACK_SEQUENCE", "UNPACK_EX"}, OpUnpackSequence)
ReturnValue == Handle({"RETURN_VALUE"}, LAMBDA s, i : OpReturnValue(s))
PopTop == Handle({"POP_TOP"}, LAMBDA s, i : OpPopTop(s))

Done == self.pc > Len(code)
Init ==
    /\ program \in Programs
    /\ \E fast \in Fast : code = Compiled(program, fast)
    /\ self = Fresh
Next ==
    \/ Load \/ PushNull \/ StoreName \/ StoreAttr \/ StoreSubscr \/ DeleteTarget \/ StackManip \/ BinaryOp \/ CompareOp
    \/ UnaryOp \/ Ternary \/ BinarySubscr \/ BuildSlice \/ LoadAttr \/ YieldValue \/ BuildCollection \/ BuildMap
    \/ ListToTuple \/ ListExtend \/ ListAppend \/ SetUpdate \/ DictMerge \/ KwNames \/ CallFunction \/ CallFunctionEx
    \/ UnpackSequence \/ ReturnValue \/ PopTop
Spec == Init /\ [][Next]_vars

----------------------------------------------------------------------------
Read == [x \in DOMAIN self.lines |-> ParseLine(self.lines[x])]

\* Every line written so far is a statement Python reads (the decompiler joins texts and cannot see
\* that a join is no statement).
EveryLineParses == \A x \in DOMAIN self.lines : ParseLine(self.lines[x]).k # "bad"

Effect(run) == [trace |-> run.trace, names |-> run.names]
\* Once the code is used up, running what was written does what the program did: the same operations
\* on the same values in the same order, each with the same names bound around it, and no name is left
\* that the program did not bind.
SameBehaviour ==
    Done /\ EveryLineParses => Effect(Run(Compiled(Read, FALSE))) = Effect(Run(Compiled(program, FALSE)))

\* The temporaries of an unpacking are deleted before the code ends ("they must not stay visible").
TemporariesAreReleased == Done => DOMAIN Run(Compiled(Read, FALSE)).names \cap Temporaries = {}

\* The stack of texts is as deep as the interpreter's, whatever the handlers skipped: nothing a later
\* instruction takes is missing and nothing is left for a statement of its own.
StackIsTheInterpreters ==
    Len(self.stack) = Len(Run(SubSeq(code, 1, self.pc - 1)).stack)
=============================================================================
