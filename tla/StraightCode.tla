---------------------------- MODULE StraightCode ----------------------------
(***************************************************************************)
(* Straight-line Python: the code CPython 3.11 compiles statements to      *)
(* (their nodes as PythonText reads them) and what running it does.  Both  *)
(* ends of the round trip are compiled and run by this module, so nothing  *)
(* here knows what the decompiler prints.                                  *)
(*                                                                         *)
(* Running is symbolic: a value is the number of the event that produced   *)
(* it, or the text of a constant or of a name nobody has bound yet.  Every *)
(* operation that can run foreign code, fail or be noticed is an event     *)
(* with its operands and with the names bound so far.                      *)
(***************************************************************************)
EXTENDS Integers, SequencesExt, PythonText

I(op, a, n) == [op |-> op, a |-> a, n |-> n]
Quoted(name) == "'" \o name \o "'"

RECURSIVE Code(_), Codes(_), Grown(_, _, _), Store(_)
Codes(nodes) == FlattenSeq([x \in DOMAIN nodes |-> Code(nodes[x])])

Starred(items) == \E x \in DOMAIN items : items[x].k \in {"star", "dstar"}
Before(items) == SelectInSeq(items, LAMBDA n : n.k \in {"star", "dstar"}) - 1

\* The rest of a display, one item at a time, on top of the collection built so far.
Grown(items, star, single) ==
    FlattenSeq([x \in DOMAIN items |->
        IF items[x].k = "star" THEN Code(items[x].c[1]) \o <<I(star, 1, <<>>)>>
        ELSE Code(items[x]) \o <<I(single, 1, <<>>)>>])
Display(items, build, star, single) ==
    LET first == IF Starred(items) THEN Before(items) ELSE Len(items)
    IN  Codes(SubSeq(items, 1, first)) \o <<I(build, first, <<>>)>> \o Grown(SubSeq(items, first + 1, Len(items)), star, single)
ListCode(items) == Display(items, "BUILD_LIST", "LIST_EXTEND", "LIST_APPEND")
TupleCode(items) ==
    IF items = <<>> THEN <<I("LOAD_CONST", 0, <<"(", ")">>)>>
    ELSE IF Starred(items) THEN ListCode(items) \o <<I("LIST_TO_TUPLE", 0, <<>>)>>
    ELSE Codes(items) \o <<I("BUILD_TUPLE", Len(items), <<>>)>>

\* A dict display or the keywords of a call: one map for each run of entries and one for each `**`,
\* merged into the first.
EntryRuns(entries) ==
    FoldLeft(LAMBDA runs, n : IF n.k # "dstar" /\ runs # <<>> /\ Last(runs)[1].k # "dstar"
                              THEN Append(Front(runs), Append(Last(runs), n)) ELSE Append(runs, <<n>>), <<>>, entries)
KeyAndValue(n) == IF n.k = "pair" THEN Codes(n.c) ELSE <<I("LOAD_CONST", 0, <<Quoted(n.v[1])>>)>> \o Code(n.c[1])
MapCode(run) ==
    IF run[1].k = "dstar" THEN Code(run[1].c[1])
    ELSE FlattenSeq([x \in DOMAIN run |-> KeyAndValue(run[x])]) \o <<I("BUILD_MAP", Len(run), <<>>)>>
DictCode(entries, merge) ==
    LET runs == EntryRuns(entries)
        bare == runs = <<>> \/ runs[1][1].k = "dstar"
    IN  FlattenSeq(
          (IF bare THEN <<<<I("BUILD_MAP", 0, <<>>)>>>> ELSE <<>>)
          \o [x \in DOMAIN runs |-> MapCode(runs[x]) \o (IF bare \/ x > 1 THEN <<I(merge, 1, <<>>)>> ELSE <<>>)])

Positional(args) == SelectSeq(args, LAMBDA n : n.k \notin {"kw", "dstar"})
Keywords(args) == SelectSeq(args, LAMBDA n : n.k \in {"kw", "dstar"})
Call(f, args) ==
    LET pos == Positional(args)
        kws == Keywords(args)
        callee == CASE f.k = "attr" /\ ~Starred(args) -> Code(f.c[1]) \o <<I("LOAD_METHOD", 0, f.v)>>
                    [] f.k = "name" -> <<I("LOAD_GLOBAL", 1, f.v)>>
                    [] OTHER -> <<I("PUSH_NULL", 0, <<>>)>> \o Code(f)
        tuple == IF Len(pos) = 1 /\ pos[1].k = "star" THEN Code(pos[1].c[1]) ELSE TupleCode(pos)
    IN  IF Starred(args)
        THEN callee \o tuple \o (IF kws = <<>> THEN <<>> ELSE DictCode(kws, "DICT_MERGE"))
             \o <<I("CALL_FUNCTION_EX", IF kws = <<>> THEN 0 ELSE 1, <<>>)>>
        ELSE callee \o Codes(pos) \o FlattenSeq([x \in DOMAIN kws |-> Code(kws[x].c[1])])
             \o (IF kws = <<>> THEN <<>> ELSE <<I("KW_NAMES", 0, [x \in DOMAIN kws |-> kws[x].v[1]])>>)
             \o <<I("CALL", Len(args), <<>>)>>

\* `x in [y]` tests membership in a tuple.
Compared(e) == IF Last(e.v) = "in" /\ Last(e.c).k = "list" /\ ~Starred(Last(e.c).c) THEN Append(Front(e.c), [Last(e.c) EXCEPT !.k = "tuple"]) ELSE e.c

Code(e) ==
    CASE e.k = "name" -> <<I("LOAD", 0, e.v)>>
      [] e.k = "const" -> <<I("LOAD_CONST", 0, e.v)>>
      [] e.k = "neg" /\ e.c[1].k = "const" -> <<I("LOAD_CONST", 0, <<"-">> \o e.c[1].v)>>
      [] e.k = "neg" /\ e.c[1].k # "const" -> Code(e.c[1]) \o <<I("UNARY", 0, <<"-">>)>>
      [] e.k = "not" -> Code(e.c[1]) \o <<I("UNARY", 0, <<"not">>)>>
      [] e.k = "attr" -> Code(e.c[1]) \o <<I("LOAD_ATTR", 0, e.v)>>
      [] e.k = "sub" -> Codes(e.c) \o <<I("BINARY_SUBSCR", 0, <<>>)>>
      [] e.k = "slice" -> Codes(e.c) \o <<I("BUILD_SLICE", 2, <<>>)>>
      [] e.k = "bin" -> Codes(e.c) \o <<I("BINARY_OP", 0, e.v)>>
      [] e.k = "cmp" -> Codes(Compared(e)) \o <<I(IF Len(e.v) = 1 THEN "COMPARE_OP" ELSE "CHAINED", Len(e.c), e.v)>>
      [] e.k = "if" -> Codes(e.c) \o <<I("TERNARY", 0, <<>>)>>
      [] e.k = "walrus" -> Code(e.c[1]) \o <<I("COPY", 1, <<>>), I("STORE", 0, e.v)>>
      [] e.k = "tuple" -> TupleCode(e.c)
      [] e.k = "list" -> ListCode(e.c)
      [] e.k = "set" -> Display(e.c, "BUILD_SET", "SET_UPDATE", "SET_ADD")
      [] e.k = "dict" -> DictCode(e.c, "DICT_UPDATE")
      [] e.k = "call" -> Call(e.c[1], Tail(e.c))
      [] e.k = "yield" -> Code(e.c[1]) \o <<I("YIELD_VALUE", 0, <<>>)>>

Star(items) == SelectInSeq(items, LAMBDA n : n.k = "star")
Store(target) ==
    CASE target.k = "name" -> <<I("STORE", 0, target.v)>>
      [] target.k = "attr" -> Code(target.c[1]) \o <<I("STORE_ATTR", 0, target.v)>>
      [] target.k = "sub" -> Codes(target.c) \o <<I("STORE_SUBSCR", 0, <<>>)>>
      [] target.k = "star" -> Store(target.c[1])
      [] target.k \in {"tuple", "list"} ->
           <<IF Star(target.c) = 0 THEN I("UNPACK_SEQUENCE", Len(target.c), <<>>)
             ELSE I("UNPACK_EX", (Star(target.c) - 1) + 256 * (Len(target.c) - Star(target.c)), <<>>)>>
           \o FlattenSeq([x \in DOMAIN target.c |-> Store(target.c[x])])

\* a, b = x, y builds no tuple: the values are swapped into the order of the stores, and the
\* optimizer exchanges the stores instead when all of them are stores to fast locals.
Swapped(targets, values, fast) ==
    LET n == Len(targets)
        stores == [x \in DOMAIN targets |-> Store(targets[x])]
        local == fast /\ \A x \in DOMAIN targets : targets[x].k = "name"
    IN  Codes(values) \o (IF local THEN <<>> ELSE <<I("SWAP", n, <<>>)>>)
        \o FlattenSeq(IF local THEN [stores EXCEPT ![1] = stores[n], ![n] = stores[1]] ELSE stores)

Assign(targets, value, fast) ==
    LET t == targets[1]
    IN  IF Len(targets) = 1 /\ t.k = "tuple" /\ value.k = "tuple" /\ Len(t.c) = Len(value.c) /\ Len(t.c) \in 2..3
           /\ Star(t.c) = 0 /\ ~Starred(value.c)
        THEN Swapped(t.c, value.c, fast)
        ELSE Code(value) \o FlattenSeq([x \in DOMAIN targets |->
               (IF x < Len(targets) THEN <<I("COPY", 1, <<>>)>> ELSE <<>>) \o Store(targets[x])])

Augmented(t, value) ==
    LET add == Code(value) \o <<I("BINARY_OP", 13, <<"+=">>)>>
    IN  CASE t.k = "name" -> Code(t) \o add \o Store(t)
          [] t.k = "attr" -> Code(t.c[1]) \o <<I("COPY", 1, <<>>), I("LOAD_ATTR", 0, t.v)>> \o add
                             \o <<I("SWAP", 2, <<>>), I("STORE_ATTR", 0, t.v)>>
          [] t.k = "sub" -> Codes(t.c) \o <<I("COPY", 2, <<>>), I("COPY", 2, <<>>), I("BINARY_SUBSCR", 0, <<>>)>> \o add
                            \o <<I("SWAP", 3, <<>>), I("SWAP", 2, <<>>), I("STORE_SUBSCR", 0, <<>>)>>

Delete(t) ==
    CASE t.k = "name" -> <<I("DELETE", 0, t.v)>>
      [] t.k = "attr" -> Code(t.c[1]) \o <<I("DELETE_ATTR", 0, t.v)>>
      [] t.k = "sub" -> Codes(t.c) \o <<I("DELETE_SUBSCR", 0, <<>>)>>

Statement(s, fast) ==
    CASE s.k = "expr" -> Code(s.c[1]) \o <<I("POP_TOP", 0, <<>>)>>
      [] s.k = "assign" -> Assign(Front(s.c), Last(s.c), fast)
      [] s.k = "aug" -> Augmented(s.c[1], s.c[2])
      [] s.k = "del" -> FlattenSeq([x \in DOMAIN s.c |-> Delete(s.c[x])])
      [] s.k = "return" -> Code(s.c[1]) \o <<I("RETURN_VALUE", 0, <<>>)>>
Compiled(stmts, fast) == FlattenSeq([x \in DOMAIN stmts |-> Statement(stmts[x], fast)])

----------------------------------------------------------------------------
Value(e, s) == [e |-> e, s |-> s]
NULL == Value(0, <<"NULL">>)
Top(s, n) == SubSeq(s, Len(s) - n + 1, Len(s))
Below(s, n) == SubSeq(s, 1, Len(s) - n)

\* How many values an instruction takes off the stack and how many it leaves.
Taken(i) ==
    CASE i.op \in {"UNARY", "LOAD_ATTR", "LOAD_METHOD", "DELETE_ATTR", "LIST_TO_TUPLE", "YIELD_VALUE", "RETURN_VALUE",
                   "UNPACK_SEQUENCE", "UNPACK_EX"} -> 1
      [] i.op \in {"BINARY_OP", "COMPARE_OP", "BINARY_SUBSCR", "BUILD_SLICE", "STORE_ATTR", "DELETE_SUBSCR", "LIST_EXTEND",
                   "LIST_APPEND", "SET_UPDATE", "SET_ADD", "DICT_UPDATE", "DICT_MERGE"} -> 2
      [] i.op \in {"STORE_SUBSCR", "TERNARY"} -> 3
      [] i.op \in {"BUILD_TUPLE", "BUILD_LIST", "BUILD_SET", "CHAINED"} -> i.a
      [] i.op = "DELETE" -> 0
      [] i.op = "BUILD_MAP" -> 2 * i.a
      [] i.op = "CALL" -> i.a + 2
      [] i.op = "CALL_FUNCTION_EX" -> i.a + 3
Given(i) ==
    CASE i.op \in {"STORE_ATTR", "STORE_SUBSCR", "DELETE_ATTR", "DELETE_SUBSCR", "RETURN_VALUE", "DELETE"} -> 0
      [] i.op = "UNPACK_SEQUENCE" -> i.a
      [] i.op = "UNPACK_EX" -> (i.a % 256) + 1 + (i.a \div 256)
      [] OTHER -> 1

\* The names the decompiler makes up are not the program's.
Temporaries == {"_1", "_2", "_3", "_4", "_5", "_6"}
Only(f, S) == [x \in DOMAIN f \cap S |-> f[x]]

Event(s, i) ==
    LET n == 10 * (Len(s.trace) + 1)
        results == [x \in 1..Given(i) |-> Value(n + Given(i) - x, <<>>)]
    IN  [s EXCEPT !.stack = Below(s.stack, Taken(i)) \o (IF i.op = "LOAD_METHOD" THEN <<NULL>> ELSE <<>>) \o results,
                  !.kw = IF i.op = "CALL" THEN <<>> ELSE s.kw,
                  !.trace = Append(s.trace, [op |-> IF i.op = "LOAD_METHOD" THEN "LOAD_ATTR" ELSE i.op, n |-> i.n \o s.kw,
                                             of |-> Top(s.stack, Taken(i)), names |-> Only(s.names, DOMAIN s.names \ Temporaries)])]

Step(s, i) ==
    LET d == Len(s.stack)
        top == s.stack[d]
    IN
    CASE i.op = "LOAD" -> [s EXCEPT !.stack = Append(@, IF i.n[1] \in DOMAIN s.names THEN s.names[i.n[1]] ELSE Value(0, i.n))]
      [] i.op = "LOAD_CONST" -> [s EXCEPT !.stack = Append(@, Value(0, i.n))]
      [] i.op = "LOAD_GLOBAL" -> [s EXCEPT !.stack = @ \o <<NULL, Value(0, i.n)>>]
      [] i.op = "PUSH_NULL" -> [s EXCEPT !.stack = Append(@, NULL)]
      [] i.op = "STORE" -> [s EXCEPT !.stack = Front(@),
                                     !.names = [x \in DOMAIN s.names \cup {i.n[1]} |-> IF x = i.n[1] THEN top ELSE s.names[x]]]
      [] i.op = "DELETE" -> LET left == Only(s.names, DOMAIN s.names \ {i.n[1]}) IN
                            IF i.n[1] \in Temporaries THEN [s EXCEPT !.names = left] ELSE [Event(s, i) EXCEPT !.names = left]
      [] i.op = "POP_TOP" -> [s EXCEPT !.stack = Front(@)]
      [] i.op = "COPY" -> [s EXCEPT !.stack = Append(@, @[Len(@) - i.a + 1])]
      [] i.op = "SWAP" -> [s EXCEPT !.stack = [s.stack EXCEPT ![d] = s.stack[d - i.a + 1], ![d - i.a + 1] = top]]
      [] i.op = "KW_NAMES" -> [s EXCEPT !.kw = i.n]
      [] OTHER -> Event(s, i)

Run(code) == FoldLeft(Step, [stack |-> <<>>, names |-> <<>>, kw |-> <<>>, trace |-> <<>>], code)
=============================================================================
