----------------------------- MODULE MC_Marshal -----------------------------
(***************************************************************************)
(* What CPython writes, for TLC: every graph of one or two containers over  *)
(* None and an atom, some of three tuples, and functions with a function    *)
(* inside, for every choice of what else refers to an object; and data that *)
(* nobody wrote: every sequence of at most MaxTokens tokens of an alphabet, *)
(* and a code object with parts of the right and of the wrong types.        *)
(***************************************************************************)
EXTENDS MarshalRoundTrip, SequencesExt

(* A node for a graph, with its hash.                                       *)
GraphOn(graph, kind, atom, parts) ==
    LET node == [kind |-> kind, atom |-> atom, parts |-> parts, shared |-> FALSE, hash |-> FALSE]
    IN  [node EXCEPT !.hash = HasHash(graph, node)]

Leaves == <<GraphOn(<< >>, "none", << >>, << >>), GraphOn(<< >>, "atom", <<7>>, << >>)>>

UpTo(S, n) == UNION {[1 .. k -> S] : k \in 0 .. n}

Tuples(graph) == {GraphOn(graph, "tuple", << >>, parts) : parts \in UpTo(DOMAIN graph, 2)}
Dicts(graph)  == {GraphOn(graph, "dict", << >>, parts) :
                    parts \in {<< >>} \cup {<<k, v>> : k \in {1, 2}, v \in DOMAIN graph}}
Others(graph) == {GraphOn(graph, "frozenset", << >>, <<i>>) : i \in {1, 2}}
                 \cup {GraphOn(graph, "slice", << >>, <<1, i, 2>>) : i \in DOMAIN graph}
                 \cup {GraphOn(graph, "list", << >>, <<i, i>>) : i \in DOMAIN graph}

Grown(graphs, more(_)) == UNION {{Append(g, node) : node \in more(g)} : g \in graphs}

AnyContainer(graph) == Tuples(graph) \cup Dicts(graph) \cup Others(graph)
Small == Grown({Leaves}, AnyContainer) \cup Grown(Grown({Leaves}, AnyContainer), AnyContainer)

Deep == {g \in Grown(Grown(Grown({Leaves}, Tuples), Tuples), Tuples) :
            /\ Contains(g[5].parts, 4) /\ Contains(g[4].parts, 3) /\ Len(g[5].parts) = 2}

(* Functions.  Nodes 1 to 3 are None and two names; a table of local names  *)
(* has arguments, some of them cells, then cells, then free variables.      *)
CodeLeaves == Leaves \o <<GraphOn(<< >>, "atom", <<8>>, << >>), GraphOn(<< >>, "atom", <<9>>, << >>)>>

Tables == {<< >>, <<32>>, <<96>>, <<64>>, <<128>>, <<32, 64>>, <<32, 96>>, <<96, 64>>, <<64, 128>>,
           <<96, 128>>, <<32, 96, 128>>, <<96, 64, 128>>, <<32, 64, 128>>}

(* The nodes of a function, appended to a graph: its table, its constants   *)
(* and itself.                                                              *)
NewFunction(graph, kinds, const) ==
    LET n     == Len(graph)
        names == [k \in DOMAIN kinds |-> k + 1]
    IN  graph \o
        <<GraphOn(graph, "tuple", << >>, names),
          GraphOn(graph, "atom", kinds, << >>),
          GraphOn(graph, "tuple", << >>, <<1, const>>),
          GraphOn(graph, "tuple", << >>, <<2>>),
          GraphOn(graph, "code", << >>, <<2, n + 3, n + 4, n + 1, n + 2, 3, 3, 3, 2, 2>>)>>

OldFunction(graph, kinds, const) ==
    LET n     == Len(graph)
        with(bit) == LET kept == SelectSeq([k \in DOMAIN kinds |-> k], LAMBDA k : Has(kinds[k], bit))
                     IN  [k \in DOMAIN kept |-> kept[k] + 1]
    IN  graph \o
        <<GraphOn(graph, "tuple", << >>, with(LOCAL_BIT)),
          GraphOn(graph, "tuple", << >>, with(FREE_BIT)),
          GraphOn(graph, "tuple", << >>, with(CELL_BIT)),
          GraphOn(graph, "tuple", << >>, <<1, const>>),
          GraphOn(graph, "code", << >>, <<2, n + 4, n + 1, n + 1, n + 2, n + 3, 3, 3, 2>>)>>

Functions(Function(_, _, _)) ==
    LET one(kinds) == Function(CodeLeaves, kinds, 2)
    IN  {one(kinds) : kinds \in Tables}
        \cup {Function(one(kinds), outer, Len(one(kinds))) : kinds \in {<<128>>, <<96, 64>>}, outer \in {<<64>>, <<96, 64>>}}

-----------------------------------------------------------------------------
(* An object that two others refer to is shared.  Any other may be, when    *)
(* something outside the graph refers to it.                                *)
Uses(graph, i) == Cardinality({<<j, k>> \in (DOMAIN graph) \X (1 .. 10) :
                                  k \in DOMAIN graph[j].parts /\ graph[j].parts[k] = i})

Sharings(graph, free) ==
    LET must == {i \in DOMAIN graph : graph[i].kind # "none" /\ Uses(graph, i) > 1}
        may  == {i \in free \ must : graph[i].kind # "none"}
    IN  {[i \in DOMAIN graph |-> [graph[i] EXCEPT !.shared = i \in must \cup extra]] : extra \in SUBSET may}

Used(graph) == \A i \in 3 .. Len(graph) - 1 : Uses(graph, i) > 0

SharedFunctions(functions) == UNION {Sharings(g, {Len(CodeLeaves) + 1, Len(g)}) : g \in functions}

NewGraphs ==
    UNION {Sharings(g, DOMAIN g) : g \in {g \in Small \cup Deep : Used(g)}}
    \cup SharedFunctions(Functions(NewFunction))
OldGraphs == SharedFunctions(Functions(OldFunction))

MCGraphs == [new \in BOOLEAN |-> IF new THEN NewGraphs ELSE OldGraphs]

-----------------------------------------------------------------------------
(* Data that no writer made.                                                *)
MaxTokens == 4

Tok(type, flag, n) == [type |-> type, flag |-> flag, n |-> n, atom |-> IF type = "atom" THEN <<7>> ELSE << >>]

Alphabet ==
    {Tok("none", FALSE, 0), Tok("null", TRUE, 0), Tok("atom", TRUE, 0), Tok("ref", FALSE, 0), Tok("ref", FALSE, 1),
     Tok("tuple", TRUE, 1), Tok("tuple", FALSE, 2), Tok("list", TRUE, 0), Tok("frozenset", TRUE, 1),
     Tok("slice", FALSE, 0), Tok("dict", TRUE, 0), Tok("dict", FALSE, 0)}

CodeWith(new, consts) ==
    <<Tok("code", TRUE, 0), Tok("atom", TRUE, 0), consts, Tok("tuple", FALSE, 0), Tok("tuple", TRUE, 0),
      IF new THEN Tok("atom", FALSE, 0) ELSE Tok("tuple", FALSE, 0)>>
    \o (IF new THEN << >> ELSE <<Tok("tuple", FALSE, 0)>>)
    \o <<Tok("ref", FALSE, 1), Tok("ref", FALSE, 1)>>
    \o (IF new THEN <<Tok("ref", FALSE, 1), Tok("atom", FALSE, 0)>> ELSE << >>)
    \o <<Tok("ref", FALSE, 1)>>

CodeStreams ==
    {CodeWith(new, consts) : new \in BOOLEAN, consts \in Alphabet \cup {Tok("tuple", FALSE, 0), Tok("unsupported", FALSE, 0)}}
    \cup {<<Tok("tuple", TRUE, 2)>> \o CodeWith(new, Tok("tuple", TRUE, 0)) \o <<Tok("ref", FALSE, 0)>> : new \in BOOLEAN}

MCForeign == CodeStreams \cup BoundedSeq(Alphabet, MaxTokens)

(* Everything written for the graphs, whole or cut short, and the rest.     *)
Longest == 40
MCWritten == {Write(g) : g \in NewGraphs \cup OldGraphs}
MCData == {SubSeq(tokens, 1, IF n < Len(tokens) THEN n ELSE Len(tokens)) : tokens \in MCWritten, n \in 0 .. Longest}
          \cup MCForeign
==============================================================================
