-------------------------- MODULE MarshalRoundTrip --------------------------
(***************************************************************************)
(* The reader of MarshalReader.tla on data that CPython's writer            *)
(* (Python/marshal.c, w_object) made, whole or cut short, and on data that  *)
(* no writer made.                                                          *)
(*                                                                          *)
(* The objects to write are the nodes 1 .. Len(nodes) of a graph: a node's  *)
(* parts come before it, and the last node is the one written.  An object   *)
(* that is referenced from elsewhere (its reference count is not 1) is      *)
(* flagged when it is first written, and numbered; any later writing of it  *)
(* is a reference to its number.                                            *)
(***************************************************************************)
EXTENDS MarshalReader, FiniteSets

CONSTANTS Graphs,            \* the graphs that each version may write
          Foreign,           \* data that no writer made
          MaxSteps           \* the steps of a writer

VARIABLES nodes,             \* the graph that was written
          written            \* "whole", "cut short" or "never"

tripVars == <<vars, nodes, written>>

-----------------------------------------------------------------------------
(* What a program can have made and a writer can write.                     *)

GraphNode == [kind : Containers \cup {"none", "atom"}, atom : Seq(Nat), parts : Seq(Nat),
              shared : BOOLEAN, hash : BOOLEAN]

HasHash(graph, node) ==
    CASE node.kind \in {"list", "set", "dict"} -> FALSE
      [] node.kind = "slice" -> SlicesHash
      [] node.kind = "tuple" -> \A k \in DOMAIN node.parts : graph[node.parts[k]].hash
      [] OTHER -> TRUE

(* Where the writer puts the parts of a code object.                        *)
FieldsOf(new) ==
    IF new
    THEN <<"code", "consts", "names", "localsplusnames", "localspluskinds",
           "filename", "name", "qualname", "linetable", "exceptiontable">>
    ELSE <<"code", "consts", "names", "varnames", "freevars", "cellvars", "filename", "name", "linetable">>

TextParts  == {"filename", "name", "qualname"}
TupleParts == {"consts", "names", "localsplusnames", "varnames", "freevars", "cellvars"}

(* Sets and the keys of dicts have a hash; a slice has three parts; a code  *)
(* object has its fields.                                                   *)
Writable(graph, node, new) ==
    /\ node.kind \notin Containers => node.parts = << >>
    /\ node.kind # "atom" => node.atom = << >>
    /\ node.hash = HasHash(graph, node)
    /\ node.kind \in {"set", "frozenset"} => \A k \in DOMAIN node.parts : graph[node.parts[k]].hash
    /\ node.kind = "dict" =>
          /\ Len(node.parts) % 2 = 0
          /\ \A k \in DOMAIN node.parts : k % 2 = 1 => graph[node.parts[k]].hash
    /\ node.kind = "slice" => Len(node.parts) = 3
    /\ node.kind = "code" =>
          LET fields == FieldsOf(new)
          IN  /\ Len(node.parts) = Len(fields)
              /\ \A k \in DOMAIN fields \cap DOMAIN node.parts :
                    fields[k] \notin TextParts =>
                        graph[node.parts[k]].kind = IF fields[k] \in TupleParts THEN "tuple" ELSE "atom"

(* There is one None, and an object that is not shared has one owner.       *)
IsGraph(graph, new) ==
    /\ graph \in Seq(GraphNode) /\ graph # << >>
    /\ \A i \in DOMAIN graph :
          /\ \A k \in DOMAIN graph[i].parts : graph[i].parts[k] \in 1 .. i - 1
          /\ Writable(graph, graph[i], new)
    /\ \A i, j \in DOMAIN graph : graph[i].kind = "none" /\ graph[j].kind = "none" => i = j
    /\ \A i, j \in DOMAIN graph : \A k \in DOMAIN graph[i].parts, l \in DOMAIN graph[j].parts :
          LET part == graph[i].parts[k]
          IN  part = graph[j].parts[l] /\ ~graph[part].shared /\ graph[part].kind # "none" => i = j /\ k = l

PartOf(graph, new, code, field) ==
    graph[code].parts[CHOOSE i \in DOMAIN FieldsOf(new) : FieldsOf(new)[i] = field]

TextsOf(graph, tuple) == [k \in DOMAIN graph[tuple].parts |-> graph[graph[tuple].parts[k]].atom]

(* How the compiler lays out the variables of a code object since 3.11      *)
(* (compute_localsplus_info): its locals, some of them cells; the cells     *)
(* that are no locals; the free variables.                                  *)
LaidOut(texts, kinds) ==
    /\ Len(kinds) = Len(texts)
    /\ \E locals \in 0 .. Len(texts) : \E cells \in locals .. Len(texts) :
          /\ \A i \in DOMAIN texts :
                /\ Has(kinds[i], LOCAL_BIT) <=> i <= locals
                /\ i > locals => (Has(kinds[i], CELL_BIT) <=> i <= cells)
                /\ Has(kinds[i], FREE_BIT) <=> i > cells
          /\ \A i \in locals + 1 .. cells, j \in 1 .. locals : texts[i] # texts[j]

VariablesLaidOut(graph) ==
    \A code \in DOMAIN graph : graph[code].kind = "code" =>
        LaidOut(TextsOf(graph, PartOf(graph, TRUE, code, "localsplusnames")),
                graph[PartOf(graph, TRUE, code, "localspluskinds")].atom)

ASSUME GraphsAssumption  == \A new \in BOOLEAN : \A graph \in Graphs[new] : IsGraph(graph, new)
ASSUME ForeignAssumption == Foreign \subseteq Seq(Token)
ASSUME LayoutAssumption  == \A graph \in Graphs[TRUE] : VariablesLaidOut(graph)
ASSUME StepsAssumption   == MaxSteps \in Nat

-----------------------------------------------------------------------------
(* The writer.  calls are the calls of w_object() that are open, each with  *)
(* its object and how many of its parts are written; a dict is followed by  *)
(* a NULL, 0.                                                               *)

Flagged(graph, i) == graph[i].shared

Root(graph) == Len(graph)

Parts(graph, i) == graph[i].parts \o (IF graph[i].kind = "dict" THEN <<0>> ELSE << >>)

Opened == [calls |-> << >>, numbers |-> << >>, tokens |-> << >>, ended |-> FALSE]

Innermost(w) == w.calls[Len(w.calls)]

AllWritten(graph, w) == w.calls # << >> /\ Innermost(w).done = Len(Parts(graph, Innermost(w).node))

Asked(graph, w) ==
    IF w.calls = << >> THEN Root(graph) ELSE Parts(graph, Innermost(w).node)[Innermost(w).done + 1]

(* One more part of the innermost call is written.                          *)
OneMore(calls) == IF calls = << >> THEN << >> ELSE [calls EXCEPT ![Len(calls)].done = @ + 1]

Back(w) ==
    LET outer == SubSeq(w.calls, 1, Len(w.calls) - 1)
    IN  [calls |-> OneMore(outer), numbers |-> w.numbers, tokens |-> w.tokens, ended |-> outer = << >>]

Put(type, flag, n, atom) == [type |-> type, flag |-> flag, n |-> n, atom |-> atom]

Leaf(w, numbers, token) ==
    [calls |-> OneMore(w.calls), numbers |-> numbers, tokens |-> Append(w.tokens, token), ended |-> w.calls = << >>]

Number(graph, w, i) == IF Flagged(graph, i) THEN Append(w.numbers, i) ELSE w.numbers

Known(w, i) == {k \in DOMAIN w.numbers : w.numbers[k] = i}

WriteObject(graph, w, i) ==
    IF i = 0
    THEN Leaf(w, w.numbers, Put("null", FALSE, 0, << >>))
    ELSE IF graph[i].kind = "none"
    THEN Leaf(w, w.numbers, Put("none", FALSE, 0, << >>))
    ELSE IF Known(w, i) # {}
    THEN Leaf(w, w.numbers, Put("ref", FALSE, (CHOOSE k \in Known(w, i) : TRUE) - 1, << >>))
    ELSE IF graph[i].kind = "atom"
    THEN Leaf(w, Number(graph, w, i), Put("atom", Flagged(graph, i), 0, graph[i].atom))
    ELSE [calls   |-> Append(w.calls, [node |-> i, done |-> 0]),
          numbers |-> Number(graph, w, i),
          tokens  |-> Append(w.tokens, Put(graph[i].kind, Flagged(graph, i), Len(graph[i].parts), << >>)),
          ended   |-> FALSE]

WriteStep(graph, w) ==
    IF w.ended THEN w
    ELSE IF AllWritten(graph, w) THEN Back(w)
    ELSE WriteObject(graph, w, Asked(graph, w))

Writer(graph) ==
    LET after[n \in Nat] == IF n = 0 THEN Opened ELSE WriteStep(graph, after[n - 1])
    IN  after

Write(graph) == Writer(graph)[MaxSteps].tokens

Part(graph, code, field) == PartOf(graph, new_layout, code, field)

(* The names that the arguments of LOAD_FAST and of LOAD_DEREF count in.    *)
FastNames(graph, code) ==
    TextsOf(graph, Part(graph, code, IF new_layout THEN "localsplusnames" ELSE "varnames"))
FreeNames(graph, code) ==
    IF new_layout
    THEN FastNames(graph, code)
    ELSE TextsOf(graph, Part(graph, code, "cellvars")) \o TextsOf(graph, Part(graph, code, "freevars"))

-----------------------------------------------------------------------------
SomethingWritten ==
    /\ nodes \in Graphs[new_layout] /\ Writer(nodes)[MaxSteps].ended
    /\ LET whole == Write(nodes)
       IN  \E n \in 0 .. Len(whole) :
              /\ data = SubSeq(whole, 1, n)
              /\ written = IF n = Len(whole) THEN "whole" ELSE "cut short"

NothingWritten == nodes = << >> /\ data \in Foreign /\ written = "never"

TripInit == new_layout \in BOOLEAN /\ (SomethingWritten \/ NothingWritten) /\ Fresh

TripNext == Next /\ UNCHANGED <<nodes, written>>

TripSpec == TripInit /\ [][TripNext]_tripVars /\ WF_tripVars(TripNext)

-----------------------------------------------------------------------------
(* Which object was read for which node.                                    *)

Deeper(known) ==
    LET parts(p) == {<<nodes[p[1]].parts[k], heap[p[2]].items[k]>> :
                        k \in DOMAIN nodes[p[1]].parts \cap DOMAIN heap[p[2]].items}
    IN  known \cup UNION {parts(p) : p \in known}

Reached ==
    LET within[n \in Nat] == IF n = 0 THEN {<<Root(nodes), result>>} ELSE Deeper(within[n - 1])
    IN  within

(* A node's parts come before it: no chain of parts has more nodes.         *)
Read == Reached[Len(nodes)]

(* Every node has become one object of its kind, and two nodes two objects. *)
Alike(p) ==
    /\ nodes[p[1]].kind = heap[p[2]].kind
    /\ nodes[p[1]].atom = heap[p[2]].atom
    /\ Len(nodes[p[1]].parts) = Len(heap[p[2]].items)

SameGraph ==
    /\ \A p \in Read : Alike(p)
    /\ \A p, q \in Read : p[1] = q[1] <=> p[2] = q[2]

Promise == INSTANCE ReadBack WITH
    outcome <- CASE status = "reading" -> "none yet"
                 [] status = "returned" /\ written # "never" /\ SameGraph -> "the object written"
                 [] status = "returned" /\ (written = "never" \/ ~SameGraph) -> "another object"
                 [] OTHER -> "an exception"

(* The parser of loader.py gives back what the writer wrote, every object   *)
(* once and each reference to the right one, or raises, and always ends.    *)
ReadsBack == Promise!Spec

(* The argument of LOAD_FAST or LOAD_DEREF finds the name that the compiler *)
(* counted, after the names have gone through co_varnames, co_cellvars and  *)
(* co_freevars and been put together again.                                 *)
TextsIn(table) == [k \in DOMAIN table |-> heap[table[k]].atom]

NamesInPlace ==
    status = "returned" /\ written # "never" =>
        \A p \in Read :
            nodes[p[1]].kind = "code" =>
                /\ TextsIn(FastTable(heap, p[2])) = FastNames(nodes, p[1])
                /\ TextsIn(FreeTable(heap, p[2])) = FreeNames(nodes, p[1])
==============================================================================
