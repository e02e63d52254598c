------------------------------ MODULE CleanUp ------------------------------
(***************************************************************************)
(* Post-processing of the finished text (postprocess.py): the transforms   *)
(* of post_process_source, one action each, on the text as a sequence of   *)
(* tokens.  A row is ended by "\n" and begins with one " " for each level   *)
(* of indentation; TQ is the triple quote, so what stands between two of   *)
(* them is text that must not change, whatever it looks like.              *)
(***************************************************************************)
EXTENDS PythonText, TLC

CONSTANT Sources       \* texts the backends hand to post_process_source

VARIABLES source,      \* the text that was handed over
          level,       \* the beautification level
          text,        \* the text so far
          literals,    \* the strings that have been taken out of it
          step,        \* the transform that is next
          again        \* whether the text is the layer's own result

vars == <<source, level, text, literals, step, again>>

Opening == {"(", "[", "{"}
Closing == {")", "]", "}"}
Marks == <<"mark0", "mark1", "mark2", "mark3", "mark4", "mark5">>
Mark(k) == Marks[k]
Is(t, words) == Len(t) >= Len(words) /\ SubSeq(t, 1, Len(words)) = words
EndsIn(t, w) == t # <<>> /\ Last(t) = w
Before(t, i) == SubSeq(t, 1, i - 1)
From(t, i) == SubSeq(t, i, Len(t))
\* The first place from i on where Found holds, or the one after the last.
FirstFrom(t, i, Found(_)) ==
    IF \E x \in i..Len(t) : Found(x) THEN CHOOSE x \in i..Len(t) : Found(x) /\ \A y \in i..x - 1 : ~Found(y) ELSE Len(t) + 1

----------------------------------------------------------------------------
(* Rows.                                                                   *)

Row(indent, t) == [indent |-> indent, t |-> t]
Blank == Row(0, <<>>)
RowOf(t) == LET n == FirstFrom(t, 1, LAMBDA x : t[x] # " ") - 1 IN Row(n, From(t, n + 1))
Spaces(n) == [x \in 1..n |-> " "]
RECURSIVE Rows(_)
Rows(t) ==
    LET end == FirstFrom(t, 1, LAMBDA x : t[x] = "\n")
    IN  <<RowOf(Before(t, end))>> \o IF end > Len(t) THEN <<>> ELSE Rows(From(t, end + 1))
RECURSIVE Text(_)
Text(rows) ==
    LET first == Spaces(rows[1].indent) \o rows[1].t
    IN  IF Len(rows) = 1 THEN first ELSE first \o <<"\n">> \o Text(Tail(rows))
Comment(r) == r.t # <<>> /\ r.t[1] = "#"
EachRow(t, Rewritten(_)) == LET rows == Rows(t) IN Text([x \in DOMAIN rows |-> Rewritten(rows[x])])

----------------------------------------------------------------------------
(* What Python's tokenizer makes of a text.                                *)

\* Each string as one token; a triple quote that is not closed stays.
RECURSIVE Lexed(_)
Lexed(t) ==
    LET i == FirstFrom(t, 1, LAMBDA x : t[x] = "TQ")
        j == FirstFrom(t, i + 1, LAMBDA x : t[x] = "TQ")
    IN  IF j > Len(t) THEN t ELSE Before(t, i) \o <<ToString(SubSeq(t, i + 1, j - 1))>> \o Lexed(From(t, j + 1))
Count(t, words) == Len(SelectSeq(t, LAMBDA w : w \in words))
Depth(t) == Count(t, Opening) - Count(t, Closing)
Tokenizes(t) == "TQ" \notin Range(Lexed(t)) /\ Depth(Lexed(t)) = 0
\* Whether the row after t goes on with the statement t begins.
IsOpen(t) == "TQ" \in Range(Lexed(t)) \/ Depth(Lexed(t)) > 0
\* The places of the strings that span several rows: where each begins and ends.
RECURSIVE StringSpans(_, _)
StringSpans(t, from) ==
    LET i == FirstFrom(t, from, LAMBDA x : t[x] = "TQ")
        j == FirstFrom(t, i + 1, LAMBDA x : t[x] = "TQ")
    IN  IF j > Len(t) THEN <<>>
        ELSE (IF "\n" \in Range(SubSeq(t, i, j)) THEN <<<<i, j>>>> ELSE <<>>) \o StringSpans(t, j + 1)

----------------------------------------------------------------------------
(* Masking: strings of several rows are taken out while rows are rewritten. *)

\* The brackets open before place i, and whether each is that of a print call.
InPrintCall(t, i) ==
    LET before == Lexed(Before(t, i))
        open(x) == before[x] \in Opening /\ \A y \in x..Len(before) : Depth(SubSeq(before, x, y)) > 0
    IN  \E x \in 2..Len(before) : before[x] = "(" /\ before[x - 1] = "print" /\ open(x)
Span(t, span) == SubSeq(t, span[1], span[2])
RECURSIVE Replaced(_, _, _)
Replaced(t, spans, k) ==
    IF spans = <<>> THEN t
    ELSE Before(t, Head(spans)[1]) \o <<Mark(k)>>
         \o Replaced(From(t, Head(spans)[2] + 1),
                     [x \in 1..Len(spans) - 1 |-> [y \in 1..2 |-> spans[x + 1][y] - Head(spans)[2]]], k + 1)
MaskedSpans(t, keepPrint) ==
    IF ~Tokenizes(t) THEN <<>> ELSE SelectSeq(StringSpans(t, 1), LAMBDA span : ~(keepPrint /\ InPrintCall(t, span[1])))
\* All in one pass: text that is put back is not searched again.
Unmasked(t, lits) ==
    FlattenSeq([x \in DOMAIN t |-> IF \E k \in DOMAIN lits : t[x] = Mark(k)
                                   THEN lits[CHOOSE k \in DOMAIN lits : t[x] = Mark(k)] ELSE <<t[x]>>])

----------------------------------------------------------------------------
(* print calls.                                                            *)

OneLineTripleQuoted(t) == IF Tokenizes(t) THEN Lexed(t) ELSE t
ParensBalanced(t) ==
    /\ Tokenizes(t)
    /\ \A x \in DOMAIN Lexed(t) : Count(SubSeq(Lexed(t), 1, x), {"("}) >= Count(SubSeq(Lexed(t), 1, x), {")"})
    /\ Count(Lexed(t), {"("}) = Count(Lexed(t), {")"})
HasTopLevelComma(t) == \E x \in DOMAIN t : t[x] = "," /\ Depth(Before(t, x)) = 0
\* Slip: a yield may lose its parentheses.
UnwrappableAnyhow(inside) == IF ParseEval(inside).k = "bad" THEN ~HasTopLevelComma(inside) ELSE ParseEval(inside).k # "tuple"
Unwrappable(inside) ==
    IF ParseEval(inside).k # "bad" THEN ParseEval(inside).k # "tuple"
    ELSE ~Is(inside, <<"yield">>) /\ ~HasTopLevelComma(inside)
UnwrapPrintArgument(t) ==
    LET inside == SubSeq(t, 2, Len(t) - 1)
    IN  IF Len(t) >= 2 /\ t[1] = "(" /\ Last(t) = ")" /\ ParensBalanced(inside) /\ Unwrappable(inside) THEN inside ELSE t
\* From a row that begins with print( to the first ) that ends a row.
RECURSIVE TidyPrintCalls(_)
TidyPrintCalls(t) ==
    LET starts(x) == x = 1 \/ t[x - 1] = "\n"
        head(x) == RowOf(Before(From(t, x), FirstFrom(From(t, x), 1, LAMBDA y : From(t, x)[y] = "\n")))
        begin == FirstFrom(t, 1, LAMBDA x : starts(x) /\ Is(head(x).t, <<"print", "(">>))
        first == begin + head(begin).indent + 2
        end == FirstFrom(t, first, LAMBDA x : t[x] = ")" /\ (x = Len(t) \/ t[x + 1] = "\n"))
    IN  IF begin > Len(t) THEN t
        ELSE IF end > Len(t) THEN t
        ELSE Before(t, first) \o UnwrapPrintArgument(OneLineTripleQuoted(SubSeq(t, first, end - 1))) \o <<")">>
             \o TidyPrintCalls(From(t, end + 1))

----------------------------------------------------------------------------
(* Imports.                                                                *)

\* <<a, ",", b>> as <<<<a>>, <<b>>>>.
RECURSIVE Entries(_)
Entries(t) ==
    LET x == FirstFrom(t, 1, LAMBDA y : t[y] = ",")
    IN  <<Before(t, x)>> \o IF x > Len(t) THEN <<>> ELSE Entries(From(t, x + 1))
RECURSIVE CommaSeparated(_)
CommaSeparated(entries) == IF Len(entries) = 1 THEN entries[1] ELSE entries[1] \o <<",">> \o CommaSeparated(Tail(entries))
IsImport(r) == Is(r.t, <<"import">>)
ModuleEnd(r) == FirstFrom(r.t, 1, LAMBDA x : r.t[x] = "import")
IsFrom(r) == Is(r.t, <<"from">>) /\ ModuleEnd(r) < Len(r.t)
Module(r) == IF IsFrom(r) THEN SubSeq(r.t, 2, ModuleEnd(r) - 1) ELSE <<>>
Names(r) == Entries(From(r.t, IF IsImport(r) THEN 2 ELSE ModuleEnd(r) + 1))
Mergeable(r) == (IsImport(r) \/ IsFrom(r)) /\ Range(r.t) \cap {"(", ")", "\\", "#", ";", "*"} = {}
BoundName(entry) == IF Len(entry) > 2 /\ entry[Len(entry) - 1] = "as" THEN Last(entry) ELSE entry[1]
\* Slip: a repeat goes, whatever was bound since.
AddUniqueOnce(kept, entry) == IF entry \in Range(kept) THEN kept ELSE Append(kept, entry)
AddUnique(kept, entry) ==
    LET at == FirstFrom(kept, 1, LAMBDA x : kept[x] = entry)
    IN  IF \E x \in at + 1..Len(kept) : BoundName(kept[x]) = BoundName(entry) THEN Append(RemoveAt(kept, at), entry)
        ELSE IF at <= Len(kept) THEN kept ELSE Append(kept, entry)
Unique(entries) == FoldLeft(AddUnique, <<>>, entries)
SameRun(r, s) ==
    Mergeable(r) /\ Mergeable(s) /\ r.indent = s.indent /\ IsImport(r) = IsImport(s) /\ Module(r) = Module(s)
MergedRun(run) ==
    LET names == Unique(FlattenSeq([x \in DOMAIN run |-> Names(run[x])]))
    IN  IF ~Mergeable(run[1]) THEN run
        ELSE IF IsImport(run[1]) THEN [x \in DOMAIN names |-> Row(run[1].indent, <<"import">> \o names[x])]
        ELSE <<Row(run[1].indent, <<"from">> \o Module(run[1]) \o <<"import">> \o CommaSeparated(names))>>
MergeImports(t) ==
    LET rows == Rows(t)
        starts(x) == x = 1 \/ ~SameRun(rows[x - 1], rows[x])
    IN  Text(FlattenSeq([x \in DOMAIN rows |-> IF starts(x) THEN MergedRun(SubSeq(rows, x, FirstFrom(rows, x + 1, starts) - 1))
                                              ELSE <<>>]))

----------------------------------------------------------------------------
(* Parentheses and blank lines.                                            *)

Inside(inside, word) ==
    /\ inside # <<>> /\ Range(inside) \cap {",", "(", ")", "for", "lambda", ":="} = {}
    /\ word # "=" => inside[1] # "yield"
\* Where the targets of `name.name = ` or `name.name += ` end; 0 if the row is no such assignment.
TargetEnd(t) ==
    LET x == FirstFrom(t, 1, LAMBDA y : t[y] \in {"=", "+="})
    IN  IF x > 1 /\ x < Len(t) /\ \A y \in 1..x - 1 : IsName(t[y]) \/ t[y] = "." THEN x ELSE 0
Unparenthesised(t, open, close, word) ==
    IF open < close /\ close <= Len(t) /\ t[open] = "(" /\ t[close] = ")" /\ Inside(SubSeq(t, open + 1, close - 1), word)
    THEN RemoveAt(RemoveAt(t, close), open) ELSE t
StripRow(r) ==
    LET target == TargetEnd(r.t)
        doubled == target > 0 /\ r.t[target] = "="
                   /\ Is(From(r.t, target + 1), <<"(">> \o Before(r.t, target) \o <<"+=">>) /\ EndsIn(r.t, ")")
    IN  [r EXCEPT !.t =
           IF doubled THEN SubSeq(r.t, target + 2, Len(r.t) - 1)
           ELSE IF target > 0 THEN Unparenthesised(r.t, target + 1, Len(r.t), "=")
           ELSE IF Is(r.t, <<"return">>) THEN Unparenthesised(r.t, 2, Len(r.t), "return")
           ELSE IF Len(r.t) > 3 /\ r.t[1] \in {"if", "elif", "while"} /\ EndsIn(r.t, ":")
                THEN Unparenthesised(r.t, 2, Len(r.t) - 1, r.t[1])
           ELSE r.t]
StripRedundantParens(t) == EachRow(t, StripRow)

CollapseBlankLines(t) ==
    FlattenSeq([x \in DOMAIN t |-> IF x > 2 /\ SubSeq(t, x - 2, x) = <<"\n", "\n", "\n">> THEN <<>> ELSE <<t[x]>>])

----------------------------------------------------------------------------
(* Tuples of the decompiler's own that reached the text.                   *)

\* `name = ('func', ` with its name at place p.
LeakAt(t, p) ==
    /\ p + 4 <= Len(t) /\ IsName(t[p]) /\ t[p] \notin {"TQ", "\n", " "}
    /\ SubSeq(t, p + 1, p + 2) = <<"=", "(">> /\ t[p + 3] \in {"'func'", "'class'"} /\ t[p + 4] = ","
IndentAt(t, p) == CHOOSE n \in 0..p - 1 : SubSeq(t, p - n, p - 1) = Spaces(n) /\ (n = p - 1 \/ t[p - n - 1] # " ")
Quoted == {"'func'", "'class'", "'k'"}
\* Where the statement is taken to end: at the first parenthesis after a quote past a function
\* written out in it, or at the end of its row.
LeakEnd(t, p, function) ==
    LET written == FirstFrom(t, p, LAMBDA x : t[x] \in {"lambda", "<lambda>"})
        close == FirstFrom(t, written + 1, LAMBDA x : t[x] = ")" /\ (t[x - 1] \in Quoted \/ t[x - 1] = "\n"))
    IN  IF function THEN IF close < Len(t) /\ t[close + 1] = ")" THEN close + 1 ELSE close
        ELSE FirstFrom(t, p, LAMBDA x : t[x] = "\n") - 1
LeakReplacement(t, p) ==
    <<"#", IF t[p + 3] = "'func'" THEN "genexpr/lambda" ELSE "class", "\n">> \o Spaces(IndentAt(t, p)) \o <<t[p], "=", "None">>
RECURSIVE ReplaceLeaks(_, _)
ReplaceLeaks(t, function) ==
    LET p == FirstFrom(t, 1, LAMBDA x : LeakAt(t, x) /\ LeakEnd(t, x, function) <= Len(t))
    IN  IF p > Len(t) THEN t
        ELSE Before(t, p) \o LeakReplacement(t, p) \o ReplaceLeaks(From(t, LeakEnd(t, p, function) + 1), function)
\* A `def <lambda>` block and the rows indented below it.
Stray(r) == \E x \in 1..Len(r.t) - 1 : r.t[x] = "def" /\ r.t[x + 1] = "<lambda>" /\ Range(Before(r.t, x)) \cap Quoted = {}
Below(r, s) == s.t # <<>> /\ s.indent > r.indent
\* Slip: a blank row ends the block.
StrayEndAtBlank(rows, x) == FirstFrom(rows, x + 1, LAMBDA y : ~Below(rows[x], rows[y])) - 1
StrayEnd(rows, x) ==
    Max({x} \cup {y \in x + 1..Len(rows) : /\ Below(rows[x], rows[y])
                                            /\ \A z \in x + 1..y : rows[z].t = <<>> \/ Below(rows[x], rows[z])})
RECURSIVE ReplaceStrays(_)
ReplaceStrays(rows) ==
    LET x == FirstFrom(rows, 1, LAMBDA y : Stray(rows[y]))
    IN  IF x > Len(rows) THEN rows
        ELSE Before(rows, x) \o <<Row(rows[x].indent, <<"#", "genexpr/lambda">>), Row(rows[x].indent, <<"pass">>)>>
             \o ReplaceStrays(From(rows, StrayEnd(rows, x) + 1))
ReplaceLeakedTuples(t) == Text(ReplaceStrays(Rows(ReplaceLeaks(ReplaceLeaks(t, TRUE), FALSE))))

----------------------------------------------------------------------------
(* `else:` with nothing but an `if` in it.                                 *)

Keywords == {"if", "elif", "for", "while", "with", "try", "except", "finally"}
Unmatched(rows, p, tail) == LET t == FlattenSeq([x \in 1..tail - p + 1 |-> rows[p + x - 1].t]) IN -Depth(t)
\* The keyword of the header that ends at row `tail`; "none" where there is none.
BlockOpenerKeyword(rows, tail, base) ==
    LET openers == {p \in 1..tail : rows[p].t # <<>> /\ rows[p].indent = base /\ Unmatched(rows, p, tail) <= 0}
        word(p) == IF rows[p].t[1] \in Keywords THEN rows[p].t[1] ELSE "none"
    IN  IF word(tail) # "none" THEN word(tail) ELSE IF openers = {} THEN "none" ELSE word(Max(openers))
\* The header of the block before the `else:` at row x is that of an `if`.
ParentOk(rows, x) ==
    LET above == {p \in 1..x - 1 : rows[p].t # <<>> /\ ~Comment(rows[p]) /\ rows[p].indent <= rows[x].indent}
        p == Max(above)
    IN  /\ above # {} /\ rows[p].indent = rows[x].indent
        /\ \/ rows[p].t[1] \in {"if", "elif"}
           \/ EndsIn(rows[p].t, ":") /\ BlockOpenerKeyword(rows, p, rows[x].indent) \in {"if", "elif"}
\* Where the header that begins at row j ends.
HeaderEnd(rows, j) ==
    LET end == FirstFrom(rows, j + 1, LAMBDA y : rows[y].indent = rows[j].indent /\ EndsIn(rows[y].t, ":"))
    IN  IF EndsIn(rows[j].t, ":") \/ end > Len(rows) THEN j ELSE end
CollectMultilineHeader(rows, j) == Tail(FlattenSeq([x \in 1..HeaderEnd(rows, j) - j + 1 |-> rows[j + x - 1].t]))
\* The `if` an `else:` at row x begins with, and the first row after what belongs to it.
InnerIf(rows, x) == FirstFrom(rows, x + 1, LAMBDA y : rows[y].t # <<>>)
BlockEnd(rows, x, from) == FirstFrom(rows, from, LAMBDA y : rows[y].t # <<>> /\ rows[y].indent <= rows[x].indent)
OnlyIf(rows, x, j) ==
    \A y \in HeaderEnd(rows, j) + 1..BlockEnd(rows, x, HeaderEnd(rows, j) + 1) - 1 :
        \/ rows[y].t = <<>> \/ rows[y].indent > rows[j].indent
        \/ rows[y].indent = rows[j].indent /\ rows[y].t[1] \in {"elif", "else"}
LineIsInTripleQuotedString(rows, x) == x > 1 /\ ~Tokenizes(Text(Before(rows, x)))
Collapsible(rows, x) ==
    LET j == InnerIf(rows, x)
    IN  /\ rows[x].t = <<"else", ":">> /\ ~LineIsInTripleQuotedString(rows, x) /\ ParentOk(rows, x)
        /\ j <= Len(rows) /\ rows[j].t[1] = "if" /\ rows[j].indent = rows[x].indent + 1 /\ OnlyIf(rows, x, j)
Dedented(r, base) == IF r.indent > base THEN [r EXCEPT !.indent = @ - 1] ELSE r
Collapsed(rows, x) ==
    LET j == InnerIf(rows, x)
        first == HeaderEnd(rows, j) + 1
        after == BlockEnd(rows, x, first)
    IN  Before(rows, x) \o <<Row(rows[x].indent, <<"elif">> \o CollectMultilineHeader(rows, j))>>
        \o SubSeq(rows, x + 1, j - 1)
        \o [y \in 1..after - first |-> Dedented(rows[first + y - 1], rows[x].indent)] \o From(rows, after)
\* Slip: what was collapsed is not looked at again.
FlattenOnce(rows) ==
    LET x == FirstFrom(rows, 1, LAMBDA y : Collapsible(rows, y)) IN IF x > Len(rows) THEN rows ELSE Collapsed(rows, x)
RECURSIVE Flatten(_)
Flatten(rows) ==
    LET x == FirstFrom(rows, 1, LAMBDA y : Collapsible(rows, y))
    IN  IF x > Len(rows) THEN rows ELSE Flatten(Collapsed(rows, x))
FlattenElif(t) == Text(Flatten(Rows(t)))

----------------------------------------------------------------------------
(* How Python reads a text: statements, and the blocks they form.          *)

RECURSIVE Uncommented(_)
Uncommented(t) ==
    LET x == FirstFrom(t, 1, LAMBDA y : t[y] = "#")
        end == FirstFrom(t, x, LAMBDA y : t[y] = "\n")
    IN  IF x > Len(t) THEN t ELSE Before(t, x) \o Uncommented(From(t, end))
RECURSIVE LogicalRows(_)
LogicalRows(t) ==
    LET end == FirstFrom(t, 1, LAMBDA x : t[x] = "\n" /\ ~IsOpen(Before(t, x)))
        r == RowOf(Before(t, end))
        row == Row(r.indent, SelectSeq(Lexed(r.t), LAMBDA w : w \notin {"\n", " "}))
    IN  IF t = <<>> THEN <<>> ELSE (IF row.t = <<>> THEN <<>> ELSE <<row>>) \o LogicalRows(From(t, end + 1))
Complete(r, i) == IF r.at = i + 1 THEN Dump(r.n) ELSE Bad(1).n
\* The node a header or a statement is, read from its own tokens.
Header(t) ==
    CASE t[1] \in {"if", "elif", "while"} /\ EndsIn(t, ":") -> Complete(Named(t, 2), Len(t) - 1)
      [] t[1] \in {"for", "def", "with"} /\ EndsIn(t, ":") -> Node("header", t, <<>>)
      [] t[1] \in {"if", "elif", "while", "for", "def", "with"} /\ ~EndsIn(t, ":") -> Bad(1).n
      [] t[1] \in {"import", "from"} -> Node("import", <<>>, <<>>)
      [] OTHER -> Dump(ParseLine(t))
Compound == {"if", "elif", "while", "for", "def", "with"}
NextRow(rows, x) == FirstFrom(rows, x + 1, LAMBDA y : rows[y].indent <= rows[x].indent)
Continues(r, s) ==
    /\ s.indent = r.indent
    /\ \/ s.t = <<"else", ":">> /\ r.t[1] \in {"if", "elif", "for", "while"}
       \/ s.t[1] = "elif" /\ r.t[1] \in {"if", "elif"}
StatementEnd(rows) == FirstFrom(rows, 2, LAMBDA y : rows[y].indent <= rows[1].indent /\ ~Continues(rows[1], rows[y]))
RECURSIVE Block(_, _)
\* The statements of a block whose rows are indented by `indent`.
Block(rows, indent) ==
    LET n == NextRow(rows, 1)
        end == StatementEnd(rows)
        body == Block(SubSeq(rows, 2, n - 1), indent + 1)
        other == IF n >= end THEN <<>>
                 ELSE IF rows[n].t[1] = "elif" THEN Block(SubSeq(rows, n, end - 1), indent)
                 ELSE IF n + 1 < end /\ NextRow(rows, n) = end THEN Block(SubSeq(rows, n + 1, end - 1), indent + 1)
                 ELSE <<Bad(1).n>>
        statement == Node(IF rows[1].t[1] \in Compound THEN "compound" ELSE "simple",
                          IF rows[1].t[1] = "elif" THEN <<"if">> ELSE IF rows[1].t[1] \in Compound THEN <<rows[1].t[1]>> ELSE <<>>,
                          <<Header(rows[1].t), Node("block", <<>>, body), Node("block", <<>>, other)>>)
        well == rows[1].indent = indent /\ (rows[1].t[1] \in Compound <=> n > 2)
    IN  IF rows = <<>> THEN <<>>
        ELSE (IF well THEN <<statement>> ELSE <<Bad(1).n>>) \o Block(From(rows, end), indent)
Tree(t) == Node("module", <<>>, Block(LogicalRows(Uncommented(t)), 0))
Parses(t) == ~Broken(Tree(t))
\* What a run of imports binds each name to, the last entry winning, and what it loads.
Imports(r) == r.t[1] \in {"import", "from"}
Loads(r, entry) ==
    Module(r) \o IF Len(entry) > 2 /\ entry[Len(entry) - 1] = "as" THEN SubSeq(entry, 1, Len(entry) - 2) ELSE entry
Bound(r, entry) == <<BoundName(entry), IF IsFrom(r) \/ "as" \in Range(entry) THEN Loads(r, entry) ELSE <<entry[1]>>>>
LastBindings(bound) == {bound[x] : x \in {y \in DOMAIN bound : \A z \in y + 1..Len(bound) : bound[z][1] # bound[y][1]}}
OfEachEntry(run, Of(_, _)) ==
    FlattenSeq([x \in DOMAIN run |-> [y \in DOMAIN Names(run[x]) |-> Of(run[x], Names(run[x])[y])]])
Meaning(run) == [loads |-> Range(OfEachEntry(run, Loads)), binds |-> LastBindings(OfEachEntry(run, Bound))]
GoesOn(rows, x) == x > 1 /\ Imports(rows[x]) /\ Imports(rows[x - 1]) /\ rows[x].indent = rows[x - 1].indent
RunAt(rows, x) == SubSeq(rows, x, FirstFrom(rows, x + 1, LAMBDA y : ~GoesOn(rows, y)) - 1)
\* The imports of the runs that begin at these rows.
RunsAt(rows, firsts) == [x \in DOMAIN firsts |-> Meaning(RunAt(rows, firsts[x]))]
PlacesOf(rows, Chosen(_)) == SelectSeq([x \in DOMAIN rows |-> x], Chosen)
RowsAt(rows, places) == [x \in DOMAIN places |-> rows[places[x]]]
\* A program: its tree, with each run of imports one statement, and what those runs do.
ProgramIn(rows) ==
    [tree |-> Block(RowsAt(rows, PlacesOf(rows, LAMBDA x : ~GoesOn(rows, x))), 0),
     imports |-> RunsAt(rows, PlacesOf(rows, LAMBDA x : Imports(rows[x]) /\ ~GoesOn(rows, x)))]
Program(t) == ProgramIn(LogicalRows(Uncommented(t)))

----------------------------------------------------------------------------
(* Dict displays of several entries, one entry to a row.                   *)

\* The node of the statement or header that stands on one row, with its places in the row.
RowNode(t) == IF t[1] \in {"if", "elif", "while"} THEN Named(t, 2).n ELSE ParseLine(t)
Several(n) == n.k = "dict" /\ Len(n.c) > 1
RECURSIVE OuterDicts(_), DictLines(_, _, _), Spread(_, _, _, _, _)
OuterDicts(n) == IF Several(n) THEN {n} ELSE UNION {OuterDicts(n.c[x]) : x \in DOMAIN n.c}
\* The tokens from..to - 1, with each of these displays split.
Spread(t, from, to, nodes, indent) ==
    LET n == CHOOSE m \in nodes : \A o \in nodes : m.i <= o.i
    IN  IF nodes = {} THEN SubSeq(t, from, to - 1)
        ELSE SubSeq(t, from, n.i - 1) \o DictLines(t, n, indent) \o Spread(t, n.j, to, nodes \ {n}, indent)
DisplayText(t, n, indent) ==
    IF Several(n) THEN DictLines(t, n, indent)
    ELSE IF n.k \in {"walrus", "yield"} THEN <<"(">> \o Spread(t, n.i, n.j, OuterDicts(n), indent) \o <<")">>
    ELSE Spread(t, n.i, n.j, OuterDicts(n), indent)
DictLines(t, n, indent) ==
    LET entry(e) == IF e.k = "dstar" THEN <<"**">> \o DisplayText(t, e.c[1], indent + 1)
                    ELSE DisplayText(t, e.c[1], indent + 1) \o <<":">> \o DisplayText(t, e.c[2], indent + 1)
    IN  <<"{", "\n">> \o FlattenSeq([x \in DOMAIN n.c |-> Spaces(indent + 1) \o entry(n.c[x]) \o <<",", "\n">>])
        \o Spaces(indent) \o <<"}">>
SplitRow(t) ==
    LET r == RowOf(t)
    IN  IF r.t = <<>> \/ Range(r.t) \cap {"TQ", "\n", "#"} # {} THEN t
        ELSE Spaces(r.indent) \o Spread(r.t, 1, Len(r.t) + 1, OuterDicts(RowNode(r.t)), r.indent)
RECURSIVE SplitRows(_)
SplitRows(t) ==
    LET end == FirstFrom(t, 1, LAMBDA x : t[x] = "\n" /\ ~IsOpen(Before(t, x)))
    IN  IF t = <<>> THEN <<>> ELSE SplitRow(Before(t, end)) \o SubSeq(t, end, end) \o SplitRows(From(t, end + 1))
\* The result is kept only where it reads as the same tree.
SplitDictDisplays(t) == IF Parses(t) /\ Tree(SplitRows(t)) = Tree(t) THEN SplitRows(t) ELSE t

----------------------------------------------------------------------------
(* post_process_source.                                                    *)

CoreUp == {"core", "aggressive"}
At(levels, new) == IF level \in levels THEN new ELSE text
Trimmed(t) ==
    LET from == FirstFrom(t, 1, LAMBDA x : t[x] # "\n")
        to == Max({0} \cup {x \in DOMAIN t : t[x] # "\n"})
    IN  SubSeq(t, from, to) \o <<"\n">>

Init ==
    /\ source \in Sources /\ level \in {"none"} \cup CoreUp
    /\ text = source /\ literals = <<>> /\ step = "mask" /\ again = FALSE

Becomes(from, new, to) == step = from /\ text' = new /\ step' = to /\ UNCHANGED <<source, level, again>>
MaskMultilineStrings(from, keepPrint, to) ==
    LET spans == MaskedSpans(text, keepPrint)
    IN  /\ Becomes(from, Replaced(text, spans, Len(literals) + 1), to)
        /\ literals' = literals \o [x \in DOMAIN spans |-> Span(text, spans[x])]
Mask == MaskMultilineStrings("mask", TRUE, "tidy_print_calls")
TidyPrints == Becomes("tidy_print_calls", At(CoreUp, TidyPrintCalls(text)), "mask_rest") /\ UNCHANGED literals
MaskRest == MaskMultilineStrings("mask_rest", FALSE, "merge_imports")
Merge == Becomes("merge_imports", MergeImports(text), "strip_redundant_parens") /\ UNCHANGED literals
Strip == Becomes("strip_redundant_parens", StripRedundantParens(text), "collapse_blank_lines") /\ UNCHANGED literals
Collapse == Becomes("collapse_blank_lines", CollapseBlankLines(text), "replace_leaked_tuples") /\ UNCHANGED literals
Replace == Becomes("replace_leaked_tuples", ReplaceLeakedTuples(text), "flatten_elif") /\ UNCHANGED literals
FlattenElse == Becomes("flatten_elif", At(CoreUp, FlattenElif(text)), "unmask") /\ UNCHANGED literals
Unmask ==
    Becomes("unmask", Unmasked(Trimmed(text), literals), "split_dict_displays") /\ literals' = <<>>
Split == Becomes("split_dict_displays", At({"aggressive"}, SplitDictDisplays(text)), "done") /\ UNCHANGED literals
\* The layer is given its own result.
Again ==
    /\ step = "done" /\ ~again /\ again' = TRUE
    /\ source' = text /\ step' = "mask" /\ UNCHANGED <<level, text, literals>>

Next == Mask \/ TidyPrints \/ MaskRest \/ Merge \/ Strip \/ Collapse \/ Replace \/ FlattenElse \/ Unmask \/ Split \/ Again
Spec == Init /\ [][Next]_vars

----------------------------------------------------------------------------
(* Properties.                                                             *)

\* The transforms that say they preserve the tree of a text that parses.
Preserving == {"tidy_print_calls", "strip_redundant_parens", "collapse_blank_lines", "flatten_elif", "split_dict_displays"}
\* Each of them does: no row it joins, drops, moves or unwraps changes how Python reads the text
\* (PostProcessTransform.preserves_ast).
PreservesAst == [][(step \in Preserving /\ Parses(text)) => (Tree(text') = Tree(text))]_vars

\* Through all of them, strings taken out and put back, the program stays the same; of a run of
\* imports, what it loads and what each name ends up bound to stay the same.
SameProgram ==
    step = "done" /\ Parses(source) /\ ReplaceLeakedTuples(source) = source => Program(text) = Program(source)

\* What is written is Python, also where a function or class of the decompiler's own had to be
\* replaced (replace_leaked_tuples).
StaysPython == step = "done" => Parses(text)

\* A text that has been cleaned up is left as it is when it is cleaned up again: no transform
\* makes work for one that has already run.
Idempotent == step = "done" /\ again => text = source
============================================================================
