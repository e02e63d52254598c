---------------------------- MODULE MC_CleanUp ----------------------------
(***************************************************************************)
(* Texts a backend writes, before they are cleaned up.                     *)
(***************************************************************************)
EXTENDS CleanUp

\* Blocks: rows one level deeper.
Deeper(rows) == [x \in DOMAIN rows |-> IF rows[x].t = <<>> THEN rows[x] ELSE [rows[x] EXCEPT !.indent = @ + 1]]
If(w, body) == <<Row(0, <<w, "a", ":">>)>> \o Deeper(body)
For(body) == <<Row(0, <<"for", "i", "in", "b", ":">>)>> \o Deeper(body)
Else(body) == <<Row(0, <<"else", ":">>)>> \o Deeper(body)
Plain == <<Row(0, <<"s">>)>>
\* Statements whose blocks are among the given ones.
Statements(bodies) ==
    {Plain} \cup {If("if", b) : b \in bodies} \cup {For(b) : b \in bodies}
    \cup UNION {{If("if", b) \o Else(c), If("if", b) \o If("elif", c), For(b) \o Else(c), If("if", Plain) \o If("elif", b) \o Else(c)} : <<b, c>> \in bodies \X bodies}
Suites(bodies) == UNION {{s, Plain \o s \o Plain} : s \in Statements(bodies)}
One == Statements({Plain})
Blocks == Suites(Statements({Plain})) \cup {If("if", Plain) \o Else(If("if", b) \o Else(c)) : b \in One, c \in One}
BlockTexts == {Text(b) : b \in Blocks}

\* Imports.
ImportRowsOf == {Row(0, <<"import", "m">>), Row(0, <<"import", "n">>), Row(0, <<"import", "m", ".", "k">>),
                 Row(0, <<"import", "m", "as", "x">>), Row(0, <<"import", "n", "as", "x">>), Row(0, <<"from", "m", "import", "x">>),
                 Row(0, <<"from", "m", "import", "y", "as", "x">>), Row(0, <<"from", "n", "import", "x">>)}
ImportTexts ==
    {Text(<<r, s, t>>) : r \in ImportRowsOf, s \in ImportRowsOf, t \in {Row(0, <<"import", "m", "as", "x">>), Row(0, <<"from", "m", "import", "x">>), Row(0, <<"import", "m">>)}}
    \cup {Text(<<r, s, Row(0, <<"if", "a", ":">>), [s EXCEPT !.indent = 1], Row(0, <<"s">>), r>>) : r \in ImportRowsOf, s \in ImportRowsOf}

\* One expression in each place where parentheses may be dropped.
Expressions == {<<"a">>, <<"a", ",", "b">>, <<"yield", "a">>, <<"w", ":=", "a">>, <<"a", "+", "b">>, <<"f", "(", "a", ")">>, <<"a", ")", "+", "(", "b">>,
                <<"{", "a", ":", "b", ",", "c", ":", "(", "yield", "d", ")", "}">>,
                <<"{", "a", ":", "{", "b", ":", "c", ",", "**", "d", "}", ",", "e", ":", "[", "{", "b", ":", "c", ",", "d", ":", "a", "}", "]", "}">>}
Places(e) == {<<"x", "=", "(">> \o e \o <<")">>, <<"x", ".", "y", "+=", "(">> \o e \o <<")">>, <<"return", "(">> \o e \o <<")">>,
              <<"print", "(", "(">> \o e \o <<")", ")">>, <<"print", "(", "(">> \o e \o <<")", ",", "b", ")">>,
              <<"x", "=", "(", "x", "+=", "b", ")">>}
Tests(e) == {<<Row(0, <<w, "(">> \o e \o <<")", ":">>), Row(1, <<"s">>)>> : w \in {"if", "while"}}
LineTexts ==
    UNION {{Text(<<Row(0, t), Row(0, <<>>), Row(0, <<>>), Row(0, <<>>), Row(0, <<"s">>)>>) : t \in Places(e)} : e \in Expressions}
    \cup UNION {{Text(rows) : rows \in Tests(e)} : e \in Expressions}
    \cup {Text(<<Row(0, <<"if", "a", ":">>), Row(1, <<"s">>), Row(0, <<"else", ":">>), Row(1, <<"if">> \o e \o <<":">>), Row(2, <<"s">>)>>) : e \in Expressions \ {<<"a", ",", "b">>, <<"yield", "a">>, <<"a", ")", "+", "(", "b">>}}

\* Strings of several rows, in each place where one may stand.
Contents == {<<"a", "\n", "else", ":", "\n", "if", "a", ":", "\n">>, <<"a", "\n", "\n", "\n", "\n", "b">>, <<"\n", "import", "m", "\n", "import", "m", "\n">>,
             <<"\n", "print", "(", "(", "a", ")", ")", "\n">>, <<"a", ")", "\n", "b">>, <<"a">>}
\* A string that looks like a leaked tuple; a print call would bring it on one row, where it is taken for one.
LooksLeaked == <<"\n", "x", "=", "(", "'func'", ",", "a", ")">>
String(c) == <<"TQ">> \o c \o <<"TQ">>
InString(c) == {<<Row(0, String(c)), Row(0, <<"s">>)>>, <<Row(0, <<"x", "=", "(">> \o String(c) \o <<")">>)>>, <<Row(0, <<"print", "(">> \o String(c) \o <<")">>)>>,
                <<Row(0, <<"print", "(", "(">> \o String(c) \o <<")", ",", "b", ")">>)>>,
                <<Row(0, <<"if", "f", "(">> \o String(c) \o <<")", ":">>), Row(1, <<"s">>), Row(0, <<"else", ":">>), Row(1, <<"if", "a", ":">>), Row(2, String(c))>>}
StringTexts == {Text(<<Row(0, <<"x", "=">> \o String(LooksLeaked))>>)} \cup {Text(r) : r \in UNION {InString(c) : c \in Contents}} \cup {Text(r \o q) : r \in InString(<<"a", "\n", "else", ":", "\n", "if", "a", ":", "\n">>), q \in InString(<<"a", "\n", "\n", "\n", "b">>)}

\* What the decompiler could not rebuild.
Leaks == {Text(<<Row(0, <<"x", "=", "(", k, ",">> \o t \o <<")">>), Row(0, <<"s">>)>>) :
             k \in {"'func'", "'class'"}, t \in {<<"a">>, <<"lambda", "a", ":", "f", "(", "'k'", ")">>}}
         \cup {Text(<<Row(0, <<"if", "a", ":">>), Row(1, <<"def", "<lambda>", "(", "x", ")", ":">>), Row(2, <<"s">>), Blank, Row(2, <<"s">>), Row(0, <<"s">>)>>)}

\* A tuple of the program's own that looks like one of the decompiler's, as an argument.
KeywordTuples == {Text(<<Row(0, <<"f", "(", "k", "=", "(", k, ",", "a", ")", ")">>), Row(0, <<"s">>)>>) : k \in {"'func'", "'class'"}}

MCSources == BlockTexts \cup ImportTexts \cup LineTexts \cup StringTexts \cup Leaks
=============================================================================
