---------------------------- MODULE Compile310 ----------------------------
(***************************************************************************)
(* The code CPython 3.10 compiles try, with and for statements to: blocks  *)
(* set up by SETUP_FINALLY and SETUP_WITH, the unwinding of those a        *)
(* return, break or continue leaves, and the passes over the control flow  *)
(* graph that decide the layout the decompiler sees (compile.c: empty      *)
(* blocks, jumps to jumps, small exits copied to where they are jumped to, *)
(* unreachable code, and the lines of instructions that have none).        *)
(*                                                                         *)
(* A statement is its kind k, its line, and its parts.  An instruction is  *)
(* its op, the name id it loads or stores (0: none, or the constant None), *)
(* its argument n, the instruction `to` it jumps to and its line (0: none).*)
(***************************************************************************)
EXTENDS Integers, SequencesExt, FiniteSets

Stmt(k) == [k |-> k, line |-> 0, body |-> <<>>, clauses |-> <<>>, orelse |-> <<>>, final |-> <<>>]
Clause(typed, named, body) == [typed |-> typed, named |-> named, line |-> 0, body |-> body]

RECURSIVE Lines(_), Numbered(_, _), Emit(_, _, _), Unwind(_, _, _, _, _)

\* The lines a block of statements takes: one for each statement and clause.
Lines(stmts) ==
    FoldLeft(LAMBDA n, s : n + 1 + Lines(s.body) + Lines(s.orelse) + Lines(s.final)
                             + FoldLeft(LAMBDA m, c : m + 1 + Lines(c.body), 0, s.clauses), 0, stmts)
Numbered(stmts, first) ==
    IF stmts = <<>> THEN <<>>
    ELSE LET s == stmts[1]
             body == Numbered(s.body, first + 1)
             at(x) == first + 1 + Lines(s.body)
                        + FoldLeft(LAMBDA m, c : m + 1 + Lines(c.body), 0, SubSeq(s.clauses, 1, x - 1))
             after == at(Len(s.clauses) + 1)
         IN  <<[s EXCEPT !.line = first, !.body = body, !.orelse = Numbered(@, after),
                         !.final = Numbered(@, after + Lines(s.orelse)),
                         !.clauses = [x \in DOMAIN s.clauses |-> [s.clauses[x] EXCEPT !.line = at(x), !.body = Numbered(@, at(x) + 1)]]]>>
             \o Numbered(Tail(stmts), first + Lines(<<s>>))

----------------------------------------------------------------------------
(* Emission.  Jumps name labels; `tag` keeps the labels of the copies of a finally body apart. *)

Ins(op, id, n, lab, line) == [op |-> op, id |-> id, n |-> n, lab |-> lab, line |-> line]
Plain(op, line) == Ins(op, 0, 0, <<>>, line)
Jump(op, lab, line) == Ins(op, 0, 0, lab, line)
Label(lab) == Ins("LABEL", 0, 0, lab, 0)
LoadNone(line) == Plain("LOAD_CONST", line)
CallOf(id, line) == <<Ins("LOAD_GLOBAL", id, 0, <<>>, line), Ins("CALL_FUNCTION", 0, 0, <<>>, line)>>
Ops(ops, line) == [x \in DOMAIN ops |-> Plain(ops[x], line)]
Unbind(id, line) == <<LoadNone(line), Ins("STORE_FAST", id, 0, <<>>, line), Ins("DELETE_FAST", id, 0, <<>>, line)>>
ExitCall(line) == <<LoadNone(line), Plain("DUP_TOP", line), Plain("DUP_TOP", line), Ins("CALL_FUNCTION", 0, 3, <<>>, line)>>

\* What is open around a statement: its kind, the finally body, whether an exception has a name, its
\* line, and where continue and break go.
Open(k, final, named, line, start, exit) == [k |-> k, final |-> final, named |-> named, line |-> line, start |-> start, exit |-> exit]

\* compiler_unwind_fblock: leaving the innermost of `ctx`; `keep` when a value to return is on the stack.
UnwindOne(ctx, line, keep, tag) ==
    LET f == Last(ctx)
        kept(op) == IF keep THEN <<Plain(op, line)>> ELSE <<>>
        left == Front(ctx) \o (IF keep THEN <<Open("value", <<>>, FALSE, 0, <<>>, <<>>)>> ELSE <<>>)
    IN  CASE f.k \in {"handler", "loop end"} -> [code |-> <<>>, line |-> line]
          [] f.k \in {"for", "value"} -> [code |-> kept("ROT_TWO") \o Ops(<<"POP_TOP">>, line), line |-> line]
          [] f.k = "try" -> [code |-> Ops(<<"POP_BLOCK">>, line), line |-> line]
          [] f.k = "finally" -> [code |-> Ops(<<"POP_BLOCK">>, line) \o Emit(f.final, left, tag \o <<Len(ctx)>>), line |-> 0]
          [] f.k = "finally end" -> [code |-> kept("ROT_FOUR") \o Ops(<<"POP_TOP", "POP_TOP", "POP_TOP">>, line) \o kept("ROT_FOUR")
                                               \o Ops(<<"POP_EXCEPT">>, line), line |-> line]
          [] f.k = "with" -> [code |-> Ops(<<"POP_BLOCK">>, f.line) \o (IF keep THEN Ops(<<"ROT_TWO">>, f.line) ELSE <<>>)
                                        \o ExitCall(f.line) \o Ops(<<"POP_TOP">>, f.line), line |-> 0]
          [] f.k = "clause" -> [code |-> (IF f.named THEN Ops(<<"POP_BLOCK">>, line) ELSE <<>>) \o kept("ROT_FOUR") \o Ops(<<"POP_EXCEPT">>, line)
                                          \o (IF f.named THEN Unbind(f.line, line) ELSE <<>>), line |-> line]
\* compiler_unwind_fblock_stack: down to the `depth` innermost that stay.
Unwind(ctx, depth, line, keep, tag) ==
    IF Len(ctx) <= depth THEN [code |-> <<>>, line |-> line]
    ELSE LET one == UnwindOne(ctx, line, keep, tag)
             rest == Unwind(Front(ctx), depth, one.line, keep, tag)
         IN  [code |-> one.code \o rest.code, line |-> rest.line]

Return(s, ctx, tag) ==
    LET keep == s.k = "return value"
        left == Unwind(ctx, 0, s.line, keep, tag \o <<s.line>>)
    IN  (IF keep THEN CallOf(s.line, s.line) ELSE <<Plain("NOP", s.line)>>) \o left.code
        \o (IF keep THEN <<>> ELSE <<LoadNone(left.line)>>) \o <<Plain("RETURN_VALUE", left.line)>>
Leave(s, ctx, tag) ==
    LET at == Max({x \in DOMAIN ctx : ctx[x].k = "for"})
        left == Unwind(ctx, IF s.k = "break" THEN at - 1 ELSE at, s.line, FALSE, tag \o <<s.line>>)
    IN  <<Plain("NOP", s.line)>> \o left.code
        \o <<Jump("JUMP_ABSOLUTE", IF s.k = "break" THEN ctx[at].exit ELSE ctx[at].start, left.line)>>

Lab(tag, s, role) == tag \o <<0, s.line, role>>
If(s, ctx, tag) ==
    CallOf(s.line, s.line) \o <<Jump("POP_JUMP_IF_FALSE", Lab(tag, s, 1), s.line)>> \o Emit(s.body, ctx, tag)
    \o (IF s.orelse = <<>> THEN <<>> ELSE <<Jump("JUMP_FORWARD", Lab(tag, s, 2), 0)>>)
    \o <<Label(Lab(tag, s, 1))>> \o Emit(s.orelse, ctx, tag) \o <<Label(Lab(tag, s, 2))>>
For(s, ctx, tag) ==
    <<Ins("LOAD_GLOBAL", s.line, 0, <<>>, s.line), Plain("GET_ITER", s.line), Label(Lab(tag, s, 1)),
      Jump("FOR_ITER", Lab(tag, s, 2), s.line), Ins("STORE_FAST", s.line, 0, <<>>, s.line)>>
    \o Emit(s.body, Append(ctx, Open("for", <<>>, FALSE, 0, Lab(tag, s, 1), Lab(tag, s, 3))), tag)
    \o <<Jump("JUMP_ABSOLUTE", Lab(tag, s, 1), 0), Label(Lab(tag, s, 2))>> \o Emit(s.orelse, ctx, tag) \o <<Label(Lab(tag, s, 3))>>
With(s, ctx, tag) ==
    CallOf(s.line, s.line) \o <<Jump("SETUP_WITH", Lab(tag, s, 1), s.line), Plain("POP_TOP", s.line)>>
    \o Emit(s.body, Append(ctx, Open("with", <<>>, FALSE, s.line, <<>>, <<>>)), tag) \o Ops(<<"POP_BLOCK">>, 0)
    \o ExitCall(s.line) \o <<Plain("POP_TOP", s.line), Jump("JUMP_FORWARD", Lab(tag, s, 2), s.line),
      Label(Lab(tag, s, 1)), Plain("WITH_EXCEPT_START", s.line), Jump("POP_JUMP_IF_TRUE", Lab(tag, s, 3), s.line),
      Ins("RERAISE", 0, 1, <<>>, s.line), Label(Lab(tag, s, 3))>>
    \o Ops(<<"POP_TOP", "POP_TOP", "POP_TOP", "POP_EXCEPT", "POP_TOP">>, s.line) \o <<Label(Lab(tag, s, 2))>>

ClauseCode(s, x, ctx, tag) ==
    LET c == s.clauses[x]
        next == Lab(tag, s, 10 + x)
        cleanup == Lab(tag, s, 30 + x)
        body == Emit(c.body, ctx \o <<Open("handler", <<>>, FALSE, 0, <<>>, <<>>), Open("clause", <<>>, c.named, c.line, <<>>, <<>>)>>, tag)
    IN  (IF c.typed THEN <<Plain("DUP_TOP", c.line), Ins("LOAD_GLOBAL", c.line, 0, <<>>, c.line),
                           Jump("JUMP_IF_NOT_EXC_MATCH", next, c.line)>> ELSE <<>>)
        \o <<Plain("POP_TOP", c.line)>>
        \o (IF c.named
            THEN <<Ins("STORE_FAST", c.line, 0, <<>>, c.line), Plain("POP_TOP", c.line), Jump("SETUP_FINALLY", cleanup, c.line)>> \o body
                 \o Ops(<<"POP_BLOCK", "POP_EXCEPT">>, 0) \o Unbind(c.line, 0) \o <<Jump("JUMP_FORWARD", Lab(tag, s, 2), 0), Label(cleanup)>>
                 \o Unbind(c.line, 0) \o <<Ins("RERAISE", 0, 1, <<>>, 0)>>
            ELSE Ops(<<"POP_TOP", "POP_TOP">>, c.line) \o body \o Ops(<<"POP_EXCEPT">>, 0) \o <<Jump("JUMP_FORWARD", Lab(tag, s, 2), 0)>>)
        \o <<Label(next)>>
TryExcept(s, ctx, tag) ==
    <<Jump("SETUP_FINALLY", Lab(tag, s, 1), s.line)>> \o Emit(s.body, Append(ctx, Open("try", <<>>, FALSE, 0, <<>>, <<>>)), tag)
    \o Ops(<<"POP_BLOCK">>, 0) \o Emit(s.orelse, ctx, tag) \o <<Jump("JUMP_FORWARD", Lab(tag, s, 2), 0), Label(Lab(tag, s, 1))>>
    \o FlattenSeq([x \in DOMAIN s.clauses |-> ClauseCode(s, x, ctx, tag)])
    \o <<Ins("RERAISE", 0, 0, <<>>, 0), Label(Lab(tag, s, 2))>>
\* The line of the last instruction of a block that has one.
LastLine(code) == LET lined == SelectSeq(code, LAMBDA i : i.line # 0) IN IF lined = <<>> THEN 0 ELSE Last(lined).line
TryFinally(s, ctx, tag) ==
    LET inner == Append(ctx, Open("finally", s.final, FALSE, 0, <<>>, <<>>))
        handler == Emit(s.final, Append(ctx, Open("finally end", <<>>, FALSE, 0, <<>>, <<>>)), tag \o <<2>>)
    IN  <<Jump("SETUP_FINALLY", Lab(tag, s, 3), s.line)>>
        \o (IF s.clauses # <<>> THEN TryExcept(s, inner, tag) ELSE Emit(s.body, inner, tag)) \o Ops(<<"POP_BLOCK">>, 0)
        \o Emit(s.final, ctx, tag \o <<1>>) \o <<Jump("JUMP_FORWARD", Lab(tag, s, 4), 0), Label(Lab(tag, s, 3))>> \o handler
        \o <<Ins("RERAISE", 0, 0, <<>>, LastLine(handler)), Label(Lab(tag, s, 4))>>

StatementCode(s, ctx, tag) ==
    CASE s.k = "call" -> CallOf(s.line, s.line) \o Ops(<<"POP_TOP">>, s.line)
      [] s.k = "raise" -> <<Ins("LOAD_GLOBAL", s.line, 0, <<>>, s.line), Ins("RAISE_VARARGS", 0, 1, <<>>, s.line)>>
      [] s.k = "pass" -> <<Plain("NOP", s.line)>>
      [] s.k \in {"return", "return value"} -> Return(s, ctx, tag)
      [] s.k \in {"break", "continue"} -> Leave(s, ctx, tag)
      [] s.k = "if" -> If(s, ctx, tag)
      [] s.k = "for" -> For(s, ctx, tag)
      [] s.k = "with" -> With(s, ctx, tag)
      [] s.k = "try" -> IF s.final = <<>> THEN TryExcept(s, ctx, tag) ELSE TryFinally(s, ctx, tag)
Emit(stmts, ctx, tag) == FlattenSeq([x \in DOMAIN stmts |-> StatementCode(stmts[x], ctx, tag)])

----------------------------------------------------------------------------
(* Layout.  A graph is a sequence of blocks (sequences of instructions) in the order they are written;
   a jump goes to the number of a block.                                                            *)

Setups == {"SETUP_FINALLY", "SETUP_WITH"}
Gotos == {"JUMP_FORWARD", "JUMP_ABSOLUTE"}
Jumps == Setups \cup Gotos \cup {"POP_JUMP_IF_FALSE", "POP_JUMP_IF_TRUE", "FOR_ITER", "JUMP_IF_NOT_EXC_MATCH"}
Exits == {"RETURN_VALUE", "RAISE_VARARGS", "RERAISE"}

\* A block starts at a label and after a jump or an exit.
BlockStarts(code) == {x \in DOMAIN code : code[x].op = "LABEL" \/ x = 1 \/ code[x - 1].op \in Jumps \cup Exits}
ToBlocks(code) ==
    LET starts == SelectSeq([x \in 1..Len(code) + 1 |-> x], LAMBDA x : x \in BlockStarts(code) \cup {Len(code) + 1})
        number(lab) == CHOOSE b \in 1..Len(starts) - 1 : code[starts[b]].op = "LABEL" /\ code[starts[b]].lab = lab
        block(b) == SelectSeq(SubSeq(code, starts[b], starts[b + 1] - 1), LAMBDA i : i.op # "LABEL")
        at(i) == [op |-> i.op, id |-> i.id, n |-> i.n, to |-> IF i.op \in Jumps THEN number(i.lab) ELSE 0, line |-> i.line]
    IN  [b \in 1..Len(starts) - 1 |-> LET ins == block(b) IN [x \in DOMAIN ins |-> at(ins[x])]]

Empty(b) == b = <<>>
EndsIn(b, ops) == b # <<>> /\ Last(b).op \in ops
\* The first block from `b` on that has an instruction.
Full(g, b) == Min({c \in b..Len(g) : ~Empty(g[c])})
MapIns(g, F(_)) == [b \in DOMAIN g |-> [x \in DOMAIN g[b] |-> F(g[b][x])]]
Retargeted(g) == MapIns(g, LAMBDA i : IF i.op \in Jumps THEN [i EXCEPT !.to = Full(g, i.to)] ELSE i)

RECURSIVE Threaded(_, _, _)
\* A jump to a jump goes where that one goes.
Threaded(g, i, budget) ==
    LET t == g[i.to][1]
    IN  IF budget > 0 /\ i.op \in Gotos \cup {"POP_JUMP_IF_FALSE", "POP_JUMP_IF_TRUE", "FOR_ITER"} /\ t.op \in Gotos
           /\ t.line \in {0, i.line} /\ t.to # i.to /\ (i.op \in Gotos \/ t.op = "JUMP_FORWARD")
        THEN Threaded(g, [i EXCEPT !.to = t.to, !.op = IF i.op \in Gotos THEN t.op ELSE i.op], budget - 1) ELSE i
ThreadJumps(g) == MapIns(g, LAMBDA i : IF i.op \in Jumps THEN Threaded(g, i, 5) ELSE i)

\* clean_basic_block: a NOP stays only where a line would be lost.
Cleaned(b, prev, next) ==
    LET Keep(acc, x) ==
          LET i == b[x]
              last == IF acc = <<>> THEN prev ELSE Last(acc).line
              follows == IF x < Len(b) THEN b[x + 1].line ELSE next
          IN  IF i.op # "NOP" THEN Append(acc, [i EXCEPT !.line = IF @ = 0 /\ x > 1 /\ b[x - 1].op = "NOP" THEN b[x - 1].line ELSE @])
              ELSE IF i.line = 0 \/ i.line = last \/ i.line = follows \/ (x < Len(b) /\ follows = 0) THEN acc ELSE Append(acc, i)
    IN  FoldLeft(Keep, <<>>, [x \in DOMAIN b |-> x])
NextLine(g, b) == IF \E c \in b + 1..Len(g) : ~Empty(g[c]) THEN g[Full(g, b + 1)][1].line ELSE 0
CleanAll(g) == [b \in DOMAIN g |-> Cleaned(g[b], 0, NextLine(g, b))]

\* extend_block: a small exit is copied over the jump to it.
Extended(g) ==
    [b \in DOMAIN g |->
        IF EndsIn(g[b], Gotos) /\ EndsIn(g[Last(g[b]).to], Exits) /\ Len(g[Last(g[b]).to]) <= 4
        THEN Front(g[b]) \o <<[Last(g[b]) EXCEPT !.op = "NOP", !.to = 0]>> \o g[Last(g[b]).to] ELSE g[b]]

Falls(b) == ~EndsIn(b, Gotos \cup Exits)
Follows(g, b) == {c \in DOMAIN g : c = b + 1 /\ Falls(g[b])} \cup {i.to : i \in {j \in Range(g[b]) : j.op \in Jumps}}
RECURSIVE Reach(_, _)
Reach(g, S) == LET more == S \cup UNION {Follows(g, b) : b \in S} IN IF more = S THEN S ELSE Reach(g, more)
DropUnreachable(g) == [b \in DOMAIN g |-> IF b \in Reach(g, {1}) THEN g[b] ELSE <<>>]
CleanInOrder(g) ==
    [b \in DOMAIN g |-> Cleaned(g[b], IF b > 1 /\ g[b - 1] # <<>> /\ Falls(g[b - 1]) THEN Last(g[b - 1]).line ELSE 0, NextLine(g, b))]
\* A jump to the next block is no jump.
DropRedundant(g) ==
    [b \in DOMAIN g |-> IF EndsIn(g[b], Gotos) /\ Last(g[b]).to > b /\ Last(g[b]).to = Full(g, b + 1)
                        THEN Cleaned(Append(Front(g[b]), [Last(g[b]) EXCEPT !.op = "NOP", !.to = 0]), 0, NextLine(g, b)) ELSE g[b]]

Comers(g, b) == {c \in DOMAIN g : ~Empty(g[c]) /\ (\E i \in Range(g[c]) : i.op \in Jumps /\ i.to = b)}
Before(g, b) == {c \in 1..b - 1 : ~Empty(g[c]) /\ Falls(g[c]) /\ Full(g, c + 1) = b}
\* duplicate_exits_without_lines: each jump to an exit without a line gets a copy of its own, after it.
Exposed(g) == {b \in DOMAIN g : EndsIn(g[b], Exits) /\ g[b][1].line = 0
                                 /\ Cardinality(Comers(g, b)) + Cardinality(Before(g, b)) > 1
                                 /\ \E c \in Comers(g, b) : ~EndsIn(g[c], Setups)}
RECURSIVE Duplicated(_)
Duplicated(g) ==
    LET b == Min(Exposed(g))
        c == Min({d \in Comers(g, b) : ~EndsIn(g[d], Setups)})
        copy == <<[g[b][1] EXCEPT !.line = Last(g[c]).line]>> \o Tail(g[b])
        moved == [g EXCEPT ![c] = Append(Front(@), [Last(@) EXCEPT !.to = Len(g) + 1])]
        shift(i) == IF i.to = Len(g) + 1 THEN [i EXCEPT !.to = b + 1] ELSE IF i.to > b THEN [i EXCEPT !.to = @ + 1] ELSE i
    IN  IF Exposed(g) = {} THEN g ELSE Duplicated(MapIns(InsertAt(moved, b + 1, copy), shift))

\* propagate_line_numbers: within a block, and into a block that is only entered from one place.
RECURSIVE Propagated(_, _)
Propagated(g, b) ==
    LET Fill(acc, i) == Append(acc, IF i.line = 0 /\ acc # <<>> THEN [i EXCEPT !.line = Last(acc).line] ELSE i)
        filled == FoldLeft(Fill, <<>>, g[b])
        line == Last(filled).line
        next == IF \E c \in b + 1..Len(g) : ~Empty(g[c]) THEN Full(g, b + 1) ELSE 0
        heirs == {c \in DOMAIN g : /\ ~Empty(g[c]) /\ g[c][1].line = 0
                                   /\ Cardinality(Comers(g, c)) + Cardinality(Before(g, c)) = 1
                                   /\ (c = next /\ Falls(g[b])) \/ (EndsIn(g[b], Jumps \ Setups) /\ Last(g[b]).to = c)}
        given == [[g EXCEPT ![b] = filled] EXCEPT ![CHOOSE c \in heirs : TRUE] = <<[@[1] EXCEPT !.line = line]>> \o Tail(@)]
    IN  IF b > Len(g) THEN g
        ELSE IF Empty(g[b]) THEN Propagated(g, b + 1)
        ELSE IF heirs = {} THEN Propagated([g EXCEPT ![b] = filled], b + 1)
        ELSE Propagated(IF Cardinality(heirs) = 1 THEN given
                        ELSE [c \in DOMAIN g |-> IF c = b THEN filled ELSE IF c \in heirs THEN <<[g[c][1] EXCEPT !.line = line]>> \o Tail(g[c]) ELSE g[c]], b + 1)

\* The instructions in a row, as dis shows them: a line only where it changes.
Linear(g) ==
    LET start(b) == 1 + Len(FlattenSeq(SubSeq(g, 1, b - 1)))
        row == FlattenSeq(g)
        line(x) == LET lined == {y \in 1..x - 1 : row[y].line # 0} IN IF lined = {} THEN 0 ELSE row[Max(lined)].line
        targets == {start(Full(g, i.to)) : i \in {j \in Range(row) : j.op \in Jumps}}
    IN  [x \in DOMAIN row |-> [op |-> row[x].op, id |-> row[x].id, n |-> row[x].n,
                               to |-> IF row[x].op \in Jumps THEN start(Full(g, row[x].to)) ELSE 0,
                               line |-> IF row[x].line = line(x) THEN 0 ELSE row[x].line, lands |-> x \in targets]]

Optimized(g) == DropRedundant(CleanInOrder(DropUnreachable(Extended(CleanAll(ThreadJumps(Retargeted(g)))))))
Compile(stmts) ==
    LET source == Numbered(stmts, 1)
        code == Emit(source, <<>>, <<>>) \o <<LoadNone(0), Plain("RETURN_VALUE", 0)>>
    IN  Linear(Propagated(Duplicated(Retargeted(Optimized(ToBlocks(code)))), 1))
=============================================================================
