----------------------------- MODULE Compile311 -----------------------------
(***************************************************************************)
(* What CPython 3.11's compiler makes of a function body.  The compiler is  *)
(* not part of the repository: the decompiler is written against the shape  *)
(* of the code it emits, which its comments and its tests describe.         *)
(*                                                                          *)
(* A body is a sequence of statements [kind, cond, body, orelse]; a         *)
(* condition is an atom, its negation, or `and`/`or` of two conditions.     *)
(***************************************************************************)
EXTENDS Bytecode, SequencesExt

AtomCond == [kind |-> "atom"]
Not(c) == [kind |-> "not", arg |-> c]
And(c, d) == [kind |-> "and", left |-> c, right |-> d]
Or(c, d) == [kind |-> "or", left |-> c, right |-> d]

Simple(kind) == [kind |-> kind, cond |-> AtomCond, body |-> << >>, orelse |-> << >>]
Call == Simple("stmt")
Return == Simple("return")
Break == Simple("break")
Continue == Simple("continue")
If(cond, body, orelse) == [kind |-> "if", cond |-> cond, body |-> body, orelse |-> orelse]
For(body, orelse) == [kind |-> "for", cond |-> AtomCond, body |-> body, orelse |-> orelse]

(***************************************************************************)
(* Code generation.  An item is an instruction with the label it jumps to,  *)
(* or a label; labels are paths in the body.  artificial marks the jumps    *)
(* the compiler adds by itself (the end of a branch, the end of a loop).    *)
(***************************************************************************)
Item(op, label, artificial) == << [op |-> op, label |-> label, artificial |-> artificial] >>
Emit(op) == Item(op, << >>, FALSE)
Label(label) == Item("LABEL", label, FALSE)

Start(path) == path \o << 1 >>
Else(path) == path \o << 2 >>
End(path) == path \o << 3 >>
Body(path) == path \o << 4 >>
OrElse(path) == path \o << 5 >>
Cond(path) == path \o << 6 >>

(* compiler_jump_if: jump to label when the condition is value. *)
RECURSIVE JumpIf(_, _, _, _)
JumpIf(c, label, value, path) ==
    CASE c.kind = "atom" ->
           Item(IF value THEN "POP_JUMP_IF_TRUE" ELSE "POP_JUMP_IF_FALSE", label, FALSE)
      [] c.kind = "not" -> JumpIf(c.arg, label, ~value, Body(path))
      [] c.kind \in {"and", "or"} ->
           LET decides == c.kind = "or"
               out == IF decides = value THEN label ELSE End(path)
           IN  JumpIf(c.left, out, decides, Body(path))
               \o JumpIf(c.right, label, value, OrElse(path))
               \o IF decides = value THEN << >> ELSE Label(out)

RECURSIVE BodyCode(_, _, _), StatementCode(_, _, _)
(* loop is the path of the innermost loop. *)
StatementCode(s, path, loop) ==
    CASE s.kind = "stmt" -> Emit("STMT")
      [] s.kind = "return" -> Emit("RETURN_VALUE")
      [] s.kind = "break" -> Emit("POP_TOP") \o Item("JUMP", End(loop), FALSE)
      [] s.kind = "continue" -> Item("JUMP", Start(loop), FALSE)
      [] s.kind = "if" ->
           LET next == IF s.orelse = << >> THEN End(path) ELSE Else(path)
           IN  JumpIf(s.cond, next, FALSE, Cond(path))
               \o BodyCode(s.body, Body(path), loop)
               \o (IF s.orelse = << >> THEN << >>
                   ELSE Item("JUMP", End(path), TRUE) \o Label(next)
                        \o BodyCode(s.orelse, OrElse(path), loop))
               \o Label(End(path))
      [] s.kind = "for" ->
           Emit("GET_ITER") \o Label(Start(path)) \o Item("FOR_ITER", Else(path), FALSE)
           \o BodyCode(s.body, Body(path), path)
           \o Item("JUMP", Start(path), TRUE) \o Label(Else(path))
           \o BodyCode(s.orelse, OrElse(path), loop)
           \o Label(End(path))

BodyCode(body, path, loop) ==
    FlattenSeq([n \in DOMAIN body |-> StatementCode(body[n], Append(path, 10 + n), loop)])

(***************************************************************************)
(* The flow graph optimizer: a jump the compiler added to another one goes  *)
(* where that one goes, code nothing reaches and jumps to the next          *)
(* instruction are removed.                                                 *)
(***************************************************************************)
IsLabel(item) == item.op = "LABEL"

(* The first instruction at or after index i. *)
RECURSIVE InstructionAt(_, _)
InstructionAt(items, i) == IF IsLabel(items[i]) THEN InstructionAt(items, i + 1) ELSE i

Target(items, label) ==
    InstructionAt(items, CHOOSE i \in DOMAIN items : IsLabel(items[i]) /\ items[i].label = label)

RECURSIVE Threaded(_)
Threaded(items) ==
    LET lands(i) == items[Target(items, items[i].label)]
        movable == {i \in DOMAIN items : /\ items[i].op = "JUMP" /\ items[i].artificial
                                         /\ lands(i).op = "JUMP" /\ lands(i).artificial
                                         /\ lands(i).label # items[i].label}
    IN  IF movable = {} THEN items
        ELSE LET i == Min(movable) IN Threaded([items EXCEPT ![i].label = lands(i).label])

Successors(items, i) ==
    (IF items[i].op \in {"JUMP", "RETURN_VALUE", "RETURN_NONE"} THEN {} ELSE {i + 1})
    \cup (IF IsLabel(items[i]) \/ items[i].label = << >> THEN {}
          ELSE {Target(items, items[i].label)})

RECURSIVE Reached(_, _, _)
Reached(items, seen, from) ==
    IF from = {} THEN seen
    ELSE LET more == UNION {Successors(items, i) : i \in from} \ seen
         IN  Reached(items, seen \cup more, more)

InOrder(items, S) == SelectSeq([i \in DOMAIN items |-> i], LAMBDA i : i \in S)
Kept(items, S) == LET order == InOrder(items, S) IN SubSeq([n \in DOMAIN order |-> items[order[n]]], 1, Len(order))

RECURSIVE Cleaned(_)
Cleaned(items) ==
    LET live == Reached(items, {1}, {1}) \cup {i \in DOMAIN items : IsLabel(items[i])}
        useless == {i \in DOMAIN items : /\ items[i].op = "JUMP"
                                         /\ Target(items, items[i].label) = InstructionAt(items, i + 1)}
    IN  IF live # DOMAIN items THEN Cleaned(Kept(items, live))
        ELSE IF useless # {} THEN Cleaned(Kept(items, DOMAIN items \ useless))
        ELSE items

(* Offsets for labels; instructions are named by their offsets, a FOR_ITER  *)
(* by the GET_ITER it follows.                                              *)
Assembled(items) ==
    LET instrs == {i \in DOMAIN items : ~IsLabel(items[i])}
        order == InOrder(items, instrs)
        offset(i) == Cardinality({j \in instrs : j <= i})
        target(i) == IF items[i].label = << >> THEN 0 ELSE offset(Target(items, items[i].label))
        name(n) == LET op == items[order[n]].op
                   IN  CASE op \in {"STMT", "RETURN_VALUE", "GET_ITER"} \cup ConditionalJumps -> n
                         [] op = "FOR_ITER" -> n - 1
                         [] OTHER -> 0
    IN  [n \in DOMAIN order |->
           LET i == order[n]
           IN  [op |-> IF items[i].op # "JUMP" THEN items[i].op
                       ELSE IF target(i) > n THEN "JUMP_FORWARD" ELSE "JUMP_BACKWARD",
                id |-> name(n),
                target |-> target(i)]]

(* The last statement of every function is a call: without one, the exits   *)
(* of the branches before it would be copies of the implicit return.        *)
Compile(body) ==
    Assembled(Cleaned(Threaded(
        BodyCode(Append(body, Call), << >>, << >>) \o Emit("RETURN_NONE"))))

(***************************************************************************)
(* The bodies with n statements, nested at most d deep.                     *)
(***************************************************************************)
RECURSIVE Bodies(_, _, _, _), StatementsOf(_, _, _, _)

Leaving == {Return, Break, Continue}

StatementsOf(n, d, inLoop, conds) ==
    (IF n # 1 THEN {} ELSE {Call, Return} \cup (IF inLoop THEN {Break, Continue} ELSE {}))
    \cup (IF d = 0 \/ n < 2 THEN {}
          ELSE UNION {LET orelses == IF k = n - 1 THEN {<< >>} ELSE Bodies(n - 1 - k, d - 1, inLoop, conds)
                      IN  {If(c, b, e) : c \in conds, b \in Bodies(k, d - 1, inLoop, conds), e \in orelses}
                          \cup {For(b, e) : b \in Bodies(k, d - 1, TRUE, conds), e \in orelses}
                      : k \in 1 .. n - 1})

(* No statement follows one that leaves the body. *)
Bodies(n, d, inLoop, conds) ==
    {<< s >> : s \in StatementsOf(n, d, inLoop, conds)}
    \cup UNION {{<< s >> \o rest : s \in StatementsOf(k, d, inLoop, conds) \ Leaving,
                                   rest \in Bodies(n - k, d, inLoop, conds)} : k \in 1 .. n - 1}
=============================================================================
