---------------------------- MODULE BlockReplay ----------------------------
(***************************************************************************)
(* The main pass of pycrefine (decompiler/generic.py, GenericDecompiler):   *)
(* one walk over the instructions that keeps a stack of open blocks and     *)
(* writes the lines of the source as it goes.  A block is only known by the *)
(* offset it ends at and its type; where an `else:` starts, what a jump     *)
(* meant in the source and how deep a line is indented are all decided from *)
(* the blocks open at that moment, and no decision is taken back.           *)
(*                                                                          *)
(* Programs are code objects the prescans have run over: cond and suppress  *)
(* are prescan.compound_cond_map and prescan.compound_suppress              *)
(* (CompoundConditions.tla computes them), and inner_back_jumps is computed *)
(* below.  The other prescans find nothing in the code of Bytecode.tla: no  *)
(* `while`, `try`, `with`, conditional expression or `and`/`or` value.      *)
(***************************************************************************)
EXTENDS Bytecode, SequencesExt

CONSTANTS
    Programs,     (* prescanned code objects: records [code, cond, suppress] *)
    Base          (* the indent level of the body being decompiled: 1 for a function *)

ASSUME ProgramsAssumption ==
    \A p \in Programs :
        /\ p.code \in Seq([op : Opcodes, id : Nat, target : Nat])
        /\ IsCode(p.code)
        /\ p.cond \in [DOMAIN p.code -> Seq(Tokens)]
        /\ p.suppress \in SUBSET {i \in DOMAIN p.code : p.code[i].op \in ConditionalJumps}

ASSUME BaseAssumption == Base \in Nat \ {0}

VARIABLES
    prog,            (* the code object and what the prescans found in it *)
    pc,              (* self.pc: the next instruction; the end of the code when past it *)
    blocks,          (* self.blocks: the open blocks, outermost first *)
    indent_level,    (* self.indent_level *)
    reconstructed,   (* self.reconstructed: the lines written so far *)
    done             (* decompile() has returned *)

vars == <<prog, pc, blocks, indent_level, reconstructed, done>>

code == prog.code
Instr == code[pc]

(***************************************************************************)
(* Lines.  id is the statement, iterable or return value a line shows, cond *)
(* the tokens of a condition; at is the instruction a statement was read    *)
(* from (0 for the lines the main pass makes up).                           *)
(***************************************************************************)
Words == {"stmt", "return", "if", "while", "for", "else", "pass", "break", "continue"}
Headers == {"if", "while", "for", "else"}      (* the lines that end in ":" *)
Lines == [indent : Nat, word : Words, id : Nat, cond : Seq(Tokens), at : Nat]

Line(indent, word) == [indent |-> indent, word |-> word, id |-> 0, cond |-> << >>, at |-> 0]
Statement(indent, word, i) ==
    [indent |-> indent, word |-> word, id |-> code[i].id, cond |-> << >>, at |-> i]
Condition(indent, cond) == [Line(indent, "if") EXCEPT !.cond = cond]

(* The last line is a block header with no body yet. *)
BodyEmpty(lines) == lines # << >> /\ Last(lines).word \in Headers

(* _append_reconstructed: a clause header right after an `if` or `else` at  *)
(* the same indent gives the clause before it a `pass` for a body.          *)
Write(lines, line) ==
    IF line.word = "else" /\ lines # << >>
       /\ Last(lines).word \in {"if", "else"} /\ Last(lines).indent = line.indent
    THEN lines \o << Line(line.indent + 1, "pass"), line >>
    ELSE Append(lines, line)

(* A slip: blocks without a body are left as they are. *)
WithBodyUnchanged(lines, indent) == lines

(* A block that ends with no body is given a `pass`. *)
WithBody(lines, indent) == IF BodyEmpty(lines) THEN Append(lines, Line(indent, "pass")) ELSE lines

(***************************************************************************)
(* Blocks.                                                                  *)
(***************************************************************************)
BlockTypes == {"if", "else", "for", "while"}
Loops == {"for", "while"}
Branches == {"if", "else"}
Block(end, type) == [end |-> end, type |-> type]

OfType(types) == {b \in DOMAIN blocks : blocks[b].type \in types}
IsTopmost(b, S) == b \in S /\ \A c \in S : c <= b

(* A slip: the `else` ends where the jump goes, whatever block it is in. *)
ClipNothing(stack, start, else_end) == else_end

(* _clip_else_end: an `else` cannot run past the branch it sits in. *)
Clip(stack, start, else_end) ==
    IF stack # << >> /\ Last(stack).type \in Branches
       /\ start < Last(stack).end /\ Last(stack).end < else_end
    THEN Last(stack).end
    ELSE else_end

-----------------------------------------------------------------------------
Init ==
    /\ prog \in Programs
    /\ pc = 1
    /\ blocks = << >>
    /\ indent_level = Base
    /\ reconstructed = << >>
    /\ done = FALSE

PastTheEnd == pc = Len(code) + 1
NeedsClosing == blocks # << >> /\ (PastTheEnd \/ pc >= Last(blocks).end)
Next_pc(i) == pc' = i /\ UNCHANGED <<prog, done>>

(***************************************************************************)
(* _close_blocks: before every instruction, and once more at the end, the   *)
(* blocks that end here are closed, innermost first.                        *)
(***************************************************************************)
ForStarts(end) == {i \in 1 .. end - 1 : code[i].op = "FOR_ITER" /\ code[i].target = end}

(* Where the jumps from inside the loop go that land past its end. *)
LoopEscapes(end) ==
    {code[i].target : i \in {j \in 1 .. end - 1 :
        /\ IsJump(code[j]) /\ ~IsBackward(code[j]) /\ code[j].target > end
        /\ \A start \in ForStarts(end) : start < j}}

(* The end of the `else` clause of the `for` loop that ends at end, if it   *)
(* has one: something other than dropping the iterator must run there.      *)
LoopElseEnds(end) ==
    {t \in LoopEscapes(end) : /\ \A u \in LoopEscapes(end) : u <= t
                              /\ \E i \in end .. t - 1 : code[i].op # "POP_TOP"}

CloseBlock ==
    /\ ~done /\ NeedsClosing
    /\ Last(blocks).type = "for" => LoopElseEnds(Last(blocks).end) = {}
    /\ blocks' = Front(blocks)
    /\ indent_level' = indent_level - 1
    /\ reconstructed' = WithBody(reconstructed, indent_level)
    /\ UNCHANGED <<prog, pc, done>>

(* A slip: the loop's indent is dropped, the one of its `else` is not added. *)
CloseIntoElseOutside ==
    /\ ~done /\ NeedsClosing
    /\ Last(blocks).type = "for"
    /\ \E else_end \in LoopElseEnds(Last(blocks).end) :
          blocks' = Append(Front(blocks),
                           Block(Clip(Front(blocks), Last(blocks).end, else_end), "else"))
    /\ reconstructed' = Write(WithBody(reconstructed, indent_level), Line(indent_level - 1, "else"))
    /\ indent_level' = indent_level - 1
    /\ UNCHANGED <<prog, pc, done>>

CloseIntoElse ==
    /\ ~done /\ NeedsClosing
    /\ Last(blocks).type = "for"
    /\ \E else_end \in LoopElseEnds(Last(blocks).end) :
          blocks' = Append(Front(blocks),
                           Block(Clip(Front(blocks), Last(blocks).end, else_end), "else"))
    /\ reconstructed' = Write(WithBody(reconstructed, indent_level), Line(indent_level - 1, "else"))
    /\ UNCHANGED <<prog, pc, indent_level, done>>

(***************************************************************************)
(* _decompile_step and _handle_instruction.                                 *)
(***************************************************************************)
Handles(ops) == /\ ~done /\ ~NeedsClosing /\ ~PastTheEnd
                /\ Instr.op \in ops
                /\ pc \notin prog.suppress

(* A slip: the skipped instruction is read again. *)
SuppressedAgain ==
    /\ ~done /\ ~NeedsClosing /\ ~PastTheEnd
    /\ pc \in prog.suppress
    /\ Next_pc(pc)
    /\ UNCHANGED <<blocks, indent_level, reconstructed>>

(* A jump that is part of a compound condition: its operand is dropped. *)
Suppressed ==
    /\ ~done /\ ~NeedsClosing /\ ~PastTheEnd
    /\ pc \in prog.suppress
    /\ Next_pc(pc + 1)
    /\ UNCHANGED <<blocks, indent_level, reconstructed>>

(* GET_ITER leaves the iterable for FOR_ITER, POP_TOP finds the iterator    *)
(* already gone, and the implicit `return None` is not written.             *)
Quiet ==
    /\ Handles({"GET_ITER", "POP_TOP", "RETURN_NONE"})
    /\ Next_pc(pc + 1)
    /\ UNCHANGED <<blocks, indent_level, reconstructed>>

WriteStatement ==
    /\ Handles({"STMT", "RETURN_VALUE"})
    /\ reconstructed' = Append(reconstructed,
           Statement(indent_level, IF Instr.op = "STMT" THEN "stmt" ELSE "return", pc))
    /\ Next_pc(pc + 1)
    /\ UNCHANGED <<blocks, indent_level>>

(* _op_for_iter *)
OpenFor ==
    /\ Handles({"FOR_ITER"})
    /\ reconstructed' = Append(reconstructed, [Line(indent_level, "for") EXCEPT !.id = Instr.id])
    /\ indent_level' = indent_level + 1
    /\ blocks' = Append(blocks, Block(Instr.target, "for"))
    /\ Next_pc(pc + 1)

(***************************************************************************)
(* _op_conditional_jump: a test that no prescan claimed.                    *)
(***************************************************************************)
Precomputed == prog.cond[pc] # << >>
JumpsWhenTrue == Instr.op = "POP_JUMP_IF_TRUE"

(* The condition under which the jump is not taken. *)
FallsThroughOn ==
    IF Precomputed THEN prog.cond[pc]
    ELSE IF JumpsWhenTrue THEN Word("not") \o Atom(Instr)
    ELSE Atom(Instr)

(* An `and`/`or` chain: the `if` just opened ends where this jump goes. *)
ContinuesCondition ==
    /\ blocks # << >> /\ Last(blocks) = Block(Instr.target, "if")
    /\ reconstructed # << >> /\ Last(reconstructed).word = "if"

(* _loop_exit_break_index: the test leaves the innermost loop, a `while`.   *)
LeavesWhile ==
    /\ ~Precomputed
    /\ \E b \in DOMAIN blocks :
          /\ IsTopmost(b, OfType(Loops))
          /\ blocks[b].type = "while" /\ Instr.target >= blocks[b].end
          /\ blocks[b].end > 1 /\ IsBackward(code[blocks[b].end - 1])

JoinCondition ==
    /\ Handles(ConditionalJumps)
    /\ ContinuesCondition
    /\ LET or == JumpsWhenTrue /\ ~Precomputed
           cond == Last(reconstructed).cond \o Word(IF or THEN "or" ELSE "and") \o FallsThroughOn
       IN  reconstructed' = Append(Front(reconstructed), Condition(indent_level - 1, cond))
    /\ Next_pc(pc + 1)
    /\ UNCHANGED <<blocks, indent_level>>

(* A slip: the instruction after the test is taken for the loop's back-edge. *)
BreakWhenSkipping ==
    /\ Handles(ConditionalJumps)
    /\ ~ContinuesCondition /\ LeavesWhile
    /\ LET cond == IF JumpsWhenTrue THEN Atom(Instr) ELSE Word("not") \o Atom(Instr)
       IN  reconstructed' = reconstructed \o << Condition(indent_level, cond),
                                                Line(indent_level + 1, "break") >>
    /\ Next_pc(pc + 2)
    /\ UNCHANGED <<blocks, indent_level>>

(* `if cond: break`; the loop's own back-edge is consumed when it is next.  *)
BreakWhen ==
    /\ Handles(ConditionalJumps)
    /\ ~ContinuesCondition /\ LeavesWhile
    /\ LET cond == IF JumpsWhenTrue THEN Atom(Instr) ELSE Word("not") \o Atom(Instr)
       IN  reconstructed' = reconstructed \o << Condition(indent_level, cond),
                                                Line(indent_level + 1, "break") >>
    /\ \E b \in DOMAIN blocks :
          /\ IsTopmost(b, OfType(Loops))
          /\ Next_pc(IF pc + 2 = blocks[b].end THEN pc + 2 ELSE pc + 1)
    /\ UNCHANGED <<blocks, indent_level>>

OpenIf ==
    /\ Handles(ConditionalJumps)
    /\ ~ContinuesCondition /\ ~LeavesWhile
    /\ reconstructed' = Append(reconstructed, Condition(indent_level, FallsThroughOn))
    /\ indent_level' = indent_level + 1
    /\ blocks' = Append(blocks, Block(Instr.target, "if"))
    /\ Next_pc(pc + 1)

(***************************************************************************)
(* _forward_jump: `break` when the jump lands at or past the end of the     *)
(* innermost loop; else the end of the `then` branch of the `if` that ends  *)
(* right after the jump.                                                    *)
(***************************************************************************)
LeavesLoop ==
    \E b \in DOMAIN blocks : IsTopmost(b, OfType(Loops)) /\ Instr.target >= blocks[b].end

EndingIfs == {b \in OfType({"if"}) : blocks[b].end = pc + 1}

WriteBreak ==
    /\ Handles({"JUMP_FORWARD"})
    /\ LeavesLoop
    /\ reconstructed' = Append(reconstructed, Line(indent_level, "break"))
    /\ Next_pc(pc + 1)
    /\ UNCHANGED <<blocks, indent_level>>

(* The branches inside the matched `if` are closed with it. *)
OpenElse ==
    /\ Handles({"JUMP_FORWARD"})
    /\ ~LeavesLoop
    /\ \E m \in DOMAIN blocks :
          /\ IsTopmost(m, EndingIfs)
          /\ \A c \in OfType(Loops) : c < m
          /\ LET outer == SubSeq(blocks, 1, m - 1)
                 depth == indent_level - (Len(blocks) - m)
             IN  /\ blocks' = Append(outer, Block(Clip(outer, pc, Instr.target), "else"))
                 /\ reconstructed' = Write(WithBody(reconstructed, indent_level),
                                           Line(depth - 1, "else"))
                 /\ indent_level' = depth
    /\ Next_pc(pc + 1)

(* A loop still open inside the matched `if` stops the closing: what is     *)
(* above the loop is closed, and no `else` is opened.                       *)
StopAtLoop ==
    /\ Handles({"JUMP_FORWARD"})
    /\ ~LeavesLoop
    /\ \E m, c \in DOMAIN blocks :
          /\ IsTopmost(m, EndingIfs)
          /\ IsTopmost(c, OfType(Loops)) /\ c > m
          /\ blocks' = SubSeq(blocks, 1, c)
          /\ indent_level' = indent_level - (Len(blocks) - c)
          /\ reconstructed' = IF c < Len(blocks) THEN WithBody(reconstructed, indent_level)
                              ELSE reconstructed
    /\ Next_pc(pc + 1)

IgnoreForwardJump ==
    /\ Handles({"JUMP_FORWARD"})
    /\ ~LeavesLoop /\ EndingIfs = {}
    /\ Next_pc(pc + 1)
    /\ UNCHANGED <<blocks, indent_level, reconstructed>>

(***************************************************************************)
(* A jump back to the head of a loop that a later jump closes               *)
(* (_find_inner_back_jumps): `continue`, or the end of a branch that ends   *)
(* the loop's body (_emit_inner_back_jump).                                 *)
(***************************************************************************)
LaterBackEdges ==
    {f \in pc + 1 .. Len(code) : IsBackward(code[f]) /\ code[f].target = Instr.target}

IsInner(loop_end) == loop_end \in LaterBackEdges /\ \A f \in LaterBackEdges : loop_end <= f

(* The `if` that ends right after the jump, under `else` blocks that do.    *)
EndedIfs ==
    {m \in EndingIfs : \A c \in m + 1 .. Len(blocks) : blocks[c] = Block(pc + 1, "else")}

(* `if cond: continue` *)
ContinueIsTheBody == Len(blocks) \in EndedIfs /\ BodyEmpty(reconstructed)

(* _else_end_with_break_tail *)
ElseEndWithBreakTail(loop_end) ==
    LET exit == code[Instr.target].target
    IN  IF exit > loop_end + 1 THEN exit ELSE loop_end

(* Where the `then` branches of a chain whose jumps are behind us jump to.  *)
ChainEnds(else_end) ==
    {code[x].target : x \in {y \in 1 .. pc - 1 :
        IsJump(code[y]) /\ ~IsBackward(code[y]) /\ pc + 1 < code[y].target /\ code[y].target < else_end}}

BranchElseEnds(loop_end, nested) ==
    LET tail == ElseEndWithBreakTail(loop_end)
        ends == IF nested THEN ChainEnds(tail) ELSE {}
    IN  IF ends = {} THEN {tail} ELSE {t \in ends : \A u \in ends : t <= u}

WriteContinue ==
    /\ Handles({"JUMP_BACKWARD"})
    /\ \E loop_end \in LaterBackEdges :
          /\ IsInner(loop_end)
          /\ ContinueIsTheBody \/ (EndedIfs = {} /\ pc + 1 < loop_end)
    /\ reconstructed' = Append(reconstructed, Line(indent_level, "continue"))
    /\ Next_pc(pc + 1)
    /\ UNCHANGED <<blocks, indent_level>>

(* A slip: the `else` is written where the last line is, not where its `if` is. *)
OpenElseTooDeep ==
    /\ Handles({"JUMP_BACKWARD"})
    /\ ~ContinueIsTheBody
    /\ \E loop_end \in LaterBackEdges, m \in EndedIfs :
          /\ IsInner(loop_end) /\ pc + 1 < loop_end
          /\ LET outer == SubSeq(blocks, 1, m - 1)
                 depth == indent_level - (Len(blocks) - m)
             IN  /\ \E else_end \in BranchElseEnds(loop_end, m < Len(blocks)) :
                       blocks' = Append(outer, Block(Clip(outer, pc, else_end), "else"))
                 /\ reconstructed' =
                       Append(IF BodyEmpty(reconstructed)
                              THEN Append(reconstructed, Line(indent_level, "continue"))
                              ELSE reconstructed,
                              Line(indent_level - 1, "else"))
                 /\ indent_level' = depth
    /\ Next_pc(pc + 1)

OpenElseAtBackJump ==
    /\ Handles({"JUMP_BACKWARD"})
    /\ ~ContinueIsTheBody
    /\ \E loop_end \in LaterBackEdges, m \in EndedIfs :
          /\ IsInner(loop_end) /\ pc + 1 < loop_end
          /\ LET outer == SubSeq(blocks, 1, m - 1)
                 depth == indent_level - (Len(blocks) - m)
             IN  /\ \E else_end \in BranchElseEnds(loop_end, m < Len(blocks)) :
                       blocks' = Append(outer, Block(Clip(outer, pc, else_end), "else"))
                 /\ reconstructed' =
                       Append(IF BodyEmpty(reconstructed)
                              THEN Append(reconstructed, Line(indent_level, "continue"))
                              ELSE reconstructed,
                              Line(depth - 1, "else"))
                 /\ indent_level' = depth
    /\ Next_pc(pc + 1)

(* Nothing but the loop's own jump back follows. *)
IgnoreBackJump ==
    /\ Handles({"JUMP_BACKWARD"})
    /\ ~ContinueIsTheBody
    /\ \E loop_end \in LaterBackEdges : IsInner(loop_end) /\ pc + 1 >= loop_end
    /\ Next_pc(pc + 1)
    /\ UNCHANGED <<blocks, indent_level, reconstructed>>

(***************************************************************************)
(* The last jump back to a loop's head: a `continue` that ends an `else`    *)
(* with more of the body after it (_is_continue_in_loop_else); a `continue` *)
(* when an `if` is still open; an `if` turned into `while`                  *)
(* (_rewrite_if_as_while); or just the end of the loop.                     *)
(***************************************************************************)
ContinuesInElse ==
    /\ blocks # << >> /\ Last(blocks).type = "else"
    /\ Last(blocks).end <= pc + 1
    /\ pc + 1 < code[Instr.target].target

OpenIfs == {b \in OfType({"if"}) : blocks[b].end >= pc}

ContinueAtLastBackJump ==
    /\ Handles({"JUMP_BACKWARD"})
    /\ LaterBackEdges = {}
    /\ ContinuesInElse \/ \E b \in OpenIfs : IsTopmost(b, OpenIfs) /\ blocks[b].end > pc
    /\ reconstructed' = Append(reconstructed, Line(indent_level, "continue"))
    /\ Next_pc(pc + 1)
    /\ UNCHANGED <<blocks, indent_level>>

IfLines == {k \in DOMAIN reconstructed : reconstructed[k].word = "if"}

RewriteIfAsWhile ==
    /\ Handles({"JUMP_BACKWARD"})
    /\ LaterBackEdges = {} /\ ~ContinuesInElse
    /\ \E b \in OpenIfs, k \in IfLines :
          /\ IsTopmost(b, OpenIfs) /\ blocks[b].end = pc
          /\ IsTopmost(k, IfLines)
          /\ blocks' = [blocks EXCEPT ![b].type = "while"]
          /\ reconstructed' = [reconstructed EXCEPT ![k].word = "while"]
    /\ Next_pc(pc + 1)
    /\ UNCHANGED indent_level

CloseLoop ==
    /\ Handles({"JUMP_BACKWARD"})
    /\ LaterBackEdges = {} /\ ~ContinuesInElse /\ OpenIfs = {}
    /\ Next_pc(pc + 1)
    /\ UNCHANGED <<blocks, indent_level, reconstructed>>

(* A slip: the walk ends at the first `return` outside every block. *)
FinishAtReturn ==
    /\ ~done /\ blocks = << >>
    /\ PastTheEnd \/ Instr.op = "RETURN_VALUE"
    /\ done' = TRUE
    /\ UNCHANGED <<prog, pc, blocks, indent_level, reconstructed>>

(* The end of decompile(): a body with no line at all is a `pass`. *)
Finish ==
    /\ ~done /\ PastTheEnd /\ blocks = << >>
    /\ done' = TRUE
    /\ reconstructed' = IF reconstructed = << >> THEN << Line(indent_level, "pass") >>
                        ELSE reconstructed
    /\ UNCHANGED <<prog, pc, blocks, indent_level>>

Next ==
    \/ CloseBlock \/ CloseIntoElse \/ Suppressed \/ Quiet \/ WriteStatement
    \/ OpenFor \/ JoinCondition \/ BreakWhen \/ OpenIf
    \/ WriteBreak \/ OpenElse \/ StopAtLoop \/ IgnoreForwardJump
    \/ WriteContinue \/ OpenElseAtBackJump \/ IgnoreBackJump
    \/ ContinueAtLastBackJump \/ RewriteIfAsWhile \/ CloseLoop
    \/ Finish

Spec == Init /\ [][Next]_vars /\ WF_vars(Next)

-----------------------------------------------------------------------------
(* The state has its types, and what the prescans found is never changed.   *)
TypeOK ==
    /\ prog \in Programs
    /\ pc \in 1 .. Len(code) + 1
    /\ blocks \in Seq([end : DOMAIN code, type : BlockTypes])
    /\ indent_level \in Nat
    /\ reconstructed \in Seq(Lines)
    /\ done \in BOOLEAN

(* self.indent_level is changed in a dozen places and self.blocks in as     *)
(* many; nothing ties them together but the care taken in each handler.     *)
(* Every line is indented by one level for each open block, no more and no  *)
(* less, and is never indented less than the body.                          *)
IndentMatchesBlocks == indent_level = Base + Len(blocks)

(* Lines are appended, rewritten in place and taken off the end again       *)
(* (_append_reconstructed, the joined conditions, the `while` rewrite), and *)
(* instructions are skipped by moving self.pc.  Through all of it the text  *)
(* holds every call and every `return` read so far, each once, as it is in  *)
(* the code and in the order of the code.                                   *)
StatementsIn(p) == {i \in DOMAIN p.code : p.code[i].op \in {"STMT", "RETURN_VALUE"}}
StatementLines(lines) == {k \in DOMAIN lines : lines[k].at # 0}

Shows(p, line, i) ==
    /\ line.at = i /\ line.id = p.code[i].id
    /\ line.word = IF p.code[i].op = "STMT" THEN "stmt" ELSE "return"

(* lines hold the statements of p before instruction n, and no others. *)
Holds(p, lines, n) ==
    /\ \A k \in StatementLines(lines) :
          \E i \in StatementsIn(p) : i < n /\ Shows(p, lines[k], i)
    /\ \A i \in StatementsIn(p) :
          i < n => \E k \in StatementLines(lines) : Shows(p, lines[k], i)
    /\ \A j, k \in StatementLines(lines) : j < k => lines[j].at < lines[k].at

StatementsKept == Holds(prog, reconstructed, pc)

(* A block ends no later than the block it is in: otherwise the outer one   *)
(* would stay open under it past its end, and what follows would be written *)
(* inside both.  Jumps are threaded past several blocks by the compiler, so *)
(* a jump's target alone does not say where an `else` ends                  *)
(* (_clip_else_end, the chain_end of _emit_inner_back_jump).                *)
BlocksNest == \A b \in 1 .. Len(blocks) - 1 : blocks[b].end >= blocks[b + 1].end

(* Python has no statement that jumps into a loop: the head of a `for` is    *)
(* the only way into what runs up to its exit.  (In code that has another,  *)
(* an `if` that began outside the loop can be taken for a `while`.)         *)
LoopsEnteredAtHeads ==
    \A j, h \in DOMAIN code :
        HasTarget(code[j]) /\ code[h].op = "FOR_ITER" /\ j < h =>
            ~(h < code[j].target /\ code[j].target < code[h].target)

(* Python's grammar, line by line: a header has a body, nothing else does,  *)
(* an `else` has its `if` or loop, `break` and `continue` are in a loop.    *)
EnclosingHeaders(k) ==
    {h \in 1 .. k - 1 : /\ reconstructed[h].word \in Headers
                        /\ \A j \in h + 1 .. k : reconstructed[j].indent > reconstructed[h].indent}

OwnsElse(h, k) ==
    /\ h < k /\ reconstructed[h].indent = reconstructed[k].indent
    /\ \A j \in h + 1 .. k - 1 : reconstructed[j].indent > reconstructed[h].indent
    /\ reconstructed[h].word \in {"if", "for", "while"}

TextParses ==
    done /\ LoopsEnteredAtHeads => \A k \in DOMAIN reconstructed :
        /\ reconstructed[k].word \in Headers =>
              k < Len(reconstructed) /\ reconstructed[k + 1].indent = reconstructed[k].indent + 1
        /\ reconstructed[k].word \notin Headers /\ k < Len(reconstructed) =>
              reconstructed[k + 1].indent <= reconstructed[k].indent
        /\ reconstructed[k].word = "else" => \E h \in 1 .. k - 1 : OwnsElse(h, k)
        /\ reconstructed[k].word \in {"break", "continue"} =>
              \E h \in EnclosingHeaders(k) : reconstructed[h].word \in Loops

(* _close_blocks closes blocks until none ends here, and pushes one on the  *)
(* same stack as it does (the `else` of a loop): nothing in the loop says   *)
(* that it stops.  decompile() returns, whatever jumps the code holds.      *)
Terminates == <>done

(* What the walk promises of the statements, whatever it makes of the jumps *)
(* between them.                                                            *)
Statements == INSTANCE StatementStream WITH
    source <- StatementsIn(prog),
    written <- {reconstructed[k].at : k \in StatementLines(reconstructed)},
    complete <- done
WritesStatements == Statements!Spec
=============================================================================
