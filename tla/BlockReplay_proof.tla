-------------------------- MODULE BlockReplay_proof --------------------------
(***************************************************************************)
(* Proofs about the main pass (BlockReplay.tla), for every code object and  *)
(* every base indentation.                                                  *)
(***************************************************************************)
EXTENDS BlockReplay, SequenceTheorems, TLAPS

-----------------------------------------------------------------------------
(* Sequences: what taking the last element off, appending and cutting do.   *)

LEMMA Prefix ==
    ASSUME NEW S, NEW s \in Seq(S), NEW n \in 0 .. Len(s)
    PROVE  /\ SubSeq(s, 1, n) \in Seq(S)
           /\ Len(SubSeq(s, 1, n)) = n
           /\ \A i \in 1 .. n : SubSeq(s, 1, n)[i] = s[i]
<1>1. Len(s) \in Nat
  BY LenProperties
<1>2. \A i \in 1 .. n : s[i] \in S
  BY <1>1, ElementOfSeq
<1>3. /\ SubSeq(s, 1, n) \in Seq(S)
      /\ Len(SubSeq(s, 1, n)) = IF 1 <= n THEN n - 1 + 1 ELSE 0
      /\ \A i \in 1 .. n - 1 + 1 : SubSeq(s, 1, n)[i] = s[1 + i - 1]
  BY <1>1, <1>2, SubSeqProperties
<1> QED
  BY <1>1, <1>3

LEMMA FrontLast ==
    ASSUME NEW S, NEW s \in Seq(S), s # << >>
    PROVE  /\ Len(s) \in Nat \ {0}
           /\ Last(s) \in S /\ Last(s) = s[Len(s)]
           /\ Front(s) \in Seq(S)
           /\ Len(Front(s)) = Len(s) - 1
           /\ \A i \in 1 .. Len(s) - 1 : Front(s)[i] = s[i]
<1>1. Len(s) \in Nat \ {0}
  BY EmptySeq
<1>2. Last(s) \in S /\ Last(s) = s[Len(s)]
  BY <1>1, ElementOfSeq DEF Last
<1> DEFINE n == Len(s) - 1
<1>3. n \in 0 .. Len(s)
  BY <1>1
<1>4. Front(s) = SubSeq(s, 1, n)
  BY DEF Front
<1> HIDE DEF n
<1>5. /\ Front(s) \in Seq(S)
      /\ Len(Front(s)) = n
      /\ \A i \in 1 .. n : Front(s)[i] = s[i]
  <2>1. /\ SubSeq(s, 1, n) \in Seq(S)
        /\ Len(SubSeq(s, 1, n)) = n
        /\ \A i \in 1 .. n : SubSeq(s, 1, n)[i] = s[i]
    BY <1>3, Prefix
  <2> QED
    BY <1>4, <2>1, Zenon
<1> QED
  BY <1>1, <1>2, <1>5 DEF n

-----------------------------------------------------------------------------
(* The code object: what ProgramsAssumption and IsCode say of one           *)
(* instruction.                                                             *)

BlocksOf(p) == [end : DOMAIN p.code, type : BlockTypes]

LEMMA CodeFacts ==
    ASSUME NEW p \in Programs
    PROVE  /\ p.code \in Seq([op : Opcodes, id : Nat, target : Nat])
           /\ Len(p.code) \in Nat \ {0}
           /\ DOMAIN p.code = 1 .. Len(p.code)
           /\ \A i \in DOMAIN p.code :
                 /\ p.code[i] \in [op : Opcodes, id : Nat, target : Nat]
                 /\ p.cond[i] \in Seq(Tokens)
                 /\ HasTarget(p.code[i]) => p.code[i].target \in DOMAIN p.code
                 /\ IsBackward(p.code[i]) => p.code[p.code[i].target].op = "FOR_ITER"
           /\ \A i \in p.suppress : i \in DOMAIN p.code /\ p.code[i].op \in ConditionalJumps
<1>1. /\ p.code \in Seq([op : Opcodes, id : Nat, target : Nat])
      /\ IsCode(p.code)
      /\ p.cond \in [DOMAIN p.code -> Seq(Tokens)]
      /\ p.suppress \in SUBSET {i \in DOMAIN p.code : p.code[i].op \in ConditionalJumps}
  BY ProgramsAssumption
<1>2. Len(p.code) \in Nat \ {0}
  BY <1>1, EmptySeq DEF IsCode
<1>3. DOMAIN p.code = 1 .. Len(p.code)
  BY <1>1, LenProperties
<1>4. \A i \in DOMAIN p.code : p.code[i] \in [op : Opcodes, id : Nat, target : Nat]
  BY <1>1, <1>3, ElementOfSeq
<1> QED
  BY <1>1, <1>2, <1>3, <1>4 DEF IsCode

-----------------------------------------------------------------------------
(* Lines.                                                                   *)

LEMMA LineTypes ==
    ASSUME NEW n \in Nat
    PROVE  /\ \A w \in Words : Line(n, w) \in Lines /\ Line(n, w).at = 0 /\ Line(n, w).word = w
           /\ \A c \in Seq(Tokens) :
                 Condition(n, c) \in Lines /\ Condition(n, c).at = 0 /\ Condition(n, c).word = "if"
<1>1. << >> \in Seq(Tokens)
  BY EmptySeq
<1> QED
  BY <1>1 DEF Line, Condition, Lines, Words

LEMMA TokenTypes ==
    /\ \A w \in {"atom", "not", "and", "or", "(", ")"} : Word(w) \in Seq(Tokens)
    /\ \A ins \in [op : Opcodes, id : Nat, target : Nat] : Atom(ins) \in Seq(Tokens)
  BY DEF Word, Atom, Tokens

LEMMA WithBodyType ==
    ASSUME NEW lines \in Seq(Lines), NEW n \in Nat
    PROVE  WithBody(lines, n) \in Seq(Lines)
<1>1. Line(n, "pass") \in Lines
  BY LineTypes DEF Words
<1>2. Append(lines, Line(n, "pass")) \in Seq(Lines)
  BY <1>1, AppendProperties
<1> QED
  BY <1>2, Zenon DEF WithBody

LEMMA WriteType ==
    ASSUME NEW lines \in Seq(Lines), NEW n \in Nat
    PROVE  Write(lines, Line(n, "else")) \in Seq(Lines)
<1>1. Line(n, "else") \in Lines
  BY LineTypes DEF Words
<1>2. Append(lines, Line(n, "else")) \in Seq(Lines)
  BY <1>1, AppendProperties
<1>3. CASE /\ lines # << >>
           /\ Last(lines).indent = Line(n, "else").indent
  <2>1. Line(n, "else").indent = n
    BY DEF Line
  <2>2. Line(Line(n, "else").indent + 1, "pass") \in Lines
    BY <2>1, LineTypes DEF Words
  <2> DEFINE clause == << Line(Line(n, "else").indent + 1, "pass"), Line(n, "else") >>
  <2>3. clause \in Seq(Lines)
    BY <1>1, <2>2
  <2> HIDE DEF clause
  <2>4. lines \o clause \in Seq(Lines)
    BY <2>3, ConcatProperties
  <2> QED
    BY <1>2, <2>4, Zenon DEF Write, clause
<1>4. CASE ~(/\ lines # << >>
             /\ Last(lines).indent = Line(n, "else").indent)
  BY <1>2, <1>4, Zenon DEF Write
<1> QED
  BY <1>3, <1>4

LEMMA ClipType ==
    ASSUME NEW p \in Programs, NEW stack \in Seq(BlocksOf(p)), NEW start,
           NEW else_end \in DOMAIN p.code
    PROVE  Clip(stack, start, else_end) \in DOMAIN p.code
<1>1. stack # << >> => Last(stack) \in BlocksOf(p)
  BY FrontLast
<1>2. stack # << >> => Last(stack).end \in DOMAIN p.code
  BY <1>1 DEF BlocksOf
<1> QED
  BY <1>2, Zenon DEF Clip

-----------------------------------------------------------------------------
(* The statements the text holds: lines that show none may be added at the  *)
(* end or rewritten.                                                        *)

Pads(longer, lines) ==
    /\ longer \in Seq(Lines)
    /\ Len(lines) <= Len(longer)
    /\ \A k \in 1 .. Len(lines) : longer[k] = lines[k]
    /\ \A k \in Len(lines) + 1 .. Len(longer) : longer[k].at = 0

LEMMA PadsTransitive ==
    ASSUME NEW a \in Seq(Lines), NEW b \in Seq(Lines), NEW c \in Seq(Lines),
           Pads(b, a), Pads(c, b)
    PROVE  Pads(c, a)
<1>1. Len(a) \in Nat /\ Len(b) \in Nat /\ Len(c) \in Nat
  BY LenProperties
<1>2. Len(a) <= Len(b) /\ Len(b) <= Len(c)
  BY DEF Pads
<1>3. ASSUME NEW k \in 1 .. Len(a) PROVE c[k] = a[k]
  <2>1. k \in 1 .. Len(b)
    BY <1>1, <1>2
  <2>2. b[k] = a[k]
    BY DEF Pads
  <2>3. c[k] = b[k]
    BY <2>1 DEF Pads
  <2> QED
    BY <2>2, <2>3
<1>4. ASSUME NEW k \in Len(a) + 1 .. Len(c) PROVE c[k].at = 0
  <2>1. CASE k \in 1 .. Len(b)
    <3>1. k \in Len(a) + 1 .. Len(b)
      BY <1>1, <2>1
    <3>2. b[k].at = 0
      BY <3>1 DEF Pads
    <3>3. c[k] = b[k]
      BY <2>1 DEF Pads
    <3> QED
      BY <3>2, <3>3
  <2>2. CASE k \notin 1 .. Len(b)
    <3>1. k \in Len(b) + 1 .. Len(c)
      BY <1>1, <1>2, <2>2
    <3> QED
      BY <3>1 DEF Pads
  <2> QED
    BY <2>1, <2>2
<1>5. Len(a) <= Len(c)
  BY <1>1, <1>2
<1>6. c \in Seq(Lines)
  OBVIOUS
<1> QED
  BY <1>3, <1>4, <1>5, <1>6 DEF Pads

LEMMA AppendPads ==
    ASSUME NEW lines \in Seq(Lines), NEW line \in Lines, line.at = 0
    PROVE  Pads(Append(lines, line), lines)
<1>1. Len(lines) \in Nat
  BY LenProperties
<1>2. /\ Append(lines, line) \in Seq(Lines)
      /\ Len(Append(lines, line)) = Len(lines) + 1
      /\ \A i \in 1 .. Len(lines) : Append(lines, line)[i] = lines[i]
      /\ Append(lines, line)[Len(lines) + 1] = line
  BY AppendProperties
<1> QED
  BY <1>1, <1>2 DEF Pads

LEMMA ConcatPads ==
    ASSUME NEW lines \in Seq(Lines), NEW a \in Lines, NEW b \in Lines, a.at = 0, b.at = 0
    PROVE  Pads(lines \o << a, b >>, lines)
<1>1. Len(lines) \in Nat
  BY LenProperties
<1> DEFINE t == << a, b >>
<1>2. t \in Seq(Lines) /\ Len(t) = 2 /\ t[1] = a /\ t[2] = b
  OBVIOUS
<1> HIDE DEF t
<1>3. /\ lines \o t \in Seq(Lines)
      /\ Len(lines \o t) = Len(lines) + Len(t)
      /\ \A i \in 1 .. Len(lines) + Len(t) :
            (lines \o t)[i] = IF i <= Len(lines) THEN lines[i] ELSE t[i - Len(lines)]
  BY <1>2, ConcatProperties
<1>4. Pads(lines \o t, lines)
  <2> DEFINE longer == lines \o t
  <2> HIDE DEF longer
  <2>1. /\ longer \in Seq(Lines)
        /\ Len(longer) = Len(lines) + 2
        /\ \A i \in 1 .. Len(lines) : longer[i] = lines[i]
        /\ longer[Len(lines) + 1] = a /\ longer[Len(lines) + 2] = b
    BY <1>1, <1>2, <1>3 DEF longer
  <2>2. Pads(longer, lines)
    BY <1>1, <2>1 DEF Pads
  <2> QED
    BY <2>2 DEF longer
<1> QED
  BY <1>4 DEF t

LEMMA SamePads ==
    ASSUME NEW lines \in Seq(Lines)
    PROVE  Pads(lines, lines)
<1>1. Len(lines) \in Nat
  BY LenProperties
<1> QED
  BY <1>1 DEF Pads

LEMMA WithBodyPads ==
    ASSUME NEW lines \in Seq(Lines), NEW n \in Nat
    PROVE  Pads(WithBody(lines, n), lines)
<1>1. Line(n, "pass") \in Lines /\ Line(n, "pass").at = 0
  BY LineTypes DEF Words
<1>2. Pads(Append(lines, Line(n, "pass")), lines)
  BY <1>1, AppendPads
<1>3. Pads(lines, lines)
  BY SamePads
<1> QED
  BY <1>2, <1>3, Zenon DEF WithBody

LEMMA WritePads ==
    ASSUME NEW lines \in Seq(Lines), NEW n \in Nat
    PROVE  Pads(Write(lines, Line(n, "else")), lines)
<1>1. Line(n, "else") \in Lines /\ Line(n, "else").at = 0 /\ Line(n, "else").indent = n
  BY LineTypes DEF Words, Line
<1>2. /\ Line(Line(n, "else").indent + 1, "pass") \in Lines
      /\ Line(Line(n, "else").indent + 1, "pass").at = 0
  BY <1>1, LineTypes DEF Words
<1>3. Pads(lines \o << Line(Line(n, "else").indent + 1, "pass"), Line(n, "else") >>, lines)
  BY <1>1, <1>2, ConcatPads
<1>4. Pads(Append(lines, Line(n, "else")), lines)
  BY <1>1, AppendPads
<1> QED
  BY <1>3, <1>4, Zenon DEF Write

LEMMA PadsHolds ==
    ASSUME NEW p \in Programs, NEW lines \in Seq(Lines), NEW longer, NEW n \in Nat,
           Pads(longer, lines), Holds(p, lines, n)
    PROVE  Holds(p, longer, n)
<1>1. /\ Len(lines) \in Nat /\ DOMAIN lines = 1 .. Len(lines)
      /\ Len(longer) \in Nat /\ DOMAIN longer = 1 .. Len(longer)
  BY LenProperties DEF Pads
<1>2. StatementLines(longer) = StatementLines(lines)
  BY <1>1 DEF StatementLines, Pads
<1>3. \A k \in StatementLines(lines) : longer[k] = lines[k]
  BY <1>1 DEF StatementLines, Pads
<1> QED
  BY <1>2, <1>3 DEF Holds

LEMMA RewriteHolds ==
    ASSUME NEW p \in Programs, NEW lines \in Seq(Lines), NEW n \in Nat, Holds(p, lines, n),
           NEW k \in DOMAIN lines, lines[k].at = 0,
           NEW line \in Lines, line.at = 0
    PROVE  Holds(p, [lines EXCEPT ![k] = line], n)
<1> DEFINE new == [lines EXCEPT ![k] = line]
<1>1. DOMAIN new = DOMAIN lines /\ new[k] = line /\ \A j \in DOMAIN lines \ {k} : new[j] = lines[j]
  OBVIOUS
<1> HIDE DEF new
<1>2. StatementLines(new) = StatementLines(lines)
  BY <1>1 DEF StatementLines
<1>3. \A j \in StatementLines(lines) : new[j] = lines[j]
  BY <1>1 DEF StatementLines
<1>4. Holds(p, new, n)
  BY <1>2, <1>3 DEF Holds
<1> QED
  BY <1>4 DEF new

(* Statements are numbered by their offsets. *)
LEMMA StatementNumbers ==
    ASSUME NEW p \in Programs, NEW i \in StatementsIn(p)
    PROVE  i \in Nat \ {0}
<1>1. i \in DOMAIN p.code
  BY DEF StatementsIn
<1>2. DOMAIN p.code = 1 .. Len(p.code) /\ Len(p.code) \in Nat \ {0}
  BY CodeFacts
<1> HIDE DEF StatementsIn
<1> QED
  BY <1>1, <1>2

(* Passing an instruction that is no statement. *)
LEMMA SkipHolds ==
    ASSUME NEW p \in Programs, NEW lines, NEW n \in Nat, Holds(p, lines, n),
           n \notin StatementsIn(p)
    PROVE  Holds(p, lines, n + 1)
<1>1. \A i \in StatementsIn(p) : i \in Nat \ {0}
  BY StatementNumbers
<1>2. \A i \in StatementsIn(p) : i < n + 1 <=> i < n
  BY <1>1
<1> QED
  BY <1>2 DEF Holds

(* Passing a statement and appending its line. *)
LEMMA StatementHolds ==
    ASSUME NEW p \in Programs, NEW lines \in Seq(Lines), NEW n \in StatementsIn(p),
           Holds(p, lines, n),
           NEW line \in Lines, Shows(p, line, n)
    PROVE  Holds(p, Append(lines, line), n + 1)
<1> DEFINE new == Append(lines, line)
           last == Len(lines) + 1
<1>1. Len(lines) \in Nat /\ DOMAIN lines = 1 .. Len(lines)
  BY LenProperties
<1>2. /\ DOMAIN new = 1 .. last
      /\ \A k \in 1 .. Len(lines) : new[k] = lines[k]
      /\ new[last] = line
  BY <1>1, AppendProperties
<1>3. /\ n \in Nat \ {0}
      /\ \A i \in StatementsIn(p) : i \in Nat \ {0}
  BY StatementNumbers
<1> HIDE DEF new
<1>4. line.at = n
  BY DEF Shows
<1>5. StatementLines(new) = StatementLines(lines) \cup {last}
  BY <1>1, <1>2, <1>3, <1>4 DEF StatementLines
<1>6. \A k \in StatementLines(lines) : k \in 1 .. Len(lines) /\ new[k] = lines[k] /\ k < last
  BY <1>1, <1>2 DEF StatementLines
<1>7. \A k \in StatementLines(lines) : lines[k].at \in StatementsIn(p) /\ lines[k].at < n
  BY DEF Holds, Shows
<1>8. \A k \in StatementLines(new) : \E i \in StatementsIn(p) : i < n + 1 /\ Shows(p, new[k], i)
  <2>1. \A k \in StatementLines(lines) : \E i \in StatementsIn(p) : i < n + 1 /\ Shows(p, new[k], i)
    BY <1>3, <1>6 DEF Holds
  <2>2. n < n + 1 /\ Shows(p, new[last], n)
    BY <1>2, <1>3
  <2> QED
    BY <1>5, <2>1, <2>2
<1>9. \A i \in StatementsIn(p) : i < n + 1 => \E k \in StatementLines(new) : Shows(p, new[k], i)
  <2> SUFFICES ASSUME NEW i \in StatementsIn(p), i < n + 1
               PROVE  \E k \in StatementLines(new) : Shows(p, new[k], i)
    OBVIOUS
  <2>1. CASE i < n
    BY <1>5, <1>6, <2>1 DEF Holds
  <2>2. CASE i = n
    BY <1>2, <1>5, <2>2
  <2> QED
    BY <1>3, <2>1, <2>2
<1>10. \A j, k \in StatementLines(new) : j < k => new[j].at < new[k].at
  <2> SUFFICES ASSUME NEW j \in StatementLines(new), NEW k \in StatementLines(new), j < k
               PROVE  new[j].at < new[k].at
    OBVIOUS
  <2>1. j \in StatementLines(lines)
    BY <1>1, <1>5, <1>6
  <2>2. CASE k \in StatementLines(lines)
    BY <1>6, <2>1, <2>2 DEF Holds
  <2>3. CASE k = last
    BY <1>2, <1>4, <1>6, <1>7, <2>1, <2>3
  <2> QED
    BY <1>5, <2>2, <2>3
<1>11. Holds(p, new, n + 1)
  BY <1>8, <1>9, <1>10 DEF Holds
<1> QED
  BY <1>11 DEF new

-----------------------------------------------------------------------------
(* The inductive invariant.  The three need each other: an indent level is  *)
(* a natural number because it counts the open blocks, a statement can be   *)
(* looked up because pc stays inside the code, and pc does because blocks   *)
(* end inside it.                                                           *)
IInv == TypeOK /\ IndentMatchesBlocks /\ StatementsKept

LEMMA StateFacts ==
    ASSUME IInv
    PROVE  /\ prog \in Programs /\ pc \in Nat \ {0} /\ Len(code) \in Nat /\ DOMAIN code = 1 .. Len(code)
           /\ blocks \in Seq(BlocksOf(prog)) /\ Len(blocks) \in Nat /\ DOMAIN blocks = 1 .. Len(blocks)
           /\ \A b \in DOMAIN blocks : blocks[b] \in BlocksOf(prog)
           /\ Base \in Nat \ {0} /\ indent_level = Base + Len(blocks)
           /\ indent_level \in Nat \ {0}
           /\ reconstructed \in Seq(Lines)
           /\ Holds(prog, reconstructed, pc)
<1>1. prog \in Programs /\ blocks \in Seq(BlocksOf(prog))
  BY DEF IInv, TypeOK, BlocksOf, code
<1>2. Len(blocks) \in Nat /\ DOMAIN blocks = 1 .. Len(blocks)
  BY <1>1, LenProperties
<1>3. \A b \in DOMAIN blocks : blocks[b] \in BlocksOf(prog)
  BY <1>1, <1>2, ElementOfSeq
<1>4. Len(code) \in Nat /\ DOMAIN code = 1 .. Len(code)
  BY <1>1, CodeFacts DEF code
<1>5. Base \in Nat \ {0} /\ indent_level = Base + Len(blocks) /\ indent_level \in Nat \ {0}
  BY <1>2, BaseAssumption DEF IInv, IndentMatchesBlocks
<1>6. /\ pc \in Nat \ {0} /\ reconstructed \in Seq(Lines) /\ Holds(prog, reconstructed, pc)
  BY <1>4 DEF IInv, TypeOK, StatementsKept
<1> QED
  BY <1>1, <1>2, <1>3, <1>4, <1>5, <1>6

LEMMA NextState ==
    ASSUME IInv, prog' = prog, pc' \in 1 .. Len(code) + 1,
           blocks' \in Seq(BlocksOf(prog)), indent_level' = Base + Len(blocks'),
           reconstructed' \in Seq(Lines), done' \in BOOLEAN,
           Holds(prog, reconstructed', pc')
    PROVE  IInv'
<1>1. TypeOK'
  <2>1. prog \in Programs
    BY StateFacts
  <2>2. indent_level' \in Nat
    <3>1. Len(blocks') \in Nat
      BY LenProperties
    <3> QED
      BY <3>1, BaseAssumption
  <2>3. code' = code /\ BlocksOf(prog) = [end : DOMAIN code, type : BlockTypes]
    BY DEF code, BlocksOf
  <2> QED
    BY <2>1, <2>2, <2>3 DEF TypeOK
<1>2. IndentMatchesBlocks'
  BY DEF IndentMatchesBlocks
<1>3. StatementsKept'
  BY DEF StatementsKept
<1> QED
  BY <1>1, <1>2, <1>3 DEF IInv

(* A step that passes an instruction that is no statement, moves no block   *)
(* and writes no statement.                                                 *)
LEMMA PassedInstruction ==
    ASSUME IInv, pc \in DOMAIN code, pc \notin StatementsIn(prog), Next_pc(pc + 1),
           NEW lines, Holds(prog, lines, pc)
    PROVE  /\ prog' = prog /\ pc' \in 1 .. Len(code) + 1 /\ done' \in BOOLEAN
           /\ Holds(prog, lines, pc')
<1>1. prog' = prog /\ pc' = pc + 1 /\ done' \in BOOLEAN
  BY DEF Next_pc, IInv, TypeOK
<1>2. pc' \in 1 .. Len(code) + 1
  BY <1>1, StateFacts
<1>3. Holds(prog, lines, pc + 1)
  BY StateFacts, SkipHolds
<1> QED
  BY <1>1, <1>2, <1>3

LEMMA HandledInstruction ==
    ASSUME IInv, NEW ops, Handles(ops)
    PROVE  /\ pc \in DOMAIN code /\ Instr.op \in ops
           /\ Instr \in [op : Opcodes, id : Nat, target : Nat]
           /\ Instr = prog.code[pc]
<1>1. pc \in DOMAIN code
  <2>1. pc \in 1 .. Len(code) + 1 /\ pc # Len(code) + 1
    BY DEF Handles, PastTheEnd, IInv, TypeOK
  <2> QED
    BY <2>1, StateFacts
<1>2. prog \in Programs
  BY StateFacts
<1> QED
  BY <1>1, <1>2, CodeFacts DEF Handles, Instr, code

-----------------------------------------------------------------------------
(* One lemma for each action.                                               *)

LEMMA CloseBlockStep == ASSUME IInv, CloseBlock PROVE IInv'
<1>1. /\ prog' = prog /\ pc' = pc /\ done' = done
      /\ blocks # << >> /\ blocks' = Front(blocks)
      /\ indent_level' = indent_level - 1
      /\ reconstructed' = WithBody(reconstructed, indent_level)
  BY DEF CloseBlock, NeedsClosing
<1>2. blocks' \in Seq(BlocksOf(prog)) /\ Len(blocks') = Len(blocks) - 1
  BY <1>1, StateFacts, FrontLast
<1>3. indent_level' = Base + Len(blocks')
  BY <1>1, <1>2, StateFacts
<1>4. /\ reconstructed' \in Seq(Lines)
      /\ Holds(prog, reconstructed', pc)
  BY <1>1, StateFacts, WithBodyType, WithBodyPads, PadsHolds
<1>5. pc' \in 1 .. Len(code) + 1 /\ done' \in BOOLEAN
  BY <1>1 DEF IInv, TypeOK
<1> QED
  BY <1>1, <1>2, <1>3, <1>4, <1>5, NextState

LEMMA CloseIntoElseStep == ASSUME IInv, CloseIntoElse PROVE IInv'
<1>1. /\ prog' = prog /\ pc' = pc /\ done' = done
      /\ blocks # << >> /\ indent_level' = indent_level
      /\ reconstructed' = Write(WithBody(reconstructed, indent_level), Line(indent_level - 1, "else"))
  BY DEF CloseIntoElse, NeedsClosing
<1>2. PICK else_end \in LoopElseEnds(Last(blocks).end) :
         blocks' = Append(Front(blocks), Block(Clip(Front(blocks), Last(blocks).end, else_end), "else"))
  BY DEF CloseIntoElse
<1>3. /\ Front(blocks) \in Seq(BlocksOf(prog)) /\ Len(Front(blocks)) = Len(blocks) - 1
      /\ Last(blocks) \in BlocksOf(prog)
  BY <1>1, StateFacts, FrontLast
<1>4. else_end \in DOMAIN prog.code
  <2>1. Last(blocks).end \in DOMAIN code
    BY <1>3 DEF BlocksOf, code
  <2>2. PICK i \in 1 .. Last(blocks).end - 1 : IsJump(code[i]) /\ else_end = code[i].target
    BY DEF LoopElseEnds, LoopEscapes
  <2>3. i \in DOMAIN code
    BY <2>1, StateFacts
  <2> QED
    BY <2>2, <2>3, StateFacts, CodeFacts DEF HasTarget, code
<1>5. Clip(Front(blocks), Last(blocks).end, else_end) \in DOMAIN prog.code
  BY <1>3, <1>4, StateFacts, ClipType
<1>6. blocks' \in Seq(BlocksOf(prog)) /\ Len(blocks') = Len(blocks)
  <2>1. Block(Clip(Front(blocks), Last(blocks).end, else_end), "else") \in BlocksOf(prog)
    BY <1>5 DEF Block, BlocksOf, BlockTypes
  <2> QED
    BY <1>2, <1>3, <2>1, StateFacts, AppendProperties
<1>7. /\ reconstructed' \in Seq(Lines)
      /\ Holds(prog, reconstructed', pc)
  <2> DEFINE body == WithBody(reconstructed, indent_level)
  <2>1. body \in Seq(Lines) /\ Holds(prog, body, pc)
    BY StateFacts, WithBodyType, WithBodyPads, PadsHolds
  <2>2. indent_level - 1 \in Nat
    BY StateFacts
  <2> HIDE DEF body
  <2>3. /\ Write(body, Line(indent_level - 1, "else")) \in Seq(Lines)
        /\ Holds(prog, Write(body, Line(indent_level - 1, "else")), pc)
    BY <2>1, <2>2, StateFacts, WriteType, WritePads, PadsHolds, ZenonT(60)
  <2> QED
    BY <1>1, <2>3 DEF body
<1>8. pc' \in 1 .. Len(code) + 1 /\ done' \in BOOLEAN
  BY <1>1 DEF IInv, TypeOK
<1> QED
  BY <1>1, <1>6, <1>7, <1>8, StateFacts, NextState

LEMMA SuppressedStep == ASSUME IInv, Suppressed PROVE IInv'
<1>1. UNCHANGED <<blocks, indent_level, reconstructed>> /\ pc \in prog.suppress /\ Next_pc(pc + 1)
  BY DEF Suppressed
<1>2. pc \in DOMAIN code /\ pc \notin StatementsIn(prog)
  BY <1>1, StateFacts, CodeFacts DEF StatementsIn, ConditionalJumps, code
<1> QED
  BY <1>1, <1>2, StateFacts, PassedInstruction, NextState

LEMMA QuietStep == ASSUME IInv, Quiet PROVE IInv'
<1>1. UNCHANGED <<blocks, indent_level, reconstructed>> /\ Next_pc(pc + 1)
  BY DEF Quiet
<1>2. pc \in DOMAIN code /\ pc \notin StatementsIn(prog)
  BY HandledInstruction DEF Quiet, StatementsIn
<1> QED
  BY <1>1, <1>2, StateFacts, PassedInstruction, NextState

LEMMA WriteStatementStep == ASSUME IInv, WriteStatement PROVE IInv'
<1> DEFINE word == IF Instr.op = "STMT" THEN "stmt" ELSE "return"
           line == Statement(indent_level, word, pc)
<1>1. /\ Handles({"STMT", "RETURN_VALUE"})
      /\ UNCHANGED <<blocks, indent_level>>
      /\ Next_pc(pc + 1)
      /\ reconstructed' = Append(reconstructed, line)
  BY DEF WriteStatement
<1>2. /\ pc \in DOMAIN code /\ Instr.op \in {"STMT", "RETURN_VALUE"}
      /\ Instr \in [op : Opcodes, id : Nat, target : Nat] /\ Instr = prog.code[pc]
  BY <1>1, HandledInstruction
<1>3. pc \in StatementsIn(prog)
  BY <1>2 DEF StatementsIn, code
<1>4. line \in Lines /\ Shows(prog, line, pc)
  <2>1. << >> \in Seq(Tokens)
    BY EmptySeq
  <2>2. line = [indent |-> indent_level, word |-> word, id |-> prog.code[pc].id,
                cond |-> << >>, at |-> pc]
    BY DEF Statement, code
  <2>3. word \in Words
    BY DEF Words
  <2>4. prog.code[pc].id \in Nat /\ pc \in Nat /\ indent_level \in Nat
    BY <1>2, StateFacts
  <2>5. [indent |-> indent_level, word |-> word, id |-> prog.code[pc].id,
         cond |-> << >>, at |-> pc] \in Lines
    BY <2>1, <2>3, <2>4 DEF Lines
  <2>6. Shows(prog, line, pc)
    BY <1>2, <2>2 DEF Shows
  <2> QED
    BY <2>2, <2>5, <2>6
<1> HIDE DEF line
<1>5. /\ reconstructed' \in Seq(Lines)
      /\ Holds(prog, reconstructed', pc + 1)
  BY <1>1, <1>3, <1>4, StateFacts, StatementHolds, AppendProperties
<1>6. prog' = prog /\ pc' = pc + 1 /\ pc' \in 1 .. Len(code) + 1 /\ done' \in BOOLEAN
  BY <1>1, <1>2, StateFacts DEF Next_pc, IInv, TypeOK
<1> QED
  BY <1>1, <1>5, <1>6, StateFacts, NextState

LEMMA OpenForStep == ASSUME IInv, OpenFor PROVE IInv'
<1> DEFINE line == [Line(indent_level, "for") EXCEPT !.id = Instr.id]
<1>1. /\ Handles({"FOR_ITER"}) /\ Next_pc(pc + 1)
      /\ reconstructed' = Append(reconstructed, line)
      /\ indent_level' = indent_level + 1
      /\ blocks' = Append(blocks, Block(Instr.target, "for"))
  BY DEF OpenFor
<1>2. /\ pc \in DOMAIN code /\ Instr.op = "FOR_ITER"
      /\ Instr \in [op : Opcodes, id : Nat, target : Nat] /\ Instr = prog.code[pc]
  BY <1>1, HandledInstruction
<1>3. pc \notin StatementsIn(prog)
  BY <1>2 DEF StatementsIn
<1>4. line \in Lines /\ line.at = 0
  <2>1. << >> \in Seq(Tokens)
    BY EmptySeq
  <2>2. line = [indent |-> indent_level, word |-> "for", id |-> Instr.id, cond |-> << >>, at |-> 0]
    BY DEF Line
  <2>3. Instr.id \in Nat /\ indent_level \in Nat /\ "for" \in Words
    BY <1>2, StateFacts DEF Words
  <2>4. [indent |-> indent_level, word |-> "for", id |-> Instr.id, cond |-> << >>, at |-> 0] \in Lines
    BY <2>1, <2>3 DEF Lines
  <2> QED
    BY <2>2, <2>4
<1> HIDE DEF line
<1>5. reconstructed' \in Seq(Lines) /\ Holds(prog, reconstructed', pc)
  BY <1>1, <1>4, StateFacts, AppendPads, PadsHolds DEF Pads
<1>6. blocks' \in Seq(BlocksOf(prog)) /\ Len(blocks') = Len(blocks) + 1
  <2>1. Block(Instr.target, "for") \in BlocksOf(prog)
    BY <1>2, StateFacts, CodeFacts DEF Block, BlocksOf, BlockTypes, HasTarget, code
  <2> QED
    BY <1>1, <2>1, StateFacts, AppendProperties
<1>7. indent_level' = Base + Len(blocks')
  BY <1>1, <1>6, StateFacts
<1> QED
  BY <1>1, <1>2, <1>3, <1>5, <1>6, <1>7, PassedInstruction, NextState

(* The conditional jumps. *)

LEMMA AppendedLine ==
    ASSUME IInv, NEW line \in Lines, line.at = 0
    PROVE  /\ Append(reconstructed, line) \in Seq(Lines)
           /\ Holds(prog, Append(reconstructed, line), pc)
<1>1. Pads(Append(reconstructed, line), reconstructed)
  BY StateFacts, AppendPads
<1> QED
  BY <1>1, StateFacts, PadsHolds DEF Pads

LEMMA ConditionTokens ==
    ASSUME IInv, Handles(ConditionalJumps)
    PROVE  /\ Atom(Instr) \in Seq(Tokens) /\ Word("not") \o Atom(Instr) \in Seq(Tokens)
           /\ FallsThroughOn \in Seq(Tokens)
<1>1. pc \in DOMAIN code /\ Instr \in [op : Opcodes, id : Nat, target : Nat]
  BY HandledInstruction
<1>2. Atom(Instr) \in Seq(Tokens) /\ Word("not") \in Seq(Tokens)
  BY <1>1, TokenTypes
<1>3. Word("not") \o Atom(Instr) \in Seq(Tokens)
  BY <1>2, ConcatProperties
<1>4. prog.cond[pc] \in Seq(Tokens)
  BY <1>1, StateFacts, CodeFacts DEF code
<1> QED
  BY <1>2, <1>3, <1>4, Zenon DEF FallsThroughOn

LEMMA TestIsNoStatement ==
    ASSUME IInv, Handles(ConditionalJumps)
    PROVE  /\ pc \in DOMAIN code /\ pc \notin StatementsIn(prog)
           /\ Instr.target \in DOMAIN prog.code
<1>1. pc \in DOMAIN code /\ Instr.op \in ConditionalJumps /\ Instr = prog.code[pc]
  BY HandledInstruction
<1>2. pc \notin StatementsIn(prog)
  BY <1>1 DEF StatementsIn, ConditionalJumps
<1> QED
  BY <1>1, <1>2, StateFacts, CodeFacts DEF HasTarget, IsJump, code

LEMMA JoinConditionStep == ASSUME IInv, JoinCondition PROVE IInv'
<1> DEFINE connector == IF JumpsWhenTrue /\ ~Precomputed THEN "or" ELSE "and"
           cond == Last(reconstructed).cond \o Word(connector) \o FallsThroughOn
           line == Condition(indent_level - 1, cond)
<1>1. /\ Handles(ConditionalJumps) /\ Next_pc(pc + 1)
      /\ UNCHANGED <<blocks, indent_level>>
      /\ blocks # << >> /\ reconstructed # << >> /\ Last(reconstructed).word = "if"
      /\ reconstructed' = Append(Front(reconstructed), line)
  BY Zenon DEF JoinCondition, ContinuesCondition
<1>2. /\ Len(reconstructed) \in Nat \ {0}
      /\ Last(reconstructed) \in Lines /\ Last(reconstructed) = reconstructed[Len(reconstructed)]
      /\ Front(reconstructed) \in Seq(Lines)
      /\ Len(Front(reconstructed)) = Len(reconstructed) - 1
      /\ \A i \in 1 .. Len(reconstructed) - 1 : Front(reconstructed)[i] = reconstructed[i]
  BY <1>1, StateFacts, FrontLast
<1>3. cond \in Seq(Tokens)
  <2>1. Last(reconstructed).cond \in Seq(Tokens)
    BY <1>2 DEF Lines
  <2>2. Word(connector) \in Seq(Tokens)
    BY TokenTypes
  <2>3. Last(reconstructed).cond \o Word(connector) \in Seq(Tokens)
    BY <2>1, <2>2, ConcatProperties
  <2> QED
    BY <1>1, <2>3, ConditionTokens, ConcatProperties
<1> HIDE DEF cond
<1>4. line \in Lines /\ line.at = 0
  BY <1>1, <1>3, StateFacts, EmptySeq, LineTypes
<1> HIDE DEF line
<1>5. Last(reconstructed).at = 0
  <2>1. DOMAIN reconstructed = 1 .. Len(reconstructed)
    BY StateFacts, LenProperties
  <2>2. ASSUME Last(reconstructed).at # 0 PROVE FALSE
    <3>1. Len(reconstructed) \in StatementLines(reconstructed)
      BY <1>2, <2>1, <2>2 DEF StatementLines
    <3>2. PICK i \in StatementsIn(prog) : Shows(prog, reconstructed[Len(reconstructed)], i)
      BY <3>1, StateFacts DEF Holds
    <3> QED
      BY <1>1, <1>2, <3>2 DEF Shows
  <2> QED
    BY <2>2
<1>6. reconstructed' = [reconstructed EXCEPT ![Len(reconstructed)] = line]
  <2> DEFINE last == Len(reconstructed)
             new == [reconstructed EXCEPT ![last] = line]
  <2>1. /\ reconstructed' \in Seq(Lines) /\ Len(reconstructed') = last
        /\ \A i \in 1 .. last - 1 : reconstructed'[i] = reconstructed[i]
        /\ reconstructed'[last] = line
    <3>1. /\ Append(Front(reconstructed), line) \in Seq(Lines)
          /\ Len(Append(Front(reconstructed), line)) = Len(Front(reconstructed)) + 1
          /\ \A i \in 1 .. Len(Front(reconstructed)) :
                Append(Front(reconstructed), line)[i] = Front(reconstructed)[i]
          /\ Append(Front(reconstructed), line)[Len(Front(reconstructed)) + 1] = line
      BY <1>2, <1>4, AppendProperties
    <3> QED
      BY <1>1, <1>2, <3>1
  <2>2. /\ new \in Seq(Lines) /\ Len(new) = last
        /\ \A i \in 1 .. last : new[i] = IF i = last THEN line ELSE reconstructed[i]
    BY <1>2, <1>4, StateFacts, ExceptSeq
  <2> HIDE DEF new
  <2>3. \A i \in 1 .. Len(new) : new[i] = reconstructed'[i]
    BY <1>2, <2>1, <2>2
  <2>4. new = reconstructed'
    BY <2>1, <2>2, <2>3, SeqEqual
  <2> QED
    BY <2>4 DEF new
<1>7. reconstructed' \in Seq(Lines) /\ Holds(prog, reconstructed', pc)
  <2> DEFINE last == Len(reconstructed)
             new == [reconstructed EXCEPT ![last] = line]
  <2>1. DOMAIN reconstructed = 1 .. last
    BY StateFacts, LenProperties
  <2>2. last \in 1 .. last /\ reconstructed[last].at = 0
    BY <1>2, <1>5
  <2> HIDE DEF last
  <2>3. new \in Seq(Lines)
    BY <1>4, <2>2, StateFacts, ExceptSeq DEF last
  <2>4. Holds(prog, new, pc)
    BY <1>4, <2>1, <2>2, StateFacts, RewriteHolds
  <2> QED
    BY <1>6, <2>3, <2>4 DEF last
<1> QED
  BY <1>1, <1>7, StateFacts, TestIsNoStatement, PassedInstruction, NextState

LEMMA OpenIfStep == ASSUME IInv, OpenIf PROVE IInv'
<1>1. /\ Handles(ConditionalJumps) /\ Next_pc(pc + 1)
      /\ reconstructed' = Append(reconstructed, Condition(indent_level, FallsThroughOn))
      /\ indent_level' = indent_level + 1
      /\ blocks' = Append(blocks, Block(Instr.target, "if"))
  BY DEF OpenIf
<1>2. /\ Condition(indent_level, FallsThroughOn) \in Lines
      /\ Condition(indent_level, FallsThroughOn).at = 0
  BY <1>1, StateFacts, ConditionTokens, LineTypes
<1>3. reconstructed' \in Seq(Lines) /\ Holds(prog, reconstructed', pc)
  BY <1>1, <1>2, AppendedLine
<1>4. blocks' \in Seq(BlocksOf(prog)) /\ Len(blocks') = Len(blocks) + 1
  <2>1. Block(Instr.target, "if") \in BlocksOf(prog)
    BY <1>1, TestIsNoStatement DEF Block, BlocksOf, BlockTypes
  <2> QED
    BY <1>1, <2>1, StateFacts, AppendProperties
<1>5. indent_level' = Base + Len(blocks')
  BY <1>1, <1>4, StateFacts
<1> QED
  BY <1>1, <1>3, <1>4, <1>5, TestIsNoStatement, PassedInstruction, NextState

(* BreakWhen passes its own instruction, and the back-edge of the loop when *)
(* that is the next one.                                                    *)
LEMMA BreakPasses ==
    ASSUME IInv, BreakWhen
    PROVE  /\ prog' = prog /\ done' = done
           /\ pc' \in {pc + 1, pc + 2} /\ pc' \in 1 .. Len(code) + 1
           /\ pc \notin StatementsIn(prog)
           /\ pc' = pc + 2 => pc + 1 \notin StatementsIn(prog)
<1>1. Handles(ConditionalJumps) /\ LeavesWhile
  BY DEF BreakWhen
<1>2. PICK b \in DOMAIN blocks :
         /\ IsTopmost(b, OfType(Loops))
         /\ Next_pc(IF pc + 2 = blocks[b].end THEN pc + 2 ELSE pc + 1)
  BY DEF BreakWhen
<1>3. pc \in DOMAIN code /\ pc \notin StatementsIn(prog)
  BY <1>1, TestIsNoStatement
<1>4. prog' = prog /\ done' = done /\ pc' = IF pc + 2 = blocks[b].end THEN pc + 2 ELSE pc + 1
  BY <1>2 DEF Next_pc
<1>5. blocks[b].end \in DOMAIN code
  BY <1>2, StateFacts DEF BlocksOf, code
<1>6. pc' \in {pc + 1, pc + 2} /\ pc' \in 1 .. Len(code) + 1
  BY <1>3, <1>4, <1>5, StateFacts
<1>7. ASSUME pc' = pc + 2 PROVE pc + 1 \notin StatementsIn(prog)
  <2>1. PICK c \in DOMAIN blocks : IsTopmost(c, OfType(Loops)) /\ IsBackward(code[blocks[c].end - 1])
    BY <1>1 DEF LeavesWhile
  <2>2. b \in Nat /\ c \in Nat
    BY <1>2, <2>1, StateFacts
  <2>3. b = c
    BY <1>2, <2>1, <2>2 DEF IsTopmost
  <2>4. blocks[b].end - 1 = pc + 1
    BY <1>4, <1>5, <1>7, StateFacts, SMTT(30)
  <2>5. IsBackward(code[pc + 1])
    BY <2>1, <2>3, <2>4
  <2> QED
    BY <2>5 DEF StatementsIn, IsBackward, code
<1> QED
  BY <1>3, <1>4, <1>6, <1>7

LEMMA BreakWhenStep == ASSUME IInv, BreakWhen PROVE IInv'
<1> DEFINE test == IF JumpsWhenTrue THEN Atom(Instr) ELSE Word("not") \o Atom(Instr)
           head == Condition(indent_level, test)
           body == Line(indent_level + 1, "break")
<1>1. /\ Handles(ConditionalJumps)
      /\ UNCHANGED <<blocks, indent_level>>
      /\ reconstructed' = reconstructed \o << head, body >>
  BY DEF BreakWhen
<1>2. test \in Seq(Tokens)
  BY <1>1, ConditionTokens
<1> HIDE DEF test
<1>3. head \in Lines /\ head.at = 0 /\ body \in Lines /\ body.at = 0
  <2>1. indent_level \in Nat /\ indent_level + 1 \in Nat /\ "break" \in Words
    BY StateFacts DEF Words
  <2> QED
    BY <1>2, <2>1, LineTypes
<1> HIDE DEF head, body
<1>4. reconstructed' \in Seq(Lines) /\ Holds(prog, reconstructed', pc)
  <2>1. Pads(reconstructed', reconstructed)
    BY <1>1, <1>3, StateFacts, ConcatPads
  <2> QED
    BY <2>1, StateFacts, PadsHolds DEF Pads
<1>5. Holds(prog, reconstructed', pc + 1)
  BY <1>4, BreakPasses, StateFacts, SkipHolds
<1>6. Holds(prog, reconstructed', pc')
  <2>1. pc + 1 \in Nat /\ pc + 1 + 1 = pc + 2
    BY StateFacts
  <2>2. pc' = pc + 2 => Holds(prog, reconstructed', pc + 1 + 1)
    BY <1>5, <2>1, BreakPasses, StateFacts, SkipHolds
  <2> QED
    BY <1>5, <2>1, <2>2, BreakPasses
<1>7. done' \in BOOLEAN
  BY BreakPasses DEF IInv, TypeOK
<1> QED
  BY <1>1, <1>4, <1>6, <1>7, BreakPasses, StateFacts, NextState

-----------------------------------------------------------------------------
(* Jumps forward. *)

LEMMA JumpIsNoStatement ==
    ASSUME IInv, NEW op \in UnconditionalJumps, Handles({op})
    PROVE  /\ pc \in DOMAIN code /\ pc \notin StatementsIn(prog)
           /\ Instr.op = op
           /\ Instr.target \in DOMAIN prog.code
<1>1. pc \in DOMAIN code /\ Instr.op = op /\ Instr = prog.code[pc]
  BY HandledInstruction
<1>2. pc \notin StatementsIn(prog)
  BY <1>1 DEF StatementsIn, UnconditionalJumps
<1> QED
  BY <1>1, <1>2, StateFacts, CodeFacts DEF HasTarget, IsJump, code

LEMMA WriteBreakStep == ASSUME IInv, WriteBreak PROVE IInv'
<1>1. /\ Handles({"JUMP_FORWARD"}) /\ Next_pc(pc + 1)
      /\ UNCHANGED <<blocks, indent_level>>
      /\ reconstructed' = Append(reconstructed, Line(indent_level, "break"))
  BY DEF WriteBreak
<1>2. reconstructed' \in Seq(Lines) /\ Holds(prog, reconstructed', pc)
  <2>1. Line(indent_level, "break") \in Lines /\ Line(indent_level, "break").at = 0
    BY StateFacts, LineTypes DEF Words
  <2> QED
    BY <1>1, <2>1, AppendedLine
<1>3. pc \in DOMAIN code /\ pc \notin StatementsIn(prog)
  BY <1>1, JumpIsNoStatement DEF UnconditionalJumps
<1> QED
  BY <1>1, <1>2, <1>3, StateFacts, PassedInstruction, NextState

LEMMA IgnoreForwardJumpStep == ASSUME IInv, IgnoreForwardJump PROVE IInv'
<1>1. /\ Handles({"JUMP_FORWARD"}) /\ Next_pc(pc + 1)
      /\ UNCHANGED <<blocks, indent_level, reconstructed>>
  BY DEF IgnoreForwardJump
<1>2. pc \in DOMAIN code /\ pc \notin StatementsIn(prog)
  BY <1>1, JumpIsNoStatement DEF UnconditionalJumps
<1> QED
  BY <1>1, <1>2, StateFacts, PassedInstruction, NextState

(* The blocks from m on are replaced by an `else`. *)
LEMMA ReplacedBlocks ==
    ASSUME IInv, NEW m \in DOMAIN blocks, NEW end \in DOMAIN code
    PROVE  LET outer == SubSeq(blocks, 1, m - 1)
               new == Append(outer, Block(Clip(outer, pc, end), "else"))
           IN  /\ new \in Seq(BlocksOf(prog)) /\ Len(new) = m
               /\ indent_level - (Len(blocks) - m) = Base + m
<1> DEFINE outer == SubSeq(blocks, 1, m - 1)
           else == Block(Clip(outer, pc, end), "else")
<1>1. m - 1 \in 0 .. Len(blocks) /\ m \in Nat
  BY StateFacts
<1>2. outer \in Seq(BlocksOf(prog)) /\ Len(outer) = m - 1
  BY <1>1, StateFacts, Prefix
<1> HIDE DEF outer
<1>3. else \in BlocksOf(prog)
  <2>1. Clip(outer, pc, end) \in DOMAIN prog.code
    BY <1>2, StateFacts, ClipType DEF code
  <2> QED
    BY <2>1 DEF Block, BlocksOf, BlockTypes
<1> HIDE DEF else
<1>4. Append(outer, else) \in Seq(BlocksOf(prog)) /\ Len(Append(outer, else)) = m
  BY <1>1, <1>2, <1>3, AppendProperties
<1>5. indent_level - (Len(blocks) - m) = Base + m
  BY <1>1, StateFacts
<1> QED
  BY <1>4, <1>5 DEF outer, else

LEMMA OpenElseStep == ASSUME IInv, OpenElse PROVE IInv'
<1>1. Handles({"JUMP_FORWARD"}) /\ Next_pc(pc + 1)
  BY DEF OpenElse
<1>2. PICK m \in DOMAIN blocks :
         LET outer == SubSeq(blocks, 1, m - 1)
             depth == indent_level - (Len(blocks) - m)
         IN  /\ blocks' = Append(outer, Block(Clip(outer, pc, Instr.target), "else"))
             /\ reconstructed' = Write(WithBody(reconstructed, indent_level), Line(depth - 1, "else"))
             /\ indent_level' = depth
  BY DEF OpenElse
<1>3. /\ pc \in DOMAIN code /\ pc \notin StatementsIn(prog)
      /\ Instr.target \in DOMAIN code
  BY <1>1, JumpIsNoStatement DEF UnconditionalJumps, code
<1>4. /\ blocks' \in Seq(BlocksOf(prog)) /\ Len(blocks') = m
      /\ indent_level - (Len(blocks) - m) = Base + m
  BY <1>2, <1>3, ReplacedBlocks
<1>5. indent_level' = Base + Len(blocks')
  BY <1>2, <1>4
<1>6. /\ reconstructed' \in Seq(Lines)
      /\ Holds(prog, reconstructed', pc)
  <2> DEFINE body == WithBody(reconstructed, indent_level)
  <2>1. body \in Seq(Lines) /\ Holds(prog, body, pc)
    BY StateFacts, WithBodyType, WithBodyPads, PadsHolds
  <2>2. Base + m - 1 \in Nat
    BY StateFacts
  <2> HIDE DEF body
  <2>3. /\ Write(body, Line(Base + m - 1, "else")) \in Seq(Lines)
        /\ Holds(prog, Write(body, Line(Base + m - 1, "else")), pc)
    BY <2>1, <2>2, StateFacts, WriteType, WritePads, PadsHolds, ZenonT(60)
  <2>4. reconstructed' = Write(body, Line(Base + m - 1, "else"))
    <3> DEFINE depth == indent_level - (Len(blocks) - m)
    <3>1. reconstructed' = Write(body, Line(depth - 1, "else"))
      BY <1>2, Zenon DEF body
    <3>2. depth - 1 = Base + m - 1
      BY StateFacts
    <3> QED
      BY <3>1, <3>2, Zenon
  <2> QED
    BY <2>3, <2>4
<1> QED
  BY <1>1, <1>3, <1>4, <1>5, <1>6, PassedInstruction, NextState

LEMMA StopAtLoopStep == ASSUME IInv, StopAtLoop PROVE IInv'
<1>1. Handles({"JUMP_FORWARD"}) /\ Next_pc(pc + 1)
  BY DEF StopAtLoop
<1>2. PICK c \in DOMAIN blocks :
         /\ blocks' = SubSeq(blocks, 1, c)
         /\ indent_level' = indent_level - (Len(blocks) - c)
         /\ reconstructed' = IF c < Len(blocks) THEN WithBody(reconstructed, indent_level)
                             ELSE reconstructed
  BY DEF StopAtLoop
<1>3. pc \in DOMAIN code /\ pc \notin StatementsIn(prog)
  BY <1>1, JumpIsNoStatement DEF UnconditionalJumps
<1>4. blocks' \in Seq(BlocksOf(prog)) /\ Len(blocks') = c
  <2>1. c \in 0 .. Len(blocks)
    BY StateFacts
  <2> QED
    BY <1>2, <2>1, StateFacts, Prefix
<1>5. indent_level' = Base + Len(blocks')
  BY <1>2, <1>4, StateFacts
<1>6. reconstructed' \in Seq(Lines) /\ Holds(prog, reconstructed', pc)
  BY <1>2, StateFacts, WithBodyType, WithBodyPads, PadsHolds
<1> QED
  BY <1>1, <1>3, <1>4, <1>5, <1>6, PassedInstruction, NextState

-----------------------------------------------------------------------------
(* Jumps back. *)

LEMMA WriteContinueStep == ASSUME IInv, WriteContinue \/ ContinueAtLastBackJump PROVE IInv'
<1>1. /\ Handles({"JUMP_BACKWARD"}) /\ Next_pc(pc + 1)
      /\ UNCHANGED <<blocks, indent_level>>
      /\ reconstructed' = Append(reconstructed, Line(indent_level, "continue"))
  BY DEF WriteContinue, ContinueAtLastBackJump
<1>2. reconstructed' \in Seq(Lines) /\ Holds(prog, reconstructed', pc)
  <2>1. Line(indent_level, "continue") \in Lines /\ Line(indent_level, "continue").at = 0
    BY StateFacts, LineTypes DEF Words
  <2> QED
    BY <1>1, <2>1, AppendedLine
<1>3. pc \in DOMAIN code /\ pc \notin StatementsIn(prog)
  BY <1>1, JumpIsNoStatement DEF UnconditionalJumps
<1> QED
  BY <1>1, <1>2, <1>3, StateFacts, PassedInstruction, NextState

LEMMA IgnoredBackJumpStep == ASSUME IInv, IgnoreBackJump \/ CloseLoop PROVE IInv'
<1>1. /\ Handles({"JUMP_BACKWARD"}) /\ Next_pc(pc + 1)
      /\ UNCHANGED <<blocks, indent_level, reconstructed>>
  BY DEF IgnoreBackJump, CloseLoop
<1>2. pc \in DOMAIN code /\ pc \notin StatementsIn(prog)
  BY <1>1, JumpIsNoStatement DEF UnconditionalJumps
<1> QED
  BY <1>1, <1>2, StateFacts, PassedInstruction, NextState

LEMMA OpenElseAtBackJumpStep == ASSUME IInv, OpenElseAtBackJump PROVE IInv'
<1>1. Handles({"JUMP_BACKWARD"}) /\ Next_pc(pc + 1)
  BY DEF OpenElseAtBackJump
<1>2. PICK loop_end \in LaterBackEdges, m \in EndedIfs :
         LET outer == SubSeq(blocks, 1, m - 1)
             depth == indent_level - (Len(blocks) - m)
         IN  /\ \E else_end \in BranchElseEnds(loop_end, m < Len(blocks)) :
                   blocks' = Append(outer, Block(Clip(outer, pc, else_end), "else"))
             /\ reconstructed' =
                   Append(IF BodyEmpty(reconstructed)
                          THEN Append(reconstructed, Line(indent_level, "continue"))
                          ELSE reconstructed,
                          Line(depth - 1, "else"))
             /\ indent_level' = depth
  BY DEF OpenElseAtBackJump
<1>3. PICK else_end \in BranchElseEnds(loop_end, m < Len(blocks)) :
         blocks' = Append(SubSeq(blocks, 1, m - 1), Block(Clip(SubSeq(blocks, 1, m - 1), pc, else_end), "else"))
  BY <1>2
<1>4. /\ pc \in DOMAIN code /\ pc \notin StatementsIn(prog)
      /\ Instr.target \in DOMAIN code /\ Instr.op = "JUMP_BACKWARD"
  BY <1>1, JumpIsNoStatement DEF UnconditionalJumps, code
<1>5. m \in DOMAIN blocks
  BY <1>2 DEF EndedIfs, EndingIfs, OfType
<1>6. else_end \in DOMAIN code
  <2>1. code[Instr.target].target \in DOMAIN code
    <3>1. code[Instr.target].op = "FOR_ITER"
      BY <1>4, StateFacts, CodeFacts DEF IsBackward, Instr, code
    <3> QED
      BY <1>4, <3>1, StateFacts, CodeFacts DEF HasTarget, code
  <2>2. loop_end \in DOMAIN code
    BY <1>2, <1>4, StateFacts DEF LaterBackEdges
  <2>3. ElseEndWithBreakTail(loop_end) \in DOMAIN code
    BY <2>1, <2>2, Zenon DEF ElseEndWithBreakTail
  <2>4. ChainEnds(ElseEndWithBreakTail(loop_end)) \subseteq DOMAIN code
    <3> SUFFICES ASSUME NEW x \in 1 .. pc - 1, IsJump(code[x])
                 PROVE  code[x].target \in DOMAIN code
      BY DEF ChainEnds
    <3>1. x \in DOMAIN code
      BY <1>4, StateFacts
    <3> QED
      BY <3>1, StateFacts, CodeFacts DEF HasTarget, code
  <2> QED
    BY <2>3, <2>4, Zenon DEF BranchElseEnds
<1>7. /\ blocks' \in Seq(BlocksOf(prog)) /\ Len(blocks') = m
      /\ indent_level - (Len(blocks) - m) = Base + m
  BY <1>3, <1>5, <1>6, ReplacedBlocks
<1>8. indent_level' = Base + Len(blocks')
  BY <1>2, <1>7
<1>9. /\ reconstructed' \in Seq(Lines)
      /\ Holds(prog, reconstructed', pc)
  <2> DEFINE body == IF BodyEmpty(reconstructed)
                     THEN Append(reconstructed, Line(indent_level, "continue"))
                     ELSE reconstructed
             line == Line(Base + m - 1, "else")
  <2>1. Line(indent_level, "continue") \in Lines /\ Line(indent_level, "continue").at = 0
    BY StateFacts, LineTypes DEF Words
  <2>2. body \in Seq(Lines) /\ Holds(prog, body, pc)
    BY <2>1, AppendedLine, StateFacts, Zenon
  <2>3. line \in Lines /\ line.at = 0
    <3>1. Base + m - 1 \in Nat
      BY <1>5, StateFacts
    <3> QED
      BY <3>1, LineTypes DEF Words
  <2>4. reconstructed' = Append(body, line)
    <3> DEFINE depth == indent_level - (Len(blocks) - m)
    <3>1. reconstructed' = Append(body, Line(depth - 1, "else"))
      BY <1>2, Zenon
    <3>2. depth - 1 = Base + m - 1
      BY <1>5, StateFacts
    <3> QED
      BY <3>1, <3>2, Zenon
  <2> HIDE DEF body, line
  <2>5. Pads(Append(body, line), body)
    BY <2>2, <2>3, AppendPads
  <2> QED
    BY <2>2, <2>4, <2>5, StateFacts, PadsHolds DEF Pads
<1> QED
  BY <1>1, <1>4, <1>7, <1>8, <1>9, PassedInstruction, NextState

LEMMA RewriteIfAsWhileStep == ASSUME IInv, RewriteIfAsWhile PROVE IInv'
<1>1. Handles({"JUMP_BACKWARD"}) /\ Next_pc(pc + 1) /\ indent_level' = indent_level
  BY DEF RewriteIfAsWhile
<1>2. PICK b \in OpenIfs, k \in IfLines :
         /\ blocks' = [blocks EXCEPT ![b].type = "while"]
         /\ reconstructed' = [reconstructed EXCEPT ![k].word = "while"]
  BY DEF RewriteIfAsWhile
<1>3. pc \in DOMAIN code /\ pc \notin StatementsIn(prog)
  BY <1>1, JumpIsNoStatement DEF UnconditionalJumps
<1>4. b \in 1 .. Len(blocks)
  BY <1>2, StateFacts DEF OpenIfs, OfType
<1>5. k \in DOMAIN reconstructed /\ reconstructed[k].word = "if"
  BY <1>2 DEF IfLines
<1>6. blocks' \in Seq(BlocksOf(prog)) /\ Len(blocks') = Len(blocks)
  <2> DEFINE block == [blocks[b] EXCEPT !.type = "while"]
  <2>1. block \in BlocksOf(prog)
    BY <1>4, StateFacts DEF BlocksOf, BlockTypes
  <2>2. blocks' = [blocks EXCEPT ![b] = block]
    BY <1>2
  <2> HIDE DEF block
  <2> QED
    BY <1>4, <2>1, <2>2, StateFacts, ExceptSeq
<1>7. reconstructed' \in Seq(Lines) /\ Holds(prog, reconstructed', pc)
  <2> DEFINE line == [reconstructed[k] EXCEPT !.word = "while"]
  <2>1. DOMAIN reconstructed = 1 .. Len(reconstructed) /\ reconstructed[k] \in Lines
    BY <1>5, StateFacts, LenProperties, ElementOfSeq
  <2>2. reconstructed[k].at = 0
    <3>1. ASSUME k \in StatementLines(reconstructed) PROVE FALSE
      <4>1. PICK i \in StatementsIn(prog) : Shows(prog, reconstructed[k], i)
        BY <3>1, StateFacts DEF Holds
      <4> QED
        BY <1>5, <4>1 DEF Shows
    <3> QED
      BY <1>5, <3>1 DEF StatementLines
  <2>3. line \in Lines /\ line.at = 0
    BY <2>1, <2>2 DEF Lines, Words
  <2>4. reconstructed' = [reconstructed EXCEPT ![k] = line]
    BY <1>2
  <2> HIDE DEF line
  <2>5. [reconstructed EXCEPT ![k] = line] \in Seq(Lines)
    BY <1>5, <2>1, <2>3, StateFacts, ExceptSeq
  <2>6. Holds(prog, [reconstructed EXCEPT ![k] = line], pc)
    BY <1>5, <2>2, <2>3, StateFacts, RewriteHolds
  <2> QED
    BY <2>4, <2>5, <2>6
<1>8. indent_level' = Base + Len(blocks')
  BY <1>1, <1>6, StateFacts
<1> QED
  BY <1>1, <1>3, <1>6, <1>7, <1>8, PassedInstruction, NextState

LEMMA FinishStep == ASSUME IInv, Finish PROVE IInv'
<1>1. /\ prog' = prog /\ pc' = pc /\ blocks' = blocks /\ indent_level' = indent_level /\ done' = TRUE
      /\ reconstructed' = IF reconstructed = << >> THEN << Line(indent_level, "pass") >>
                          ELSE reconstructed
  BY DEF Finish
<1>2. reconstructed' \in Seq(Lines) /\ Holds(prog, reconstructed', pc)
  <2>1. Line(indent_level, "pass") \in Lines /\ Line(indent_level, "pass").at = 0
    BY StateFacts, LineTypes DEF Words
  <2>2. Append(<< >>, Line(indent_level, "pass")) = << Line(indent_level, "pass") >>
    OBVIOUS
  <2>3. CASE reconstructed = << >>
    BY <1>1, <2>1, <2>2, <2>3, AppendedLine
  <2>4. CASE reconstructed # << >>
    BY <1>1, <2>4, StateFacts
  <2> QED
    BY <2>3, <2>4
<1>3. pc' \in 1 .. Len(code) + 1
  BY <1>1 DEF IInv, TypeOK
<1> QED
  BY <1>1, <1>2, <1>3, StateFacts, NextState

-----------------------------------------------------------------------------
(* The invariant holds at the start and is kept by every step.              *)

LEMMA InitIInv == ASSUME Init PROVE IInv
<1>1. /\ prog \in Programs /\ pc = 1 /\ blocks = << >> /\ indent_level = Base
      /\ reconstructed = << >> /\ done = FALSE
  BY DEF Init
<1>2. TypeOK
  <2>1. Len(code) \in Nat \ {0}
    BY <1>1, CodeFacts DEF code
  <2>2. reconstructed \in Seq(Lines) /\ blocks \in Seq([end : DOMAIN code, type : BlockTypes])
    BY <1>1, EmptySeq
  <2>3. pc \in 1 .. Len(code) + 1
    BY <1>1, <2>1
  <2>4. indent_level \in Nat
    BY <1>1, BaseAssumption
  <2>5. done \in BOOLEAN
    BY <1>1, Zenon
  <2> QED
    BY <1>1, <2>2, <2>3, <2>4, <2>5 DEF TypeOK
<1>3. IndentMatchesBlocks
  BY <1>1, BaseAssumption DEF IndentMatchesBlocks
<1>4. StatementsKept
  <2>1. StatementLines(reconstructed) = {}
    BY <1>1 DEF StatementLines
  <2>2. \A i \in StatementsIn(prog) : ~(i < pc)
    BY <1>1, CodeFacts DEF StatementsIn
  <2> QED
    BY <2>1, <2>2 DEF StatementsKept, Holds
<1> QED
  BY <1>2, <1>3, <1>4 DEF IInv

LEMMA StutterIInv == ASSUME IInv, UNCHANGED vars PROVE IInv'
<1>1. /\ prog' = prog /\ pc' = pc /\ blocks' = blocks /\ indent_level' = indent_level
      /\ reconstructed' = reconstructed /\ done' = done
  BY DEF vars
<1>2. pc' \in 1 .. Len(code) + 1 /\ done' \in BOOLEAN
  BY <1>1 DEF IInv, TypeOK
<1> QED
  BY <1>1, <1>2, StateFacts, NextState

LEMMA NextIInv == ASSUME IInv, [Next]_vars PROVE IInv'
<1>1. CASE CloseBlock
  BY <1>1, CloseBlockStep
<1>2. CASE CloseIntoElse
  BY <1>2, CloseIntoElseStep
<1>3. CASE Suppressed
  BY <1>3, SuppressedStep
<1>4. CASE Quiet
  BY <1>4, QuietStep
<1>5. CASE WriteStatement
  BY <1>5, WriteStatementStep
<1>6. CASE OpenFor
  BY <1>6, OpenForStep
<1>7. CASE JoinCondition
  BY <1>7, JoinConditionStep
<1>8. CASE BreakWhen
  BY <1>8, BreakWhenStep
<1>9. CASE OpenIf
  BY <1>9, OpenIfStep
<1>10. CASE WriteBreak
  BY <1>10, WriteBreakStep
<1>11. CASE OpenElse
  BY <1>11, OpenElseStep
<1>12. CASE StopAtLoop
  BY <1>12, StopAtLoopStep
<1>13. CASE IgnoreForwardJump
  BY <1>13, IgnoreForwardJumpStep
<1>14. CASE WriteContinue \/ ContinueAtLastBackJump
  BY <1>14, WriteContinueStep
<1>15. CASE OpenElseAtBackJump
  BY <1>15, OpenElseAtBackJumpStep
<1>16. CASE IgnoreBackJump \/ CloseLoop
  BY <1>16, IgnoredBackJumpStep
<1>17. CASE RewriteIfAsWhile
  BY <1>17, RewriteIfAsWhileStep
<1>18. CASE Finish
  BY <1>18, FinishStep
<1>19. CASE UNCHANGED vars
  BY <1>19, StutterIInv
<1> QED
  BY <1>1, <1>2, <1>3, <1>4, <1>5, <1>6, <1>7, <1>8, <1>9, <1>10, <1>11, <1>12, <1>13,
     <1>14, <1>15, <1>16, <1>17, <1>18, <1>19 DEF Next

LEMMA SpecIInv == Spec => []IInv
  BY InitIInv, NextIInv, PTL DEF Spec

(* The state of the main pass has its types: in particular every block ends *)
(* at an instruction of the code, however often an `else` is clipped and a  *)
(* jump is read as the end of something (self.pc, self.blocks).             *)
THEOREM TypesHold == Spec => []TypeOK
<1>1. IInv => TypeOK
  BY DEF IInv
<1> QED
  BY <1>1, SpecIInv, PTL

(* self.indent_level and self.blocks are changed by a dozen handlers, and   *)
(* agree after each of them, on any code: lines are indented by the blocks  *)
(* that are open.                                                           *)
THEOREM IndentationHolds == Spec => []IndentMatchesBlocks
<1>1. IInv => IndentMatchesBlocks
  BY DEF IInv
<1> QED
  BY <1>1, SpecIInv, PTL

(* Whatever the main pass makes of the jumps, it loses no call and no       *)
(* `return`, writes none twice and keeps their order (self.reconstructed).  *)
THEOREM StatementsHold == Spec => []StatementsKept
<1>1. IInv => StatementsKept
  BY DEF IInv
<1> QED
  BY <1>1, SpecIInv, PTL

-----------------------------------------------------------------------------
(* The main pass implements StatementStream: a step writes the next         *)
(* statement, returns, or changes nothing the stream shows.                 *)

Written == {reconstructed[k].at : k \in StatementLines(reconstructed)}
Before(n) == {i \in StatementsIn(prog) : i < n}

LEMMA HeldStatements ==
    ASSUME NEW p, NEW lines, NEW n, Holds(p, lines, n)
    PROVE  {lines[k].at : k \in StatementLines(lines)} = {i \in StatementsIn(p) : i < n}
  BY DEF Holds, Shows

LEMMA WrittenSoFar ==
    ASSUME IInv, IInv'
    PROVE  Written = Before(pc) /\ Written' = Before(pc)'
<1>1. Holds(prog, reconstructed, pc) /\ Holds(prog', reconstructed', pc')
  BY DEF IInv, StatementsKept
<1> QED
  BY <1>1, HeldStatements DEF Written, Before

LEMMA PassedNoStatement ==
    ASSUME IInv, NEW ops, Handles(ops), "STMT" \notin ops, "RETURN_VALUE" \notin ops, Next_pc(pc + 1)
    PROVE  /\ prog' = prog /\ done' = done /\ pc' = pc + 1 /\ pc \notin StatementsIn(prog)
<1>1. pc \in DOMAIN code /\ Instr.op \in ops /\ Instr = prog.code[pc]
  BY HandledInstruction
<1> QED
  BY <1>1 DEF Next_pc, StatementsIn

(* What every action but WriteStatement and Finish does to pc.              *)
LEMMA OtherSteps ==
    ASSUME IInv, Next, ~WriteStatement, ~Finish
    PROVE  /\ prog' = prog /\ done' = done
           /\ pc' \in {pc, pc + 1, pc + 2}
           /\ pc' # pc => pc \notin StatementsIn(prog)
           /\ pc' = pc + 2 => pc + 1 \notin StatementsIn(prog)
<1> DEFINE goal == /\ prog' = prog /\ done' = done
                   /\ pc' \in {pc, pc + 1, pc + 2}
                   /\ pc' # pc => pc \notin StatementsIn(prog)
                   /\ pc' = pc + 2 => pc + 1 \notin StatementsIn(prog)
<1>0. pc \in Nat
  BY StateFacts
<1>1. CASE CloseBlock \/ CloseIntoElse
  BY <1>0, <1>1 DEF CloseBlock, CloseIntoElse
<1>2. CASE Suppressed
  <2>1. Next_pc(pc + 1) /\ pc \in prog.suppress
    BY <1>2 DEF Suppressed
  <2>2. pc \notin StatementsIn(prog)
    BY <2>1, StateFacts, CodeFacts DEF StatementsIn, ConditionalJumps
  <2> QED
    BY <1>0, <2>1, <2>2 DEF Next_pc
<1>3. CASE BreakWhen
  BY <1>0, <1>3, BreakPasses
<1>4. ASSUME NEW ops, Handles(ops), "STMT" \notin ops, "RETURN_VALUE" \notin ops, Next_pc(pc + 1)
      PROVE  goal
  BY <1>0, <1>4, PassedNoStatement
<1>5. CASE Quiet
  <2>1. Handles({"GET_ITER", "POP_TOP", "RETURN_NONE"}) /\ Next_pc(pc + 1)
    BY <1>5 DEF Quiet
  <2> QED
    BY <1>4, <2>1
<1>6. CASE OpenFor
  <2>1. Handles({"FOR_ITER"}) /\ Next_pc(pc + 1)
    BY <1>6 DEF OpenFor
  <2> QED
    BY <1>4, <2>1
<1>7. CASE JoinCondition \/ OpenIf
  <2>1. Handles(ConditionalJumps) /\ Next_pc(pc + 1)
    BY <1>7 DEF JoinCondition, OpenIf
  <2>2. "STMT" \notin ConditionalJumps /\ "RETURN_VALUE" \notin ConditionalJumps
    BY DEF ConditionalJumps
  <2> QED
    BY <1>4, <2>1, <2>2
<1>8. CASE WriteBreak \/ OpenElse \/ StopAtLoop \/ IgnoreForwardJump
  <2>1. Handles({"JUMP_FORWARD"}) /\ Next_pc(pc + 1)
    BY <1>8 DEF WriteBreak, OpenElse, StopAtLoop, IgnoreForwardJump
  <2> QED
    BY <1>4, <2>1
<1>9. CASE \/ WriteContinue \/ OpenElseAtBackJump \/ IgnoreBackJump
           \/ ContinueAtLastBackJump \/ RewriteIfAsWhile \/ CloseLoop
  <2>1. Handles({"JUMP_BACKWARD"}) /\ Next_pc(pc + 1)
    BY <1>9 DEF WriteContinue, OpenElseAtBackJump, IgnoreBackJump, ContinueAtLastBackJump,
                RewriteIfAsWhile, CloseLoop
  <2> QED
    BY <1>4, <2>1
<1> QED
  BY <1>1, <1>2, <1>3, <1>5, <1>6, <1>7, <1>8, <1>9 DEF Next

LEMMA StepImplementsStream ==
    ASSUME IInv, IInv', [Next]_vars
    PROVE  [Statements!Next]_(Statements!streamVars)
<1> DEFINE source == StatementsIn(prog)
<1>1. Written = Before(pc) /\ Written' = Before(pc)'
  BY WrittenSoFar
<1>2. pc \in Nat /\ source \subseteq Nat
  BY StateFacts, CodeFacts, SMTT(30) DEF StatementsIn
<1>3. CASE WriteStatement
  <2>1. /\ pc \in source /\ prog' = prog /\ pc' = pc + 1 /\ done' = done /\ ~done
    <3>1. Handles({"STMT", "RETURN_VALUE"}) /\ Next_pc(pc + 1)
      BY <1>3 DEF WriteStatement
    <3>2. pc \in DOMAIN code /\ Instr.op \in {"STMT", "RETURN_VALUE"} /\ Instr = prog.code[pc]
      BY <3>1, HandledInstruction
    <3> QED
      BY <3>1, <3>2 DEF Next_pc, Handles, StatementsIn, code
  <2>2. Written' = Written \cup {pc} /\ source' = source
    BY <1>1, <1>2, <2>1 DEF Before
  <2>3. pc \in source \ Written /\ \A j \in source \ Written : pc <= j
    BY <1>1, <1>2, <2>1 DEF Before
  <2>4. Statements!IsNext(pc)
    BY <2>3 DEF Statements!IsNext, Written
  <2>5. Statements!WriteNext
    BY <2>1, <2>2, <2>4 DEF Statements!WriteNext, Written
  <2> QED
    BY <2>5 DEF Statements!Next
<1>4. CASE Finish
  <2>1. ~done /\ done' = TRUE /\ prog' = prog /\ pc' = pc /\ pc = Len(code) + 1
    BY <1>4 DEF Finish, PastTheEnd
  <2>2. Before(pc) = source
    BY <2>1, StateFacts, CodeFacts, SMTT(30) DEF Before, StatementsIn, code
  <2>3. Written' = Written /\ source' = source
    BY <1>1, <2>1 DEF Before
  <2>4. Statements!Return
    BY <1>1, <2>1, <2>2, <2>3 DEF Statements!Return, Written
  <2> QED
    BY <2>4 DEF Statements!Next
<1>5. CASE Next /\ ~WriteStatement /\ ~Finish
  <2>1. /\ prog' = prog /\ done' = done
        /\ pc' \in {pc, pc + 1, pc + 2}
        /\ pc' # pc => pc \notin source
        /\ pc' = pc + 2 => pc + 1 \notin source
    BY <1>5, OtherSteps
  <2>2. source' = source /\ Written' = Written
    BY <1>1, <1>2, <2>1 DEF Before
  <2> QED
    BY <2>1, <2>2 DEF Statements!streamVars, Written
<1>6. CASE UNCHANGED vars
  <2>1. prog' = prog /\ done' = done /\ reconstructed' = reconstructed
    BY <1>6 DEF vars
  <2> QED
    BY <2>1 DEF Statements!streamVars
<1> QED
  BY <1>3, <1>4, <1>5, <1>6

(* decompile() writes the statements of the code one after the other, in    *)
(* the order of the code, and only returns when all of them are written     *)
(* (the safety of WritesStatements; that it returns is checked by TLC).     *)
THEOREM ImplementsStream == Spec => Statements!Init /\ [][Statements!Next]_(Statements!streamVars)
<1>1. Init => Statements!Init
  <2> SUFFICES ASSUME Init PROVE Statements!Init
    OBVIOUS
  <2>1. StatementsIn(prog) \subseteq Nat
    BY CodeFacts DEF Init, StatementsIn
  <2>2. StatementLines(reconstructed) = {} /\ done = FALSE
    BY DEF Init, StatementLines
  <2> QED
    BY <2>1, <2>2 DEF Statements!Init
<1>2. IInv /\ IInv' /\ [Next]_vars => [Statements!Next]_(Statements!streamVars)
  BY StepImplementsStream
<1> QED
  BY <1>1, <1>2, SpecIInv, PTL DEF Spec

-----------------------------------------------------------------------------
(* The lines the main pass writes parse (TextParses of BlockReplay.tla),    *)
(* for every code object whose loops are entered at their heads.            *)
(*                                                                          *)
(* The text and the blocks are tied together: every open block was opened   *)
(* by a line that is still there, one level to the left of all that came    *)
(* after it.  So an `else` finds the line of the block it replaces, and a   *)
(* `break` or `continue` the line of the loop that is open, provided that   *)
(* one is: what the jumps of the code say of the open blocks is the second  *)
(* half of the invariant.                                                   *)

-----------------------------------------------------------------------------
(* The text. *)

(* All that follows h up to n is deeper than h. *)
Deeper(lines, h, n) == \A j \in h + 1 .. n : lines[j].indent > lines[h].indent

Deep(lines) == \A k \in DOMAIN lines : lines[k].indent >= Base

Stepped(lines) ==
    \A k \in 1 .. Len(lines) - 1 :
        /\ lines[k].word \in Headers => lines[k + 1].indent = lines[k].indent + 1
        /\ lines[k].word \notin Headers => lines[k + 1].indent <= lines[k].indent

Owned(lines) ==
    \A k \in DOMAIN lines : lines[k].word = "else" =>
        \E h \in 1 .. k - 1 : /\ lines[h].indent = lines[k].indent
                              /\ lines[h].word \in {"if", "for", "while"}
                              /\ Deeper(lines, h, k - 1)

Looped(lines) ==
    \A k \in DOMAIN lines : lines[k].word \in {"break", "continue"} =>
        \E h \in 1 .. k - 1 : lines[h].word \in Loops /\ Deeper(lines, h, k)

(* What the next line may be: the body of the header just written, or a     *)
(* statement no deeper than the last.                                       *)
Fits(lines, level) ==
    lines # << >> => /\ BodyEmpty(lines) => Last(lines).indent + 1 = level
                     /\ ~BodyEmpty(lines) => Last(lines).indent >= level

(* A `while` block may have kept its `if` (_rewrite_if_as_while rewrites     *)
(* the last `if` line there is).                                            *)
Opener(word, type) ==
    \/ type \in {"if", "while"} /\ word \in {"if", "while"}
    \/ type \in {"for", "else"} /\ word = type

Opened(lines, stack) ==
    \A b \in DOMAIN stack : \E h \in DOMAIN lines :
        /\ lines[h].indent + 1 = Base + b
        /\ Opener(lines[h].word, stack[b].type)
        /\ Deeper(lines, h, Len(lines))

Text(lines, stack) ==
    /\ Deep(lines) /\ Stepped(lines) /\ Owned(lines) /\ Looped(lines)
    /\ Fits(lines, Base + Len(stack))
    /\ Opened(lines, stack)

-----------------------------------------------------------------------------
(* The open blocks and the jumps of the code. *)

ForHeads == {h \in DOMAIN code : h < pc /\ code[h].op = "FOR_ITER"}

(* The body of a loop is walked with the loop's block open. *)
LoopsAreOpen ==
    \A h \in ForHeads : pc < code[h].target =>
        \E b \in DOMAIN blocks : blocks[b] = Block(code[h].target, "for")

(* An `if` ends where its test jumps to. *)
IfsAreTests ==
    \A b \in OfType({"if"}) : \E j \in DOMAIN code :
        j < pc /\ code[j].op \in ConditionalJumps /\ code[j].target = blocks[b].end

(* An `if` under a loop does not end inside it. *)
LoopsAreEntered ==
    \A b \in OfType({"if"}), c \in OfType({"for"}) : b < c =>
        \E h \in ForHeads : /\ code[h].target = blocks[c].end
                            /\ blocks[b].end <= h \/ blocks[c].end <= blocks[b].end

(* A `while` is one by a jump back to a loop: it is inside that loop. *)
WhilesAreInLoops ==
    \A b \in OfType({"while"}) : \E c \in OfType({"for"}) : c < b

ClosedAtTheEnd == done => blocks = << >>

Control == LoopsAreOpen /\ IfsAreTests /\ LoopsAreEntered /\ WhilesAreInLoops

TInv == Text(reconstructed, blocks) /\ Control /\ ClosedAtTheEnd

-----------------------------------------------------------------------------
(* Lines, one after the other. *)

LEMMA LinesFacts ==
    ASSUME NEW lines \in Seq(Lines)
    PROVE  /\ Len(lines) \in Nat /\ DOMAIN lines = 1 .. Len(lines)
           /\ \A k \in DOMAIN lines : lines[k] \in Lines /\ lines[k].indent \in Nat
           /\ lines # << >> => Len(lines) \in Nat \ {0} /\ Last(lines) = lines[Len(lines)]
           /\ Len(lines) # 0 => lines # << >>
<1>1. Len(lines) \in Nat /\ DOMAIN lines = 1 .. Len(lines)
  BY LenProperties
<1>2. \A k \in DOMAIN lines : lines[k] \in Lines
  BY <1>1, ElementOfSeq
<1>3. \A k \in DOMAIN lines : lines[k].indent \in Nat
  BY <1>2 DEF Lines
<1>4. lines # << >> => Len(lines) \in Nat \ {0} /\ Last(lines) = lines[Len(lines)]
  BY FrontLast
<1>5. Len(lines) # 0 => lines # << >>
  BY EmptySeq
<1> QED
  BY <1>1, <1>2, <1>3, <1>4, <1>5

(* What the last line says of the next. *)
LEMMA FitsAt ==
    ASSUME NEW lines \in Seq(Lines), NEW level
    PROVE  Fits(lines, level) <=>
              (Len(lines) # 0 =>
                 /\ lines[Len(lines)].word \in Headers => lines[Len(lines)].indent + 1 = level
                 /\ lines[Len(lines)].word \notin Headers => lines[Len(lines)].indent >= level)
<1>1. CASE lines = << >>
  BY <1>1, EmptySeq DEF Fits
<1>2. CASE lines # << >>
  <2>1. Len(lines) # 0 /\ Last(lines) = lines[Len(lines)]
    BY <1>2, LinesFacts
  <2>2. BodyEmpty(lines) <=> lines[Len(lines)].word \in Headers
    BY <1>2, <2>1, Zenon DEF BodyEmpty
  <2> QED
    BY <1>2, <2>1, <2>2, Zenon DEF Fits
<1> QED
  BY <1>1, <1>2

LEMMA StackFacts ==
    ASSUME NEW p, NEW stack \in Seq(BlocksOf(p))
    PROVE  /\ Len(stack) \in Nat /\ DOMAIN stack = 1 .. Len(stack)
           /\ \A b \in DOMAIN stack : stack[b].type \in BlockTypes
<1>1. Len(stack) \in Nat /\ DOMAIN stack = 1 .. Len(stack)
  BY LenProperties
<1>2. \A b \in DOMAIN stack : stack[b] \in BlocksOf(p)
  BY <1>1, ElementOfSeq
<1> QED
  BY <1>1, <1>2 DEF BlocksOf

(* The line at the indent of the open blocks, whatever it is but an `else`; *)
(* a `break` or `continue` needs a `for` block.                             *)
LEMMA AppendKeeps ==
    ASSUME NEW p, NEW stack \in Seq(BlocksOf(p)), NEW lines \in Seq(Lines), Text(lines, stack),
           NEW line \in Lines, line.indent = Base + Len(stack), line.word # "else",
           line.word \in {"break", "continue"} => \E c \in DOMAIN stack : stack[c].type = "for"
    PROVE  LET new == Append(lines, line)
           IN  /\ new \in Seq(Lines) /\ Len(new) = Len(lines) + 1 /\ new[Len(new)] = line
               /\ \A k \in 1 .. Len(lines) : new[k] = lines[k]
               /\ Deep(new) /\ Stepped(new) /\ Owned(new) /\ Looped(new) /\ Opened(new, stack)
<1> DEFINE new == Append(lines, line)
           n == Len(lines)
           d == Len(stack)
<1>1. /\ n \in Nat /\ DOMAIN lines = 1 .. n
      /\ \A k \in DOMAIN lines : lines[k].indent \in Nat
  BY LinesFacts
<1>2. /\ new \in Seq(Lines) /\ Len(new) = n + 1 /\ new[n + 1] = line
      /\ \A k \in 1 .. n : new[k] = lines[k]
  BY AppendProperties
<1>3. DOMAIN new = 1 .. n + 1
  BY <1>2, LinesFacts
<1>4. d \in Nat /\ DOMAIN stack = 1 .. d /\ Base \in Nat \ {0}
  BY StackFacts, BaseAssumption
<1>5. line.indent \in Nat /\ line.indent = Base + d
  BY DEF Lines
<1>6. /\ Deep(lines) /\ Stepped(lines) /\ Owned(lines) /\ Looped(lines)
      /\ Fits(lines, Base + d) /\ Opened(lines, stack)
  BY Zenon DEF Text
<1>7. n # 0 => /\ lines[n].word \in Headers => lines[n].indent + 1 = Base + d
               /\ lines[n].word \notin Headers => lines[n].indent >= Base + d
  BY <1>6, FitsAt
<1> HIDE DEF new, n, d
<1>8. Deep(new)
  BY <1>1, <1>2, <1>3, <1>4, <1>5, <1>6 DEF Deep
<1>9. Stepped(new)
  <2> SUFFICES ASSUME NEW k \in 1 .. n
               PROVE  /\ new[k].word \in Headers => new[k + 1].indent = new[k].indent + 1
                      /\ new[k].word \notin Headers => new[k + 1].indent <= new[k].indent
    BY <1>1, <1>2 DEF Stepped
  <2>1. CASE k < n
    <3>1. k \in 1 .. n - 1 /\ k + 1 \in 1 .. n
      BY <1>1, <2>1
    <3> QED
      BY <1>2, <1>6, <3>1 DEF Stepped, n
  <2>2. CASE k = n
    <3>1. new[k] = lines[n] /\ new[k + 1] = line /\ n # 0 /\ lines[n].indent \in Nat
      BY <1>1, <1>2, <2>2
    <3>2. CASE lines[n].word \in Headers
      BY <1>4, <1>5, <1>7, <3>1, <3>2
    <3>3. CASE lines[n].word \notin Headers
      BY <1>4, <1>5, <1>7, <3>1, <3>3
    <3> QED
      BY <3>2, <3>3
  <2> QED
    BY <1>1, <2>1, <2>2
<1>10. \A h, k \in 1 .. n : Deeper(lines, h, k) => Deeper(new, h, k)
  BY <1>1, <1>2 DEF Deeper
<1>11. Owned(new)
  <2> SUFFICES ASSUME NEW k \in 1 .. n + 1, new[k].word = "else"
               PROVE  \E h \in 1 .. k - 1 : /\ new[h].indent = new[k].indent
                                            /\ new[h].word \in {"if", "for", "while"}
                                            /\ Deeper(new, h, k - 1)
    BY <1>3 DEF Owned
  <2>1. k \in 1 .. n /\ new[k] = lines[k]
    BY <1>1, <1>2
  <2>2. PICK h \in 1 .. k - 1 : /\ lines[h].indent = lines[k].indent
                                /\ lines[h].word \in {"if", "for", "while"}
                                /\ Deeper(lines, h, k - 1)
    BY <1>1, <1>6, <2>1 DEF Owned
  <2>3. h \in 1 .. n /\ k - 1 \in 1 .. n
    BY <1>1, <2>1, <2>2
  <2> QED
    BY <1>2, <1>10, <2>1, <2>2, <2>3
<1>12. Opened(new, stack)
  <2> SUFFICES ASSUME NEW b \in DOMAIN stack
               PROVE  \E h \in 1 .. n + 1 : /\ new[h].indent + 1 = Base + b
                                            /\ Opener(new[h].word, stack[b].type)
                                            /\ Deeper(new, h, n + 1)
    BY <1>2, <1>3 DEF Opened
  <2>1. PICK h \in 1 .. n : /\ lines[h].indent + 1 = Base + b
                            /\ Opener(lines[h].word, stack[b].type)
                            /\ Deeper(lines, h, n)
    BY <1>1, <1>6 DEF Opened, n
  <2>2. h \in 1 .. n + 1 /\ new[h] = lines[h]
    BY <1>1, <1>2
  <2>3. Deeper(new, h, n + 1)
    <3>1. line.indent > lines[h].indent
      BY <1>1, <1>4, <1>5, <2>1
    <3>2. \A j \in h + 1 .. n + 1 : new[j].indent > lines[h].indent
      <4> SUFFICES ASSUME NEW j \in h + 1 .. n + 1
                   PROVE  new[j].indent > lines[h].indent
        OBVIOUS
      <4>1. CASE j = n + 1
        BY <1>2, <3>1, <4>1
      <4>2. CASE j # n + 1
        <5>1. j \in h + 1 .. n /\ j \in 1 .. n
          BY <1>1, <2>1, <4>2
        <5> QED
          BY <1>2, <2>1, <5>1 DEF Deeper
      <4> QED
        BY <4>1, <4>2
    <3> QED
      BY <2>2, <3>2 DEF Deeper
  <2> QED
    BY <2>1, <2>2, <2>3
<1>13. Looped(new)
  <2> SUFFICES ASSUME NEW k \in 1 .. n + 1, new[k].word \in {"break", "continue"}
               PROVE  \E h \in 1 .. k - 1 : new[h].word \in Loops /\ Deeper(new, h, k)
    BY <1>3 DEF Looped
  <2>1. CASE k = n + 1
    <3>1. PICK c \in DOMAIN stack : stack[c].type = "for"
      BY <1>2, <2>1
    <3>2. PICK h \in 1 .. n + 1 : /\ new[h].indent + 1 = Base + c
                                  /\ Opener(new[h].word, stack[c].type)
                                  /\ Deeper(new, h, n + 1)
      BY <1>2, <1>3, <1>12, <3>1 DEF Opened
    <3>3. new[h].word = "for"
      BY <3>1, <3>2 DEF Opener
    <3>4. h # n + 1
      BY <1>2, <2>1, <3>3
    <3> QED
      BY <1>1, <2>1, <3>2, <3>3, <3>4 DEF Loops
  <2>2. CASE k # n + 1
    <3>1. k \in 1 .. n /\ new[k] = lines[k]
      BY <1>1, <1>2, <2>2
    <3>2. PICK h \in 1 .. k - 1 : lines[h].word \in Loops /\ Deeper(lines, h, k)
      BY <1>1, <1>6, <3>1 DEF Looped
    <3>3. h \in 1 .. n
      BY <1>1, <3>1, <3>2
    <3> QED
      BY <1>2, <1>10, <3>1, <3>2, <3>3
  <2> QED
    BY <2>1, <2>2
<1>14. Len(new) = n + 1 /\ new[Len(new)] = line
  BY <1>2
<1> QED
  BY <1>2, <1>8, <1>9, <1>11, <1>12, <1>13, <1>14 DEF new, n

(* A line that is no header: the blocks stay as they are. *)
LEMMA AppendPlain ==
    ASSUME NEW p, NEW stack \in Seq(BlocksOf(p)), NEW lines \in Seq(Lines), Text(lines, stack),
           NEW line \in Lines, line.indent = Base + Len(stack), line.word \notin Headers,
           line.word \in {"break", "continue"} => \E c \in DOMAIN stack : stack[c].type = "for"
    PROVE  Text(Append(lines, line), stack) /\ ~BodyEmpty(Append(lines, line))
<1> DEFINE new == Append(lines, line)
<1>1. line.word # "else"
  BY DEF Headers
<1>2. /\ new \in Seq(Lines) /\ new[Len(new)] = line /\ Len(new) = Len(lines) + 1
      /\ Deep(new) /\ Stepped(new) /\ Owned(new) /\ Looped(new) /\ Opened(new, stack)
  BY <1>1, AppendKeeps
<1> HIDE DEF new
<1>3. line.indent >= Base + Len(stack)
  BY StackFacts, BaseAssumption
<1>4. Fits(new, Base + Len(stack))
  BY <1>2, <1>3, FitsAt
<1>5. ~BodyEmpty(new)
  BY <1>2, LinesFacts, Zenon DEF BodyEmpty
<1> QED
  BY <1>2, <1>4, <1>5 DEF Text, new

(* A header: the block it opens is the innermost. *)
LEMMA AppendHeader ==
    ASSUME NEW p, NEW stack \in Seq(BlocksOf(p)), NEW lines \in Seq(Lines), Text(lines, stack),
           NEW line \in Lines, line.indent = Base + Len(stack),
           line.word \in Headers, line.word # "else",
           NEW block \in BlocksOf(p), Opener(line.word, block.type)
    PROVE  Text(Append(lines, line), Append(stack, block))
<1> DEFINE new == Append(lines, line)
           more == Append(stack, block)
           n == Len(lines)
           d == Len(stack)
<1>1. line.word \notin {"break", "continue"}
  BY DEF Headers
<1>2. /\ new \in Seq(Lines) /\ Len(new) = n + 1 /\ new[Len(new)] = line
      /\ Deep(new) /\ Stepped(new) /\ Owned(new) /\ Looped(new) /\ Opened(new, stack)
  BY <1>1, AppendKeeps
<1>3. /\ more \in Seq(BlocksOf(p)) /\ Len(more) = d + 1 /\ more[d + 1] = block
      /\ \A b \in 1 .. d : more[b] = stack[b]
  BY AppendProperties
<1>4. d \in Nat /\ DOMAIN stack = 1 .. d /\ Base \in Nat \ {0} /\ n \in Nat
  BY StackFacts, BaseAssumption, LinesFacts
<1>5. DOMAIN more = 1 .. d + 1 /\ DOMAIN new = 1 .. n + 1
  BY <1>2, <1>3, <1>4, StackFacts, LinesFacts
<1>6. line.indent = Base + d
  OBVIOUS
<1> HIDE DEF new, more, n, d
<1>7. Fits(new, Base + Len(more))
  <2>1. line.indent + 1 = Base + Len(more)
    BY <1>3, <1>4, <1>6
  <2> QED
    BY <1>2, <2>1, FitsAt
<1>8. Opened(new, more)
  <2> SUFFICES ASSUME NEW b \in 1 .. d + 1
               PROVE  \E h \in DOMAIN new : /\ new[h].indent + 1 = Base + b
                                            /\ Opener(new[h].word, more[b].type)
                                            /\ Deeper(new, h, Len(new))
    BY <1>5 DEF Opened
  <2>1. CASE b \in 1 .. d
    BY <1>2, <1>3, <1>4, <2>1 DEF Opened
  <2>2. CASE b = d + 1
    <3>1. Deeper(new, n + 1, Len(new))
      BY <1>2, <1>4 DEF Deeper
    <3>2. n + 1 \in DOMAIN new /\ new[n + 1] = line /\ line.indent + 1 = Base + b
      BY <1>2, <1>4, <1>5, <1>6, <2>2
    <3> QED
      BY <1>3, <2>2, <3>1, <3>2
  <2> QED
    BY <1>4, <2>1, <2>2
<1> QED
  BY <1>2, <1>7, <1>8 DEF Text, new, more

(* The innermost blocks are closed: only after a line that is no header. *)
LEMMA CutKeeps ==
    ASSUME NEW p, NEW stack \in Seq(BlocksOf(p)), NEW lines \in Seq(Lines), Text(lines, stack),
           NEW m \in 0 .. Len(stack), m = Len(stack) \/ ~BodyEmpty(lines)
    PROVE  Text(lines, SubSeq(stack, 1, m))
<1> DEFINE outer == SubSeq(stack, 1, m)
           n == Len(lines)
<1>1. /\ Len(stack) \in Nat /\ DOMAIN stack = 1 .. Len(stack) /\ Base \in Nat \ {0} /\ m \in Nat
      /\ m <= Len(stack)
  BY StackFacts, BaseAssumption
<1>2. /\ outer \in Seq(BlocksOf(p)) /\ Len(outer) = m
      /\ \A b \in 1 .. m : outer[b] = stack[b]
  BY Prefix
<1>3. DOMAIN outer = 1 .. m
  BY <1>2, StackFacts
<1>4. n \in Nat /\ \A k \in 1 .. n : lines[k].indent \in Nat
  BY LinesFacts
<1> HIDE DEF outer, n
<1>5. Opened(lines, outer)
  <2> SUFFICES ASSUME NEW b \in 1 .. m
               PROVE  \E h \in DOMAIN lines : /\ lines[h].indent + 1 = Base + b
                                              /\ Opener(lines[h].word, outer[b].type)
                                              /\ Deeper(lines, h, Len(lines))
    BY <1>3 DEF Opened
  <2>1. b \in 1 .. Len(stack)
    <3>1. Len(stack) \in Nat /\ m \in Nat /\ m <= Len(stack)
      BY <1>1
    <3> QED
      BY <3>1
  <2>2. b \in DOMAIN stack /\ outer[b] = stack[b]
    BY <1>1, <1>2, <2>1
  <2> QED
    BY <2>2 DEF Text, Opened
<1>6. n # 0 => /\ lines[n].word \in Headers => lines[n].indent + 1 = Base + Len(stack)
               /\ lines[n].word \notin Headers => lines[n].indent >= Base + Len(stack)
  BY FitsAt DEF Text, n
<1>7. n # 0 => /\ lines[n].word \in Headers => lines[n].indent + 1 = Base + m
               /\ lines[n].word \notin Headers => lines[n].indent >= Base + m
  <2>1. CASE n # 0 /\ lines[n].word \in Headers
    <3>1. BodyEmpty(lines)
      BY <2>1, LinesFacts, Zenon DEF BodyEmpty, n
    <3> QED
      BY <1>6, <2>1, <3>1
  <2>2. CASE n # 0 /\ lines[n].word \notin Headers
    <3>1. lines[n].indent \in Nat /\ lines[n].indent >= Base + Len(stack)
      <4>1. n \in 1 .. n
        BY <1>4, <2>2
      <4> QED
        BY <1>4, <1>6, <2>2, <4>1
    <3>2. lines[n].indent >= Base + m
      BY <1>1, <3>1
    <3> QED
      BY <2>2, <3>2
  <2> QED
    BY <2>1, <2>2
<1>8. Fits(lines, Base + Len(outer))
  BY <1>2, <1>7, FitsAt DEF n
<1> QED
  BY <1>5, <1>8 DEF Text, outer

LEMMA WithBodyKeeps ==
    ASSUME NEW p, NEW stack \in Seq(BlocksOf(p)), NEW lines \in Seq(Lines), Text(lines, stack)
    PROVE  /\ Text(WithBody(lines, Base + Len(stack)), stack)
           /\ ~BodyEmpty(WithBody(lines, Base + Len(stack)))
<1> DEFINE line == Line(Base + Len(stack), "pass")
<1>1. Base + Len(stack) \in Nat
  BY StackFacts, BaseAssumption
<1>2. /\ line \in Lines /\ line.indent = Base + Len(stack)
      /\ line.word = "pass"
  BY <1>1, LineTypes DEF Words, Line
<1>3. line.word \notin Headers /\ line.word \notin {"break", "continue"}
  BY <1>2 DEF Headers
<1> HIDE DEF line
<1>4. Text(Append(lines, line), stack) /\ ~BodyEmpty(Append(lines, line))
  BY <1>2, <1>3, AppendPlain
<1> QED
  BY <1>4, Zenon DEF WithBody, line

(* The block m and those inside it make way for an `else`. *)
LEMMA AppendElse ==
    ASSUME NEW p, NEW stack \in Seq(BlocksOf(p)), NEW lines \in Seq(Lines), Text(lines, stack),
           ~BodyEmpty(lines),
           NEW m \in DOMAIN stack, stack[m].type # "else",
           NEW block \in BlocksOf(p), block.type = "else"
    PROVE  Text(Append(lines, Line(Base + m - 1, "else")),
                Append(SubSeq(stack, 1, m - 1), block))
<1> DEFINE line == Line(Base + m - 1, "else")
           new == Append(lines, line)
           outer == SubSeq(stack, 1, m - 1)
           more == Append(outer, block)
           n == Len(lines)
<1>1. /\ Len(stack) \in Nat /\ DOMAIN stack = 1 .. Len(stack) /\ Base \in Nat \ {0}
      /\ m \in Nat \ {0} /\ m <= Len(stack) /\ m - 1 \in 0 .. Len(stack) /\ Base + m - 1 \in Nat
      /\ stack[m].type \in BlockTypes
  BY StackFacts, BaseAssumption
<1>2. line \in Lines /\ line.word = "else" /\ line.indent = Base + m - 1
  BY <1>1, LineTypes DEF Words, Line
<1>3. /\ outer \in Seq(BlocksOf(p)) /\ Len(outer) = m - 1
      /\ \A b \in 1 .. m - 1 : outer[b] = stack[b]
  BY <1>1, Prefix
<1> HIDE DEF outer, line
<1>4. /\ more \in Seq(BlocksOf(p)) /\ Len(more) = m /\ more[m] = block
      /\ \A b \in 1 .. m - 1 : more[b] = stack[b]
  BY <1>1, <1>3, AppendProperties
<1>5. /\ n \in Nat /\ DOMAIN lines = 1 .. n
      /\ \A k \in 1 .. n : lines[k].indent \in Nat
  BY LinesFacts
<1>6. /\ new \in Seq(Lines) /\ Len(new) = n + 1 /\ new[n + 1] = line
      /\ \A k \in 1 .. n : new[k] = lines[k]
  BY <1>2, AppendProperties
<1>7. DOMAIN new = 1 .. n + 1 /\ DOMAIN more = 1 .. m
  BY <1>4, <1>6, LinesFacts, StackFacts
<1>8. /\ Deep(lines) /\ Stepped(lines) /\ Owned(lines) /\ Looped(lines)
      /\ Fits(lines, Base + Len(stack)) /\ Opened(lines, stack)
  BY Zenon DEF Text
<1>9. n # 0 => lines[n].word \notin Headers /\ lines[n].indent >= Base + Len(stack)
  <2>1. n # 0 => lines[n].word \notin Headers
    BY LinesFacts, Zenon DEF BodyEmpty
  <2> QED
    BY <1>8, <2>1, FitsAt
<1> HIDE DEF new, more, n
<1>10. \A h, k \in 1 .. n : Deeper(lines, h, k) => Deeper(new, h, k)
  BY <1>5, <1>6 DEF Deeper
<1>11. Deep(new)
  <2> SUFFICES ASSUME NEW k \in 1 .. n + 1
               PROVE  new[k].indent >= Base
    BY <1>7 DEF Deep
  <2>1. CASE k \in 1 .. n
    BY <1>5, <1>6, <1>8, <2>1 DEF Deep
  <2>2. CASE k = n + 1
    BY <1>1, <1>2, <1>6, <2>2
  <2> QED
    BY <1>5, <2>1, <2>2
<1>12. Stepped(new)
  <2> SUFFICES ASSUME NEW k \in 1 .. n
               PROVE  /\ new[k].word \in Headers => new[k + 1].indent = new[k].indent + 1
                      /\ new[k].word \notin Headers => new[k + 1].indent <= new[k].indent
    BY <1>5, <1>6 DEF Stepped
  <2>1. CASE k < n
    <3>1. k \in 1 .. n - 1 /\ k + 1 \in 1 .. n
      BY <1>5, <2>1
    <3> QED
      BY <1>6, <1>8, <3>1 DEF Stepped, n
  <2>2. CASE k = n
    <3>1. /\ new[k] = lines[n] /\ new[k + 1] = line /\ lines[n].indent \in Nat
          /\ lines[n].word \notin Headers /\ lines[n].indent >= Base + Len(stack)
      BY <1>5, <1>6, <1>9, <2>2
    <3>2. line.indent <= lines[n].indent
      BY <1>1, <1>2, <3>1
    <3> QED
      BY <3>1, <3>2
  <2> QED
    BY <1>5, <2>1, <2>2
<1>13. PICK o \in 1 .. n : /\ lines[o].indent + 1 = Base + m
                           /\ Opener(lines[o].word, stack[m].type)
                           /\ Deeper(lines, o, n)
  BY <1>5, <1>8 DEF Opened, n
<1>14. Owned(new)
  <2> SUFFICES ASSUME NEW k \in 1 .. n + 1, new[k].word = "else"
               PROVE  \E h \in 1 .. k - 1 : /\ new[h].indent = new[k].indent
                                            /\ new[h].word \in {"if", "for", "while"}
                                            /\ Deeper(new, h, k - 1)
    BY <1>7 DEF Owned
  <2>1. CASE k \in 1 .. n
    <3>1. new[k] = lines[k]
      BY <1>6, <2>1
    <3>2. PICK h \in 1 .. k - 1 : /\ lines[h].indent = lines[k].indent
                                  /\ lines[h].word \in {"if", "for", "while"}
                                  /\ Deeper(lines, h, k - 1)
      BY <1>5, <1>8, <2>1, <3>1 DEF Owned
    <3>3. h \in 1 .. n /\ k - 1 \in 1 .. n
      BY <1>5, <2>1, <3>2
    <3> QED
      BY <1>6, <1>10, <3>1, <3>2, <3>3
  <2>2. CASE k = n + 1
    <3>1. new[o] = lines[o] /\ new[k] = line /\ o \in 1 .. k - 1 /\ k - 1 = n
      BY <1>5, <1>6, <1>13, <2>2
    <3>2. new[o].indent = new[k].indent
      BY <1>1, <1>2, <1>5, <1>13, <3>1
    <3>3. new[o].word \in {"if", "for", "while"}
      BY <1>1, <1>13, <3>1 DEF Opener, BlockTypes
    <3>4. Deeper(new, o, k - 1)
      BY <1>5, <1>10, <1>13, <3>1
    <3> QED
      BY <3>1, <3>2, <3>3, <3>4
  <2> QED
    BY <1>5, <2>1, <2>2
<1>15. Looped(new)
  <2> SUFFICES ASSUME NEW k \in 1 .. n + 1, new[k].word \in {"break", "continue"}
               PROVE  \E h \in 1 .. k - 1 : new[h].word \in Loops /\ Deeper(new, h, k)
    BY <1>7 DEF Looped
  <2>1. k \in 1 .. n /\ new[k] = lines[k]
    BY <1>2, <1>5, <1>6
  <2>2. PICK h \in 1 .. k - 1 : lines[h].word \in Loops /\ Deeper(lines, h, k)
    BY <1>5, <1>8, <2>1 DEF Looped
  <2>3. h \in 1 .. n
    BY <1>5, <2>1, <2>2
  <2> QED
    BY <1>6, <1>10, <2>1, <2>2, <2>3
<1>16. Opened(new, more)
  <2> SUFFICES ASSUME NEW b \in 1 .. m
               PROVE  \E h \in 1 .. n + 1 : /\ new[h].indent + 1 = Base + b
                                            /\ Opener(new[h].word, more[b].type)
                                            /\ Deeper(new, h, n + 1)
    BY <1>6, <1>7 DEF Opened
  <2>1. CASE b = m
    <3>1. n + 1 \in 1 .. n + 1 /\ line.indent + 1 = Base + b
      BY <1>1, <1>2, <1>5, <2>1
    <3>2. Opener(line.word, more[b].type)
      BY <1>2, <1>4, <2>1 DEF Opener
    <3>3. Deeper(new, n + 1, n + 1)
      BY <1>5 DEF Deeper
    <3> QED
      BY <1>6, <3>1, <3>2, <3>3
  <2>2. CASE b # m
    <3>1. b \in 1 .. m - 1 /\ b \in DOMAIN stack /\ more[b] = stack[b]
      BY <1>1, <1>4, <2>2
    <3>2. PICK h \in 1 .. n : /\ lines[h].indent + 1 = Base + b
                              /\ Opener(lines[h].word, stack[b].type)
                              /\ Deeper(lines, h, n)
      BY <1>5, <1>8, <3>1 DEF Opened, n
    <3>3. h \in 1 .. n + 1 /\ new[h] = lines[h]
      BY <1>5, <1>6
    <3>4. \A j \in h + 1 .. n + 1 : new[j].indent > lines[h].indent
      <4> SUFFICES ASSUME NEW j \in h + 1 .. n + 1
                   PROVE  new[j].indent > lines[h].indent
        OBVIOUS
      <4>1. CASE j = n + 1
        BY <1>1, <1>2, <1>5, <1>6, <3>1, <3>2, <4>1, SMTT(30)
      <4>2. CASE j # n + 1
        <5>1. j \in h + 1 .. n /\ j \in 1 .. n
          BY <1>5, <3>2, <4>2
        <5> QED
          BY <1>6, <3>2, <5>1 DEF Deeper
      <4> QED
        BY <4>1, <4>2
    <3>5. Deeper(new, h, n + 1)
      BY <3>3, <3>4 DEF Deeper
    <3> QED
      BY <3>1, <3>2, <3>3, <3>5
  <2> QED
    BY <2>1, <2>2
<1>17. Fits(new, Base + Len(more))
  <2>1. Len(new) = n + 1 /\ new[Len(new)] = line
    BY <1>6
  <2>2. line.word \in Headers
    BY <1>2 DEF Headers
  <2>3. line.indent + 1 = Base + Len(more)
    BY <1>1, <1>2, <1>4
  <2> QED
    BY <1>6, <2>1, <2>2, <2>3, FitsAt
<1> QED
  BY <1>11, <1>12, <1>14, <1>15, <1>16, <1>17 DEF Text, new, more, outer, line

(* Nothing is between the last line and an `else` that is written after it. *)
LEMMA WriteAppends ==
    ASSUME NEW lines, ~BodyEmpty(lines), NEW n
    PROVE  Write(lines, Line(n, "else")) = Append(lines, Line(n, "else"))
<1>1. ~(lines # << >> /\ Last(lines).word \in {"if", "else"})
  BY DEF BodyEmpty, Headers
<1> QED
  BY <1>1, Zenon DEF Write

(* An `if` that becomes a `while`, in the text or on the stack, changes     *)
(* nothing; no more does another condition in the last line.                *)
LEMMA Reworded ==
    ASSUME NEW p, NEW stack \in Seq(BlocksOf(p)), NEW lines \in Seq(Lines), Text(lines, stack),
           NEW stack2 \in Seq(BlocksOf(p)), Len(stack2) = Len(stack),
           \A b \in DOMAIN stack : \/ stack2[b].type = stack[b].type
                                   \/ stack[b].type = "if" /\ stack2[b].type = "while",
           NEW lines2 \in Seq(Lines), Len(lines2) = Len(lines),
           \A k \in DOMAIN lines : /\ lines2[k].indent = lines[k].indent
                                   /\ \/ lines2[k].word = lines[k].word
                                      \/ lines[k].word = "if" /\ lines2[k].word = "while"
    PROVE  Text(lines2, stack2)
<1> DEFINE n == Len(lines)
<1>1. /\ n \in Nat /\ DOMAIN lines = 1 .. n /\ DOMAIN lines2 = 1 .. n
      /\ \A k \in 1 .. n : lines[k].indent \in Nat
  BY LinesFacts
<1>2. Len(stack) \in Nat /\ DOMAIN stack = 1 .. Len(stack) /\ DOMAIN stack2 = DOMAIN stack
  BY StackFacts
<1>3. /\ Deep(lines) /\ Stepped(lines) /\ Owned(lines) /\ Looped(lines)
      /\ Fits(lines, Base + Len(stack)) /\ Opened(lines, stack)
  BY Zenon DEF Text
<1>4. \A k \in 1 .. n :
         /\ lines2[k].indent = lines[k].indent
         /\ lines2[k].word \in Headers <=> lines[k].word \in Headers
         /\ lines2[k].word = "else" <=> lines[k].word = "else"
         /\ lines2[k].word \in {"break", "continue"} <=> lines[k].word \in {"break", "continue"}
         /\ lines[k].word \in {"if", "for", "while"} => lines2[k].word \in {"if", "for", "while"}
         /\ lines[k].word \in Loops => lines2[k].word \in Loops
         /\ \A type \in {"if", "while", "for", "else"} :
               Opener(lines[k].word, type) => Opener(lines2[k].word, type)
  BY <1>1 DEF Headers, Loops, Opener
<1> HIDE DEF n
<1>5. \A h \in 1 .. n, k \in 0 .. n : Deeper(lines, h, k) => Deeper(lines2, h, k)
  BY <1>1, <1>4 DEF Deeper
<1>6. Deep(lines2)
  BY <1>1, <1>3, <1>4 DEF Deep
<1>7. Stepped(lines2)
  <2> SUFFICES ASSUME NEW k \in 1 .. n - 1
               PROVE  /\ lines2[k].word \in Headers => lines2[k + 1].indent = lines2[k].indent + 1
                      /\ lines2[k].word \notin Headers => lines2[k + 1].indent <= lines2[k].indent
    BY DEF Stepped, n
  <2>1. k \in 1 .. n /\ k + 1 \in 1 .. n
    BY <1>1
  <2> QED
    BY <1>3, <1>4, <2>1 DEF Stepped, n
<1>8. Owned(lines2)
  <2> SUFFICES ASSUME NEW k \in 1 .. n, lines2[k].word = "else"
               PROVE  \E h \in 1 .. k - 1 : /\ lines2[h].indent = lines2[k].indent
                                            /\ lines2[h].word \in {"if", "for", "while"}
                                            /\ Deeper(lines2, h, k - 1)
    BY <1>1 DEF Owned
  <2>1. PICK h \in 1 .. k - 1 : /\ lines[h].indent = lines[k].indent
                                /\ lines[h].word \in {"if", "for", "while"}
                                /\ Deeper(lines, h, k - 1)
    BY <1>1, <1>3, <1>4 DEF Owned
  <2>2. h \in 1 .. n /\ k - 1 \in 0 .. n
    BY <1>1
  <2> QED
    BY <1>4, <1>5, <2>1, <2>2
<1>9. Looped(lines2)
  <2> SUFFICES ASSUME NEW k \in 1 .. n, lines2[k].word \in {"break", "continue"}
               PROVE  \E h \in 1 .. k - 1 : lines2[h].word \in Loops /\ Deeper(lines2, h, k)
    BY <1>1 DEF Looped
  <2>1. PICK h \in 1 .. k - 1 : lines[h].word \in Loops /\ Deeper(lines, h, k)
    BY <1>1, <1>3, <1>4 DEF Looped
  <2>2. h \in 1 .. n /\ k \in 0 .. n
    BY <1>1
  <2> QED
    BY <1>4, <1>5, <2>1, <2>2
<1>10. Opened(lines2, stack2)
  <2> SUFFICES ASSUME NEW b \in DOMAIN stack
               PROVE  \E h \in 1 .. n : /\ lines2[h].indent + 1 = Base + b
                                        /\ Opener(lines2[h].word, stack2[b].type)
                                        /\ Deeper(lines2, h, n)
    BY <1>1, <1>2 DEF Opened, n
  <2>1. PICK h \in 1 .. n : /\ lines[h].indent + 1 = Base + b
                            /\ Opener(lines[h].word, stack[b].type)
                            /\ Deeper(lines, h, n)
    BY <1>1, <1>3 DEF Opened, n
  <2>2. stack[b].type \in {"if", "while", "for", "else"}
    BY StackFacts DEF BlockTypes
  <2>3. Opener(lines[h].word, stack2[b].type) /\ stack2[b].type \in {"if", "while", "for", "else"}
    BY <2>1, <2>2 DEF Opener
  <2>4. n \in 0 .. n
    BY <1>1
  <2> QED
    BY <1>4, <1>5, <2>1, <2>3, <2>4
<1>11. Fits(lines2, Base + Len(stack2))
  <2>1. n # 0 => /\ lines[n].word \in Headers => lines[n].indent + 1 = Base + Len(stack)
                 /\ lines[n].word \notin Headers => lines[n].indent >= Base + Len(stack)
    BY <1>3, FitsAt DEF n
  <2>2. n # 0 => n \in 1 .. n
    BY <1>1
  <2>3. n # 0 => /\ lines2[n].word \in Headers => lines2[n].indent + 1 = Base + Len(stack2)
                 /\ lines2[n].word \notin Headers => lines2[n].indent >= Base + Len(stack2)
    BY <1>4, <2>1, <2>2
  <2> QED
    BY <2>3, FitsAt DEF n
<1> QED
  BY <1>6, <1>7, <1>8, <1>9, <1>10, <1>11 DEF Text

-----------------------------------------------------------------------------
(* The open blocks and the jumps of the code. *)

LEMMA JumpFacts ==
    ASSUME IInv
    PROVE  /\ Len(code) \in Nat /\ DOMAIN code = 1 .. Len(code) /\ pc \in 1 .. Len(code) + 1
           /\ \A i \in DOMAIN code :
                 /\ HasTarget(code[i]) => code[i].target \in DOMAIN code
                 /\ IsBackward(code[i]) =>
                       /\ code[i].target \in DOMAIN code /\ code[i].target < i
                       /\ code[code[i].target].op = "FOR_ITER" /\ i < code[code[i].target].target
                 /\ code[i].op = "FOR_ITER" => code[i].target \in DOMAIN code /\ i < code[i].target
           /\ \A b \in DOMAIN blocks : blocks[b].end \in DOMAIN code /\ blocks[b].type \in BlockTypes
<1>1. prog \in Programs /\ DOMAIN code = 1 .. Len(code) /\ Len(code) \in Nat
  BY StateFacts
<1>2. IsCode(code)
  BY <1>1, ProgramsAssumption DEF code
<1>3. pc \in 1 .. Len(code) + 1
  BY DEF IInv, TypeOK
<1>4. \A b \in DOMAIN blocks : blocks[b].end \in DOMAIN code /\ blocks[b].type \in BlockTypes
  BY StateFacts DEF BlocksOf, code
<1>5. \A i \in DOMAIN code :
         /\ HasTarget(code[i]) => code[i].target \in DOMAIN code
         /\ IsBackward(code[i]) =>
               /\ code[i].target < i
               /\ code[code[i].target].op = "FOR_ITER" /\ i < code[code[i].target].target
         /\ HasTarget(code[i]) /\ ~IsBackward(code[i]) => code[i].target > i
  BY <1>2, Zenon DEF IsCode
<1>6. \A i \in DOMAIN code :
         /\ IsBackward(code[i]) => HasTarget(code[i])
         /\ code[i].op = "FOR_ITER" => HasTarget(code[i]) /\ ~IsBackward(code[i])
  BY DEF IsBackward, HasTarget, IsJump, UnconditionalJumps
<1>7. \A i \in DOMAIN code : code[i].op = "FOR_ITER" => i < code[i].target
  <2> SUFFICES ASSUME NEW i \in DOMAIN code, code[i].op = "FOR_ITER" PROVE i < code[i].target
    OBVIOUS
  <2>1. code[i].target > i /\ code[i].target \in 1 .. Len(code)
    BY <1>1, <1>5, <1>6
  <2> QED
    BY <1>1, <2>1
<1> QED
  BY <1>1, <1>3, <1>4, <1>5, <1>6, <1>7

(* Blocks are closed, and `else` blocks opened in their place; no loop is   *)
(* closed before its end, and no head of a loop is passed.                  *)
LEMMA ControlKept ==
    ASSUME IInv, IInv', Control, prog' = prog, pc' >= pc,
           \A i \in DOMAIN code : pc <= i /\ i < pc' => code[i].op # "FOR_ITER",
           NEW m \in 0 .. Len(blocks), m <= Len(blocks'),
           \A b \in 1 .. m : blocks'[b] = blocks[b],
           \A b \in m + 1 .. Len(blocks') : blocks'[b].type = "else",
           \A b \in m + 1 .. Len(blocks) :
               blocks[b].type = "for" => blocks[b].end <= pc' \/ pc' = Len(code) + 1
    PROVE  Control'
<1>1. /\ Len(code) \in Nat /\ DOMAIN code = 1 .. Len(code) /\ pc \in 1 .. Len(code) + 1
      /\ \A b \in DOMAIN blocks : blocks[b].end \in DOMAIN code
      /\ \A i \in DOMAIN code : code[i].op = "FOR_ITER" => code[i].target \in DOMAIN code
  BY JumpFacts
<1>2. /\ DOMAIN blocks = 1 .. Len(blocks) /\ Len(blocks) \in Nat /\ m \in Nat /\ m <= Len(blocks)
      /\ DOMAIN blocks' = 1 .. Len(blocks') /\ Len(blocks') \in Nat
  <2>1. blocks' \in Seq([end : DOMAIN code', type : BlockTypes])
    BY DEF IInv, TypeOK
  <2> QED
    BY <2>1, StateFacts, LenProperties
<1>3. code' = code
  BY DEF code
<1>4. pc' \in 1 .. Len(code) + 1
  BY <1>3 DEF IInv, TypeOK
<1>5. ForHeads' = ForHeads
  <2>1. \A h \in DOMAIN code : code[h].op = "FOR_ITER" => (h < pc' <=> h < pc)
    BY <1>1, <1>4
  <2> QED
    BY <1>3, <2>1 DEF ForHeads
<1>6. \A type \in {"if", "for", "while"} :
         OfType({type})' = {b \in OfType({type}) : b <= m}
  <2> SUFFICES ASSUME NEW type \in {"if", "for", "while"}
               PROVE  OfType({type})' = {b \in OfType({type}) : b <= m}
    OBVIOUS
  <2>1. \A b : b \in OfType({type})' <=> b \in 1 .. Len(blocks') /\ blocks'[b].type = type
    BY <1>2 DEF OfType
  <2>2. \A b : b \in OfType({type}) <=> b \in 1 .. Len(blocks) /\ blocks[b].type = type
    BY <1>2 DEF OfType
  <2>3. \A b \in 1 .. Len(blocks') : b <= m \/ blocks'[b].type # type
    BY <1>2
  <2>4. \A b \in 1 .. m : b \in 1 .. Len(blocks) /\ b \in 1 .. Len(blocks')
    BY <1>2
  <2>5. \A b \in Nat \ {0} : b <= m <=> b \in 1 .. m
    BY <1>2
  <2>6. \A b \in Nat \ {0} : b \in OfType({type})' <=> b \in OfType({type}) /\ b <= m
    BY <1>2, <2>1, <2>2, <2>3, <2>4, <2>5
  <2>7. OfType({type})' \subseteq Nat \ {0} /\ OfType({type}) \subseteq Nat \ {0}
    <3>1. OfType({type})' \subseteq 1 .. Len(blocks') /\ OfType({type}) \subseteq 1 .. Len(blocks)
      BY <2>1, <2>2, Zenon
    <3>2. \A n \in Nat : 1 .. n \subseteq Nat \ {0}
      OBVIOUS
    <3>3. Len(blocks) \in Nat /\ Len(blocks') \in Nat
      BY <1>2
    <3> QED
      BY <3>1, <3>2, <3>3, Zenon
  <2> QED
    BY <2>6, <2>7
<1>7. \A type \in {"if", "for", "while"} : \A b \in OfType({type})' :
         b \in OfType({type}) /\ b \in 1 .. m /\ blocks'[b] = blocks[b]
  BY <1>2, <1>6 DEF OfType
<1>8. LoopsAreOpen'
  <2> SUFFICES ASSUME NEW h \in ForHeads, pc' < code[h].target
               PROVE  \E b \in DOMAIN blocks' : blocks'[b] = Block(code[h].target, "for")
    BY <1>3, <1>5 DEF LoopsAreOpen
  <2>1. h \in DOMAIN code /\ code[h].target \in 1 .. Len(code)
    BY <1>1 DEF ForHeads
  <2>2. pc < code[h].target
    BY <1>1, <1>4, <2>1
  <2>3. PICK b \in DOMAIN blocks : blocks[b] = Block(code[h].target, "for")
    BY <2>2 DEF Control, LoopsAreOpen
  <2>4. blocks[b].type = "for" /\ blocks[b].end = code[h].target
    BY <2>3 DEF Block
  <2>5. b \in 1 .. m
    BY <1>1, <1>2, <1>4, <2>1, <2>4
  <2>6. b \in DOMAIN blocks'
    BY <1>2, <2>5
  <2> QED
    BY <2>3, <2>5, <2>6
<1>9. IfsAreTests'
  <2> SUFFICES ASSUME NEW b \in OfType({"if"})'
               PROVE  \E j \in DOMAIN code :
                         j < pc' /\ code[j].op \in ConditionalJumps /\ code[j].target = blocks'[b].end
    BY <1>3 DEF IfsAreTests
  <2>1. b \in OfType({"if"}) /\ blocks'[b] = blocks[b]
    BY <1>7
  <2>2. PICK j \in DOMAIN code :
           j < pc /\ code[j].op \in ConditionalJumps /\ code[j].target = blocks[b].end
    BY <2>1 DEF Control, IfsAreTests
  <2>3. j < pc'
    BY <1>1, <1>4, <2>2
  <2> QED
    BY <2>1, <2>2, <2>3
<1>10. LoopsAreEntered'
  <2> SUFFICES ASSUME NEW b \in OfType({"if"})', NEW c \in OfType({"for"})', b < c
               PROVE  \E h \in ForHeads :
                         /\ code[h].target = blocks'[c].end
                         /\ blocks'[b].end <= h \/ blocks'[c].end <= blocks'[b].end
    BY <1>3, <1>5 DEF LoopsAreEntered
  <2>1. /\ b \in OfType({"if"}) /\ blocks'[b] = blocks[b]
        /\ c \in OfType({"for"}) /\ blocks'[c] = blocks[c]
    BY <1>7
  <2> QED
    BY <2>1 DEF Control, LoopsAreEntered
<1>11. WhilesAreInLoops'
  <2> SUFFICES ASSUME NEW b \in OfType({"while"})'
               PROVE  \E c \in OfType({"for"})' : c < b
    BY DEF WhilesAreInLoops
  <2>1. b \in OfType({"while"}) /\ b \in 1 .. m
    BY <1>7
  <2>2. PICK c \in OfType({"for"}) : c < b
    BY <2>1 DEF Control, WhilesAreInLoops
  <2>3. c \in 1 .. Len(blocks)
    BY <1>2, <2>2 DEF OfType
  <2>4. c <= m
    BY <1>2, <2>1, <2>2, <2>3
  <2> QED
    BY <1>6, <2>2, <2>4
<1> QED
  BY <1>8, <1>9, <1>10, <1>11 DEF Control

LEMMA OpenForControl ==
    ASSUME IInv, IInv', Control, LoopsEnteredAtHeads, OpenFor
    PROVE  Control'
<1>1. /\ Len(code) \in Nat /\ DOMAIN code = 1 .. Len(code) /\ pc \in 1 .. Len(code) + 1
      /\ \A b \in DOMAIN blocks : blocks[b].end \in DOMAIN code
      /\ \A i \in DOMAIN code : code[i].op = "FOR_ITER" => code[i].target \in DOMAIN code
  BY JumpFacts
<1> DEFINE d == Len(blocks)
           end == code[pc].target
<1>2. /\ prog' = prog /\ pc' = pc + 1 /\ code[pc].op = "FOR_ITER" /\ pc \in DOMAIN code
      /\ blocks' = Append(blocks, Block(end, "for"))
  BY HandledInstruction DEF OpenFor, Next_pc, Instr, code
<1>3. code' = code /\ end \in 1 .. Len(code)
  BY <1>1, <1>2 DEF code
<1>4. /\ DOMAIN blocks = 1 .. d /\ d \in Nat
      /\ DOMAIN blocks' = 1 .. d + 1
      /\ \A b \in 1 .. d : blocks'[b] = blocks[b]
      /\ blocks'[d + 1] = Block(end, "for")
  <2>1. Block(end, "for") \in BlocksOf(prog)
    BY <1>1, <1>3 DEF Block, BlocksOf, BlockTypes, code
  <2>2. blocks \in Seq(BlocksOf(prog))
    BY StateFacts
  <2>3. /\ blocks' \in Seq(BlocksOf(prog)) /\ Len(blocks') = d + 1
        /\ \A b \in 1 .. d : blocks'[b] = blocks[b]
        /\ blocks'[d + 1] = Block(end, "for")
    BY <1>2, <2>1, <2>2, AppendProperties
  <2> QED
    BY <2>2, <2>3, StackFacts
<1> HIDE DEF d, end
<1>5. Block(end, "for").type = "for" /\ Block(end, "for").end = end
  BY DEF Block
<1>6. ForHeads' = ForHeads \cup {pc}
  BY <1>1, <1>2, <1>3 DEF ForHeads
<1>7. /\ OfType({"if"})' = OfType({"if"}) /\ OfType({"while"})' = OfType({"while"})
      /\ OfType({"for"})' = OfType({"for"}) \cup {d + 1}
  BY <1>4, <1>5 DEF OfType
<1>8. \A types : \A b \in OfType(types) : b \in 1 .. d /\ blocks'[b] = blocks[b]
  BY <1>4 DEF OfType
<1>9. LoopsAreOpen'
  <2> SUFFICES ASSUME NEW h \in ForHeads \cup {pc}, pc' < code[h].target
               PROVE  \E b \in DOMAIN blocks' : blocks'[b] = Block(code[h].target, "for")
    BY <1>3, <1>6 DEF LoopsAreOpen
  <2>1. CASE h = pc
    BY <1>4, <2>1 DEF end
  <2>2. CASE h \in ForHeads
    <3>1. h \in DOMAIN code /\ code[h].target \in 1 .. Len(code)
      BY <1>1, <2>2 DEF ForHeads
    <3>2. pc < code[h].target
      BY <1>1, <1>2, <3>1
    <3>3. PICK b \in DOMAIN blocks : blocks[b] = Block(code[h].target, "for")
      BY <2>2, <3>2 DEF Control, LoopsAreOpen
    <3>4. b \in DOMAIN blocks' /\ blocks'[b] = blocks[b]
      BY <1>4
    <3> QED
      BY <3>3, <3>4
  <2> QED
    BY <2>1, <2>2
<1>10. IfsAreTests'
  <2> SUFFICES ASSUME NEW b \in OfType({"if"})
               PROVE  \E j \in DOMAIN code :
                         j < pc' /\ code[j].op \in ConditionalJumps /\ code[j].target = blocks'[b].end
    BY <1>3, <1>7 DEF IfsAreTests
  <2>1. PICK j \in DOMAIN code :
           j < pc /\ code[j].op \in ConditionalJumps /\ code[j].target = blocks[b].end
    BY DEF Control, IfsAreTests
  <2>2. j < pc'
    BY <1>1, <1>2, <2>1
  <2> QED
    BY <1>8, <2>1, <2>2
<1>11. LoopsAreEntered'
  <2> SUFFICES ASSUME NEW b \in OfType({"if"}), NEW c \in OfType({"for"}) \cup {d + 1}, b < c
               PROVE  \E h \in ForHeads \cup {pc} :
                         /\ code[h].target = blocks'[c].end
                         /\ blocks'[b].end <= h \/ blocks'[c].end <= blocks'[b].end
    BY <1>3, <1>6, <1>7 DEF LoopsAreEntered
  <2>1. b \in DOMAIN blocks /\ blocks'[b] = blocks[b]
    BY <1>4, <1>8
  <2>2. CASE c \in OfType({"for"})
    <3>1. blocks'[c] = blocks[c]
      BY <1>8, <2>2
    <3> QED
      BY <2>1, <2>2, <3>1 DEF Control, LoopsAreEntered
  <2>3. CASE c = d + 1
    <3>1. PICK j \in DOMAIN code :
             j < pc /\ code[j].op \in ConditionalJumps /\ code[j].target = blocks[b].end
      BY DEF Control, IfsAreTests
    <3>2. HasTarget(code[j])
      BY <3>1 DEF HasTarget, IsJump
    <3>3. ~(pc < code[j].target /\ code[j].target < end)
      BY <1>2, <3>1, <3>2 DEF LoopsEnteredAtHeads, end
    <3>4. blocks[b].end \in 1 .. Len(code)
      BY <1>1, <2>1
    <3>5. blocks[b].end <= pc \/ end <= blocks[b].end
      BY <1>1, <1>3, <3>1, <3>3, <3>4
    <3>6. blocks'[c].end = end /\ code[pc].target = end
      BY <1>4, <1>5, <2>3 DEF end
    <3> QED
      BY <2>1, <3>5, <3>6
  <2> QED
    BY <2>2, <2>3
<1>12. WhilesAreInLoops'
  BY <1>7 DEF Control, WhilesAreInLoops
<1> QED
  BY <1>9, <1>10, <1>11, <1>12 DEF Control

LEMMA OpenIfControl ==
    ASSUME IInv, IInv', Control, OpenIf
    PROVE  Control'
<1>1. /\ Len(code) \in Nat /\ DOMAIN code = 1 .. Len(code) /\ pc \in 1 .. Len(code) + 1
      /\ \A b \in DOMAIN blocks : blocks[b].end \in DOMAIN code
      /\ \A i \in DOMAIN code : code[i].op = "FOR_ITER" => code[i].target \in DOMAIN code
  BY JumpFacts
<1> DEFINE d == Len(blocks)
           end == code[pc].target
<1>2. /\ prog' = prog /\ pc' = pc + 1 /\ code[pc].op \in ConditionalJumps /\ pc \in DOMAIN code
      /\ blocks' = Append(blocks, Block(end, "if"))
      /\ end \in DOMAIN prog.code
  BY HandledInstruction, TestIsNoStatement DEF OpenIf, Next_pc, Instr, code
<1>3. code' = code
  BY <1>2 DEF code
<1>4. /\ DOMAIN blocks = 1 .. d /\ d \in Nat
      /\ DOMAIN blocks' = 1 .. d + 1
      /\ \A b \in 1 .. d : blocks'[b] = blocks[b]
      /\ blocks'[d + 1] = Block(end, "if")
  <2>1. Block(end, "if") \in BlocksOf(prog)
    BY <1>2 DEF Block, BlocksOf, BlockTypes
  <2>2. blocks \in Seq(BlocksOf(prog))
    BY StateFacts
  <2>3. /\ blocks' \in Seq(BlocksOf(prog)) /\ Len(blocks') = d + 1
        /\ \A b \in 1 .. d : blocks'[b] = blocks[b]
        /\ blocks'[d + 1] = Block(end, "if")
    BY <1>2, <2>1, <2>2, AppendProperties
  <2> QED
    BY <2>2, <2>3, StackFacts
<1> HIDE DEF d, end
<1>5. Block(end, "if").type = "if" /\ Block(end, "if").end = end
  BY DEF Block
<1>6. ForHeads' = ForHeads
  <2>1. code[pc].op # "FOR_ITER"
    BY <1>2 DEF ConditionalJumps
  <2>2. \A h \in DOMAIN code : h < pc' <=> h < pc \/ h = pc
    BY <1>1, <1>2
  <2> QED
    BY <1>3, <2>1, <2>2 DEF ForHeads
<1>7. /\ OfType({"if"})' = OfType({"if"}) \cup {d + 1}
      /\ OfType({"while"})' = OfType({"while"}) /\ OfType({"for"})' = OfType({"for"})
  BY <1>4, <1>5 DEF OfType
<1>8. \A types : \A b \in OfType(types) : b \in 1 .. d /\ blocks'[b] = blocks[b]
  BY <1>4 DEF OfType
<1>9. LoopsAreOpen'
  <2> SUFFICES ASSUME NEW h \in ForHeads, pc' < code[h].target
               PROVE  \E b \in DOMAIN blocks' : blocks'[b] = Block(code[h].target, "for")
    BY <1>3, <1>6 DEF LoopsAreOpen
  <2>1. h \in DOMAIN code /\ code[h].target \in 1 .. Len(code)
    BY <1>1 DEF ForHeads
  <2>2. pc < code[h].target
    BY <1>1, <1>2, <2>1
  <2>3. PICK b \in DOMAIN blocks : blocks[b] = Block(code[h].target, "for")
    BY <2>2 DEF Control, LoopsAreOpen
  <2>4. b \in DOMAIN blocks' /\ blocks'[b] = blocks[b]
    BY <1>4
  <2> QED
    BY <2>3, <2>4
<1>10. IfsAreTests'
  <2> SUFFICES ASSUME NEW b \in OfType({"if"}) \cup {d + 1}
               PROVE  \E j \in DOMAIN code :
                         j < pc' /\ code[j].op \in ConditionalJumps /\ code[j].target = blocks'[b].end
    BY <1>3, <1>7 DEF IfsAreTests
  <2>1. CASE b = d + 1
    <3>1. pc < pc' /\ blocks'[b].end = code[pc].target
      BY <1>1, <1>2, <1>4, <1>5, <2>1 DEF end
    <3> QED
      BY <1>2, <3>1
  <2>2. CASE b \in OfType({"if"})
    <3>1. PICK j \in DOMAIN code :
             j < pc /\ code[j].op \in ConditionalJumps /\ code[j].target = blocks[b].end
      BY <2>2 DEF Control, IfsAreTests
    <3>2. j < pc'
      BY <1>1, <1>2, <3>1
    <3> QED
      BY <1>8, <2>2, <3>1, <3>2
  <2> QED
    BY <2>1, <2>2
<1>11. LoopsAreEntered'
  <2> SUFFICES ASSUME NEW b \in OfType({"if"}) \cup {d + 1}, NEW c \in OfType({"for"}), b < c
               PROVE  \E h \in ForHeads :
                         /\ code[h].target = blocks'[c].end
                         /\ blocks'[b].end <= h \/ blocks'[c].end <= blocks'[b].end
    BY <1>3, <1>6, <1>7 DEF LoopsAreEntered
  <2>1. b \in OfType({"if"})
    BY <1>4, <1>8
  <2>2. blocks'[b] = blocks[b] /\ blocks'[c] = blocks[c]
    BY <1>8, <2>1
  <2> QED
    BY <2>1, <2>2 DEF Control, LoopsAreEntered
<1>12. WhilesAreInLoops'
  BY <1>7 DEF Control, WhilesAreInLoops
<1> QED
  BY <1>9, <1>10, <1>11, <1>12 DEF Control

(* The `if` that ends at a jump back to a loop's head is inside the loop. *)
LEMMA RewriteControl ==
    ASSUME IInv, IInv', Control, RewriteIfAsWhile
    PROVE  Control'
<1>1. /\ Len(code) \in Nat /\ DOMAIN code = 1 .. Len(code) /\ pc \in 1 .. Len(code) + 1
      /\ \A b \in DOMAIN blocks : blocks[b].end \in DOMAIN code
      /\ \A i \in DOMAIN code : code[i].op = "FOR_ITER" => code[i].target \in DOMAIN code
  BY JumpFacts
<1>2. PICK b \in OpenIfs : /\ blocks[b].end = pc
                           /\ blocks' = [blocks EXCEPT ![b].type = "while"]
  BY DEF RewriteIfAsWhile
<1>3. /\ prog' = prog /\ pc' = pc + 1 /\ pc \in DOMAIN code /\ code[pc].op = "JUMP_BACKWARD"
  BY HandledInstruction DEF RewriteIfAsWhile, Next_pc, Instr, code
<1>4. code' = code
  BY <1>3 DEF code
<1>5. b \in OfType({"if"})
  BY <1>2 DEF OpenIfs
<1>6. /\ DOMAIN blocks = 1 .. Len(blocks) /\ DOMAIN blocks' = DOMAIN blocks /\ Len(blocks) \in Nat
      /\ \A c \in DOMAIN blocks : blocks'[c].end = blocks[c].end
      /\ \A c \in DOMAIN blocks \ {b} : blocks'[c] = blocks[c]
      /\ blocks'[b].type = "while" /\ blocks[b].type = "if" /\ b \in DOMAIN blocks
  <2>1. b \in DOMAIN blocks /\ blocks[b].type = "if"
    BY <1>5 DEF OfType
  <2>2. /\ blocks \in Seq(BlocksOf(prog)) /\ DOMAIN blocks = 1 .. Len(blocks) /\ Len(blocks) \in Nat
        /\ \A c \in DOMAIN blocks : blocks[c] \in BlocksOf(prog)
    BY StateFacts
  <2>3. /\ DOMAIN blocks' = DOMAIN blocks
        /\ blocks'[b] = [blocks[b] EXCEPT !.type = "while"]
        /\ \A c \in DOMAIN blocks \ {b} : blocks'[c] = blocks[c]
    BY <1>2, <2>1
  <2>4. blocks'[b].type = "while" /\ blocks'[b].end = blocks[b].end
    BY <2>1, <2>2, <2>3 DEF BlocksOf
  <2> QED
    BY <2>1, <2>2, <2>3, <2>4
<1>7. ForHeads' = ForHeads
  <2>1. code[pc].op # "FOR_ITER"
    BY <1>3
  <2>2. \A h \in DOMAIN code : h < pc' <=> h < pc \/ h = pc
    BY <1>1, <1>3
  <2> QED
    BY <1>4, <2>1, <2>2 DEF ForHeads
<1>8. /\ OfType({"if"})' = OfType({"if"}) \ {b}
      /\ OfType({"while"})' = OfType({"while"}) \cup {b} /\ OfType({"for"})' = OfType({"for"})
  BY <1>6 DEF OfType
<1>9. \A types : OfType(types) \subseteq DOMAIN blocks
  BY DEF OfType
<1>10. LoopsAreOpen'
  <2> SUFFICES ASSUME NEW h \in ForHeads, pc' < code[h].target
               PROVE  \E c \in DOMAIN blocks' : blocks'[c] = Block(code[h].target, "for")
    BY <1>4, <1>7 DEF LoopsAreOpen
  <2>1. h \in DOMAIN code /\ code[h].target \in 1 .. Len(code)
    BY <1>1 DEF ForHeads
  <2>2. pc < code[h].target
    BY <1>1, <1>3, <2>1
  <2>3. PICK c \in DOMAIN blocks : blocks[c] = Block(code[h].target, "for")
    BY <2>2 DEF Control, LoopsAreOpen
  <2>4. c # b
    BY <1>6, <2>3 DEF Block
  <2> QED
    BY <1>6, <2>3, <2>4
<1>11. IfsAreTests'
  <2> SUFFICES ASSUME NEW c \in OfType({"if"})
               PROVE  \E j \in DOMAIN code :
                         j < pc' /\ code[j].op \in ConditionalJumps /\ code[j].target = blocks'[c].end
    BY <1>4, <1>8 DEF IfsAreTests
  <2>1. PICK j \in DOMAIN code :
           j < pc /\ code[j].op \in ConditionalJumps /\ code[j].target = blocks[c].end
    BY DEF Control, IfsAreTests
  <2>2. j < pc'
    BY <1>1, <1>3, <2>1
  <2> QED
    BY <1>6, <1>9, <2>1, <2>2
<1>12. LoopsAreEntered'
  <2> SUFFICES ASSUME NEW a \in OfType({"if"}), NEW c \in OfType({"for"}), a < c
               PROVE  \E h \in ForHeads :
                         /\ code[h].target = blocks'[c].end
                         /\ blocks'[a].end <= h \/ blocks'[c].end <= blocks'[a].end
    BY <1>4, <1>7, <1>8 DEF LoopsAreEntered
  <2>1. blocks'[a].end = blocks[a].end /\ blocks'[c].end = blocks[c].end
    BY <1>6, <1>9
  <2> QED
    BY <2>1 DEF Control, LoopsAreEntered
<1>13. \E c \in OfType({"for"}) : c < b
  <2> DEFINE h == code[pc].target
  <2>1. /\ h \in DOMAIN code /\ h < pc /\ code[h].op = "FOR_ITER" /\ pc < code[h].target
    BY <1>3, JumpFacts DEF IsBackward
  <2> HIDE DEF h
  <2>2. h \in ForHeads
    BY <2>1 DEF ForHeads
  <2>3. PICK c \in DOMAIN blocks : blocks[c] = Block(code[h].target, "for")
    BY <2>1, <2>2 DEF Control, LoopsAreOpen
  <2>4. c \in OfType({"for"}) /\ blocks[c].end = code[h].target
    BY <2>3 DEF OfType, Block
  <2>5. c # b
    BY <1>6, <2>3 DEF Block
  <2>6. ASSUME b < c PROVE FALSE
    <3>1. PICK g \in ForHeads : /\ code[g].target = blocks[c].end
                                /\ blocks[b].end <= g \/ blocks[c].end <= blocks[b].end
      BY <1>5, <2>4, <2>6 DEF Control, LoopsAreEntered
    <3>2. g \in DOMAIN code /\ g < pc
      BY DEF ForHeads
    <3>3. code[h].target \in DOMAIN code
      BY <1>1, <2>1
    <3> QED
      BY <1>1, <1>2, <2>1, <2>4, <3>1, <3>2, <3>3
  <2>7. b \in Nat /\ c \in Nat
    BY <1>6
  <2> QED
    BY <2>4, <2>5, <2>6, <2>7
<1>14. WhilesAreInLoops'
  BY <1>8, <1>13 DEF Control, WhilesAreInLoops
<1> QED
  BY <1>10, <1>11, <1>12, <1>14 DEF Control

-----------------------------------------------------------------------------
(* One lemma for each action: the text. *)

LEMMA LevelFacts ==
    ASSUME IInv
    PROVE  /\ prog \in Programs /\ blocks \in Seq(BlocksOf(prog)) /\ reconstructed \in Seq(Lines)
           /\ Len(blocks) \in Nat /\ DOMAIN blocks = 1 .. Len(blocks)
           /\ indent_level = Base + Len(blocks) /\ indent_level \in Nat \ {0}
           /\ Base \in Nat \ {0}
  BY StateFacts

(* A loop that is open, and the `for` block there then is. *)
LEMMA ForIsOpen ==
    ASSUME IInv, Control, OfType(Loops) # {}
    PROVE  \E c \in DOMAIN blocks : blocks[c].type = "for"
<1>1. PICK b \in DOMAIN blocks : blocks[b].type \in Loops
  BY DEF OfType
<1>2. CASE blocks[b].type = "for"
  BY <1>2
<1>3. CASE blocks[b].type = "while"
  <2>1. b \in OfType({"while"})
    BY <1>3 DEF OfType
  <2>2. PICK c \in OfType({"for"}) : c < b
    BY <2>1 DEF Control, WhilesAreInLoops
  <2> QED
    BY <2>2 DEF OfType
<1> QED
  BY <1>1, <1>2, <1>3 DEF Loops

(* A jump back is inside the loop it goes back to. *)
LEMMA BackJumpIsInLoop ==
    ASSUME IInv, Control, Handles({"JUMP_BACKWARD"})
    PROVE  \E c \in DOMAIN blocks : blocks[c].type = "for"
<1> DEFINE h == code[pc].target
<1>1. pc \in DOMAIN code /\ code[pc].op = "JUMP_BACKWARD"
  BY HandledInstruction DEF Instr
<1>2. /\ h \in DOMAIN code /\ h < pc /\ code[h].op = "FOR_ITER" /\ pc < code[h].target
  BY <1>1, JumpFacts DEF IsBackward
<1> HIDE DEF h
<1>3. h \in ForHeads
  BY <1>2 DEF ForHeads
<1>4. PICK c \in DOMAIN blocks : blocks[c] = Block(code[h].target, "for")
  BY <1>2, <1>3 DEF Control, LoopsAreOpen
<1> QED
  BY <1>4 DEF Block

(* Statements, `break` and `continue`: the blocks stay as they are. *)
LEMMA PlainStep ==
    ASSUME IInv, TInv, UNCHANGED blocks,
           NEW line \in Lines, line.indent = indent_level, line.word \notin Headers,
           line.word \in {"break", "continue"} => \E c \in DOMAIN blocks : blocks[c].type = "for",
           reconstructed' = Append(reconstructed, line)
    PROVE  Text(reconstructed, blocks)'
<1>1. Text(Append(reconstructed, line), blocks)
  BY LevelFacts, AppendPlain DEF TInv
<1> QED
  BY <1>1

LEMMA WriteStatementText ==
    ASSUME IInv, TInv, WriteStatement PROVE Text(reconstructed, blocks)'
<1> DEFINE word == IF Instr.op = "STMT" THEN "stmt" ELSE "return"
           line == Statement(indent_level, word, pc)
<1>1. Handles({"STMT", "RETURN_VALUE"}) /\ UNCHANGED blocks /\ reconstructed' = Append(reconstructed, line)
  BY DEF WriteStatement
<1>2. pc \in DOMAIN code /\ Instr \in [op : Opcodes, id : Nat, target : Nat] /\ Instr = code[pc]
  BY <1>1, HandledInstruction DEF code
<1>3. line = [indent |-> indent_level, word |-> word, id |-> code[pc].id, cond |-> << >>, at |-> pc]
  BY DEF Statement
<1>4. word \in {"stmt", "return"} /\ word \in Words
  BY DEF Words
<1>5. code[pc].id \in Nat /\ pc \in Nat /\ indent_level \in Nat /\ << >> \in Seq(Tokens)
  BY <1>2, StateFacts, EmptySeq
<1>6. [indent |-> indent_level, word |-> word, id |-> code[pc].id, cond |-> << >>, at |-> pc] \in Lines
  BY <1>4, <1>5 DEF Lines
<1>7. line \in Lines /\ line.indent = indent_level /\ line.word = word
  BY <1>3, <1>6
<1>8. word \notin Headers /\ word \notin {"break", "continue"}
  BY <1>4 DEF Headers
<1> HIDE DEF word, line
<1> QED
  BY <1>1, <1>7, <1>8, PlainStep

LEMMA WriteBreakText ==
    ASSUME IInv, TInv, WriteBreak PROVE Text(reconstructed, blocks)'
<1> DEFINE line == Line(indent_level, "break")
<1>1. UNCHANGED blocks /\ reconstructed' = Append(reconstructed, line) /\ LeavesLoop
  BY DEF WriteBreak
<1>2. line \in Lines /\ line.word = "break" /\ line.indent = indent_level
  BY StateFacts, LineTypes DEF Words, Line
<1>3. OfType(Loops) # {}
  BY <1>1 DEF LeavesLoop, IsTopmost
<1>4. \E c \in DOMAIN blocks : blocks[c].type = "for"
  BY <1>3, ForIsOpen DEF TInv
<1> HIDE DEF line
<1>5. line.word \notin Headers
  BY <1>2 DEF Headers
<1> QED
  BY <1>1, <1>2, <1>4, <1>5, PlainStep

LEMMA WriteContinueText ==
    ASSUME IInv, TInv, WriteContinue \/ ContinueAtLastBackJump PROVE Text(reconstructed, blocks)'
<1> DEFINE line == Line(indent_level, "continue")
<1>1. /\ Handles({"JUMP_BACKWARD"}) /\ UNCHANGED blocks
      /\ reconstructed' = Append(reconstructed, line)
  BY DEF WriteContinue, ContinueAtLastBackJump
<1>2. line \in Lines /\ line.word = "continue" /\ line.indent = indent_level
  BY StateFacts, LineTypes DEF Words, Line
<1>3. \E c \in DOMAIN blocks : blocks[c].type = "for"
  BY <1>1, BackJumpIsInLoop DEF TInv
<1> HIDE DEF line
<1>4. line.word \notin Headers
  BY <1>2 DEF Headers
<1> QED
  BY <1>1, <1>2, <1>3, <1>4, PlainStep

LEMMA OpenForText ==
    ASSUME IInv, TInv, OpenFor PROVE Text(reconstructed, blocks)'
<1> DEFINE line == [Line(indent_level, "for") EXCEPT !.id = Instr.id]
           block == Block(Instr.target, "for")
<1>1. /\ Handles({"FOR_ITER"}) /\ reconstructed' = Append(reconstructed, line)
      /\ blocks' = Append(blocks, block)
  BY DEF OpenFor
<1>2. pc \in DOMAIN code /\ Instr.op = "FOR_ITER" /\ Instr = code[pc]
      /\ Instr \in [op : Opcodes, id : Nat, target : Nat]
  BY <1>1, HandledInstruction DEF code
<1>3. line = [indent |-> indent_level, word |-> "for", id |-> Instr.id, cond |-> << >>, at |-> 0]
  BY DEF Line
<1>4. [indent |-> indent_level, word |-> "for", id |-> Instr.id, cond |-> << >>, at |-> 0] \in Lines
  <2>1. << >> \in Seq(Tokens) /\ Instr.id \in Nat /\ indent_level \in Nat /\ "for" \in Words
    BY <1>2, StateFacts, EmptySeq DEF Words
  <2> QED
    BY <2>1 DEF Lines
<1>5. line \in Lines /\ line.indent = indent_level /\ line.word = "for"
  BY <1>3, <1>4
<1>6. block \in BlocksOf(prog) /\ block.type = "for"
  BY <1>2, JumpFacts DEF Block, BlocksOf, BlockTypes, code
<1> HIDE DEF line, block
<1>7. line.word \in Headers /\ line.word # "else" /\ Opener(line.word, block.type)
  BY <1>5, <1>6 DEF Headers, Opener
<1>8. Text(Append(reconstructed, line), Append(blocks, block))
  BY <1>5, <1>6, <1>7, LevelFacts, AppendHeader DEF TInv
<1> QED
  BY <1>1, <1>8

LEMMA OpenIfText ==
    ASSUME IInv, TInv, OpenIf PROVE Text(reconstructed, blocks)'
<1> DEFINE line == Condition(indent_level, FallsThroughOn)
           block == Block(Instr.target, "if")
<1>1. /\ Handles(ConditionalJumps) /\ reconstructed' = Append(reconstructed, line)
      /\ blocks' = Append(blocks, block)
  BY DEF OpenIf
<1>2. line \in Lines /\ line.word = "if" /\ line.indent = indent_level
  <2>1. FallsThroughOn \in Seq(Tokens) /\ indent_level \in Nat
    BY <1>1, ConditionTokens, StateFacts
  <2> QED
    BY <2>1, LineTypes DEF Condition, Line
<1>3. block \in BlocksOf(prog) /\ block.type = "if"
  BY <1>1, TestIsNoStatement DEF Block, BlocksOf, BlockTypes
<1> HIDE DEF line, block
<1>4. line.word \in Headers /\ line.word # "else" /\ Opener(line.word, block.type)
  BY <1>2, <1>3 DEF Headers, Opener
<1>5. Text(Append(reconstructed, line), Append(blocks, block))
  BY <1>2, <1>3, <1>4, LevelFacts, AppendHeader DEF TInv
<1> QED
  BY <1>1, <1>5

(* `if cond: break`: as if a block were opened and closed again. *)
LEMMA BreakWhenText ==
    ASSUME IInv, TInv, BreakWhen PROVE Text(reconstructed, blocks)'
<1> DEFINE test == IF JumpsWhenTrue THEN Atom(Instr) ELSE Word("not") \o Atom(Instr)
           head == Condition(indent_level, test)
           body == Line(indent_level + 1, "break")
           block == Block(pc, "if")
           once == Append(reconstructed, head)
           twice == Append(once, body)
           inner == Append(blocks, block)
<1>1. /\ Handles(ConditionalJumps) /\ UNCHANGED blocks /\ LeavesWhile
      /\ reconstructed' = reconstructed \o << head, body >>
  BY DEF BreakWhen
<1>2. test \in Seq(Tokens)
  BY <1>1, ConditionTokens
<1> HIDE DEF test
<1>3. head \in Lines /\ head.word = "if" /\ head.indent = indent_level
  BY <1>2, StateFacts, LineTypes DEF Condition, Line
<1>4. body \in Lines /\ body.word = "break" /\ body.indent = indent_level + 1
  <2>1. indent_level + 1 \in Nat /\ "break" \in Words
    BY StateFacts DEF Words
  <2> QED
    BY <2>1, LineTypes DEF Line
<1>5. block \in BlocksOf(prog) /\ block.type = "if"
  BY <1>1, TestIsNoStatement DEF Block, BlocksOf, BlockTypes, code
<1> HIDE DEF head, body, block
<1>6. PICK c \in DOMAIN blocks : blocks[c].type = "for"
  <2>1. OfType(Loops) # {}
    BY <1>1 DEF LeavesWhile, IsTopmost
  <2> QED
    BY <2>1, ForIsOpen DEF TInv
<1>7. Text(once, inner)
  <2>1. head.word \in Headers /\ head.word # "else" /\ Opener(head.word, block.type)
    BY <1>3, <1>5 DEF Headers, Opener
  <2> QED
    BY <1>3, <1>5, <2>1, LevelFacts, AppendHeader DEF TInv
<1>8. /\ once \in Seq(Lines) /\ Len(once) = Len(reconstructed) + 1
      /\ once[Len(reconstructed) + 1] = head
      /\ \A k \in 1 .. Len(reconstructed) : once[k] = reconstructed[k]
  BY <1>3, LevelFacts, AppendProperties
<1>9. /\ inner \in Seq(BlocksOf(prog)) /\ Len(inner) = Len(blocks) + 1
      /\ \A b \in 1 .. Len(blocks) : inner[b] = blocks[b]
      /\ DOMAIN inner = 1 .. Len(blocks) + 1
  <2>1. /\ inner \in Seq(BlocksOf(prog)) /\ Len(inner) = Len(blocks) + 1
        /\ \A b \in 1 .. Len(blocks) : inner[b] = blocks[b]
    BY <1>5, LevelFacts, AppendProperties
  <2> QED
    BY <2>1, StackFacts
<1> HIDE DEF once, inner
<1>10. Text(twice, inner) /\ ~BodyEmpty(twice)
  <2>1. body.word \notin Headers
    BY <1>4 DEF Headers
  <2>2. c \in DOMAIN inner /\ inner[c].type = "for"
    BY <1>6, <1>9, LevelFacts
  <2>3. body.indent = Base + Len(inner)
    BY <1>4, <1>9, LevelFacts
  <2> QED
    BY <1>4, <1>7, <1>8, <1>9, <2>1, <2>2, <2>3, AppendPlain
<1>11. twice \in Seq(Lines) /\ Len(twice) = Len(reconstructed) + 2
       /\ twice[Len(reconstructed) + 2] = body
       /\ \A k \in 1 .. Len(reconstructed) + 1 : twice[k] = once[k]
  <2>1. Len(reconstructed) \in Nat
    BY LevelFacts, LinesFacts
  <2> QED
    BY <1>4, <1>8, <2>1, AppendProperties
<1> HIDE DEF twice
<1>12. Text(twice, SubSeq(inner, 1, Len(blocks)))
  <2>1. Len(blocks) \in 0 .. Len(inner)
    BY <1>9, LevelFacts
  <2> QED
    BY <1>9, <1>10, <1>11, <2>1, CutKeeps
<1>13. SubSeq(inner, 1, Len(blocks)) = blocks
  <2>1. Len(blocks) \in 0 .. Len(inner)
    BY <1>9, LevelFacts
  <2>2. /\ SubSeq(inner, 1, Len(blocks)) \in Seq(BlocksOf(prog))
        /\ Len(SubSeq(inner, 1, Len(blocks))) = Len(blocks)
        /\ \A b \in 1 .. Len(blocks) : SubSeq(inner, 1, Len(blocks))[b] = inner[b]
    BY <1>9, <2>1, Prefix
  <2> QED
    BY <1>9, <2>2, LevelFacts, SeqEqual
<1>14. reconstructed' = twice
  <2> DEFINE t == << head, body >>
             n == Len(reconstructed)
  <2>1. t \in Seq(Lines) /\ Len(t) = 2 /\ t[1] = head /\ t[2] = body
    BY <1>3, <1>4
  <2>2. reconstructed' = reconstructed \o t
    BY <1>1
  <2> HIDE DEF t
  <2>3. n \in Nat
    BY LevelFacts, LinesFacts
  <2>4. /\ reconstructed \o t \in Seq(Lines)
        /\ Len(reconstructed \o t) = n + 2
        /\ \A i \in 1 .. n + 2 :
              (reconstructed \o t)[i] = IF i <= n THEN reconstructed[i] ELSE t[i - n]
    <3>1. /\ reconstructed \o t \in Seq(Lines)
          /\ Len(reconstructed \o t) = Len(reconstructed) + Len(t)
          /\ \A i \in 1 .. Len(reconstructed) + Len(t) :
                (reconstructed \o t)[i] = IF i <= Len(reconstructed) THEN reconstructed[i]
                                           ELSE t[i - Len(reconstructed)]
      BY <2>1, LevelFacts, ConcatProperties, ZenonT(60)
    <3> QED
      BY <2>1, <3>1
  <2> HIDE DEF n
  <2>5. \A i \in 1 .. n + 2 : twice[i] = (reconstructed \o t)[i]
    <3> SUFFICES ASSUME NEW i \in 1 .. n + 2 PROVE twice[i] = (reconstructed \o t)[i]
      OBVIOUS
    <3>1. CASE i \in 1 .. n
      <4>1. i <= n /\ i \in 1 .. n + 1
        BY <2>3, <3>1
      <4> QED
        BY <1>8, <1>11, <2>4, <3>1, <4>1 DEF n
    <3>2. CASE i = n + 1
      <4>1. ~(i <= n) /\ i \in 1 .. n + 1 /\ i - n = 1
        BY <2>3, <3>2
      <4> QED
        BY <1>8, <1>11, <2>1, <2>4, <3>2, <4>1 DEF n
    <3>3. CASE i = n + 2
      <4>1. ~(i <= n) /\ i - n = 2
        BY <2>3, <3>3
      <4>2. (reconstructed \o t)[i] = t[i - n]
        BY <2>4, <4>1
      <4>3. t[i - n] = body
        BY <2>1, <4>1
      <4> QED
        BY <1>11, <3>3, <4>2, <4>3 DEF n
    <3>4. i \in 1 .. n \/ i = n + 1 \/ i = n + 2
      BY <2>3
    <3> QED
      BY <3>1, <3>2, <3>3, <3>4
  <2>6. twice = reconstructed \o t
    BY <1>11, <2>4, <2>5, SeqEqual DEF n
  <2> QED
    BY <2>2, <2>6
<1> QED
  BY <1>1, <1>12, <1>13, <1>14

(* Blocks are closed, with a `pass` where there is no body. *)
LEMMA ClosedText ==
    ASSUME IInv, TInv
    PROVE  /\ WithBody(reconstructed, indent_level) \in Seq(Lines)
           /\ Text(WithBody(reconstructed, indent_level), blocks)
           /\ ~BodyEmpty(WithBody(reconstructed, indent_level))
           /\ \A m \in 0 .. Len(blocks) :
                 Text(WithBody(reconstructed, indent_level), SubSeq(blocks, 1, m))
<1> DEFINE body == WithBody(reconstructed, indent_level)
<1>1. body \in Seq(Lines)
  BY LevelFacts, WithBodyType
<1>2. Text(body, blocks) /\ ~BodyEmpty(body)
  BY LevelFacts, WithBodyKeeps DEF TInv
<1> HIDE DEF body
<1>3. \A m \in 0 .. Len(blocks) : Text(body, SubSeq(blocks, 1, m))
  BY <1>1, <1>2, LevelFacts, CutKeeps
<1> QED
  BY <1>1, <1>2, <1>3 DEF body

LEMMA CloseBlockText ==
    ASSUME IInv, TInv, CloseBlock PROVE Text(reconstructed, blocks)'
<1>1. blocks # << >> /\ blocks' = Front(blocks) /\ reconstructed' = WithBody(reconstructed, indent_level)
  BY DEF CloseBlock, NeedsClosing
<1>2. Len(blocks) \in Nat \ {0}
  BY <1>1, LevelFacts, FrontLast
<1>3. Len(blocks) - 1 \in 0 .. Len(blocks)
  BY <1>2
<1>4. blocks' = SubSeq(blocks, 1, Len(blocks) - 1)
  BY <1>1 DEF Front
<1> QED
  BY <1>1, <1>3, <1>4, ClosedText

(* An `else` in the place of block m. *)
LEMMA ElseText ==
    ASSUME IInv, TInv, NEW lines \in Seq(Lines), Text(lines, blocks), ~BodyEmpty(lines),
           NEW m \in DOMAIN blocks, blocks[m].type # "else", NEW end \in DOMAIN code
    PROVE  LET outer == SubSeq(blocks, 1, m - 1)
           IN  /\ Text(Append(lines, Line(Base + m - 1, "else")),
                       Append(outer, Block(Clip(outer, pc, end), "else")))
               /\ Text(Write(lines, Line(Base + m - 1, "else")),
                       Append(outer, Block(Clip(outer, pc, end), "else")))
<1> DEFINE outer == SubSeq(blocks, 1, m - 1)
           block == Block(Clip(outer, pc, end), "else")
<1>1. m - 1 \in 0 .. Len(blocks)
  BY LevelFacts
<1>2. outer \in Seq(BlocksOf(prog))
  BY <1>1, LevelFacts, Prefix
<1>3. Clip(outer, pc, end) \in DOMAIN prog.code
  BY <1>2, LevelFacts, ClipType DEF code
<1>4. block \in BlocksOf(prog) /\ block.type = "else"
  BY <1>3 DEF Block, BlocksOf, BlockTypes
<1> HIDE DEF block
<1>5. Text(Append(lines, Line(Base + m - 1, "else")), Append(outer, block))
  BY <1>4, LevelFacts, AppendElse
<1>6. Write(lines, Line(Base + m - 1, "else")) = Append(lines, Line(Base + m - 1, "else"))
  BY WriteAppends
<1> QED
  BY <1>5, <1>6 DEF block

LEMMA LoopElseEndsType ==
    ASSUME IInv, blocks # << >>, NEW else_end \in LoopElseEnds(Last(blocks).end)
    PROVE  else_end \in DOMAIN code
<1>1. Last(blocks).end \in DOMAIN code
  <2>1. Last(blocks) \in BlocksOf(prog)
    BY LevelFacts, FrontLast
  <2> QED
    BY <2>1 DEF BlocksOf, code
<1>2. PICK i \in 1 .. Last(blocks).end - 1 : IsJump(code[i]) /\ else_end = code[i].target
  BY DEF LoopElseEnds, LoopEscapes
<1>3. i \in DOMAIN code
  BY <1>1, StateFacts
<1> QED
  BY <1>2, <1>3, JumpFacts DEF HasTarget

LEMMA CloseIntoElseText ==
    ASSUME IInv, TInv, CloseIntoElse PROVE Text(reconstructed, blocks)'
<1> DEFINE body == WithBody(reconstructed, indent_level)
           m == Len(blocks)
           outer == SubSeq(blocks, 1, m - 1)
<1>1. /\ blocks # << >> /\ Last(blocks).type = "for"
      /\ reconstructed' = Write(body, Line(indent_level - 1, "else"))
  BY DEF CloseIntoElse, NeedsClosing
<1>2. PICK else_end \in LoopElseEnds(Last(blocks).end) :
         blocks' = Append(Front(blocks), Block(Clip(Front(blocks), Last(blocks).end, else_end), "else"))
  BY DEF CloseIntoElse
<1>3. m \in DOMAIN blocks /\ Last(blocks) = blocks[m] /\ Front(blocks) = outer /\ blocks[m].type # "else"
  BY <1>1, LevelFacts, FrontLast DEF Front
<1>4. else_end \in DOMAIN code
  BY <1>1, LoopElseEndsType
<1>5. body \in Seq(Lines) /\ Text(body, blocks) /\ ~BodyEmpty(body)
  BY ClosedText
<1> DEFINE block == Block(Clip(outer, Last(blocks).end, else_end), "else")
<1>6. block \in BlocksOf(prog) /\ block.type = "else"
  <2>1. m - 1 \in 0 .. Len(blocks)
    BY <1>3, LevelFacts
  <2>2. outer \in Seq(BlocksOf(prog))
    BY <2>1, LevelFacts, Prefix
  <2> HIDE DEF outer
  <2>3. Clip(outer, Last(blocks).end, else_end) \in DOMAIN prog.code
    BY <1>4, <2>2, LevelFacts, ClipType DEF code
  <2> QED
    BY <2>3 DEF Block, BlocksOf, BlockTypes
<1> HIDE DEF block, body
<1>7. Text(Append(body, Line(Base + m - 1, "else")), Append(outer, block))
  BY <1>3, <1>5, <1>6, LevelFacts, AppendElse
<1>8. Write(body, Line(Base + m - 1, "else")) = Append(body, Line(Base + m - 1, "else"))
  BY <1>5, WriteAppends
<1>9. indent_level - 1 = Base + m - 1
  BY LevelFacts
<1>10. blocks' = Append(outer, block)
  BY <1>2, <1>3 DEF block
<1> QED
  BY <1>1, <1>7, <1>8, <1>9, <1>10

LEMMA OpenElseText ==
    ASSUME IInv, TInv, OpenElse PROVE Text(reconstructed, blocks)'
<1>1. PICK m \in DOMAIN blocks :
         /\ IsTopmost(m, EndingIfs)
         /\ LET outer == SubSeq(blocks, 1, m - 1)
                depth == indent_level - (Len(blocks) - m)
            IN  /\ blocks' = Append(outer, Block(Clip(outer, pc, Instr.target), "else"))
                /\ reconstructed' = Write(WithBody(reconstructed, indent_level), Line(depth - 1, "else"))
  BY DEF OpenElse
<1>2. Instr.target \in DOMAIN code
  BY JumpIsNoStatement DEF OpenElse, UnconditionalJumps, code
<1>3. blocks[m].type # "else"
  BY <1>1 DEF IsTopmost, EndingIfs, OfType
<1>4. indent_level - (Len(blocks) - m) - 1 = Base + m - 1
  BY LevelFacts
<1> DEFINE body == WithBody(reconstructed, indent_level)
           outer == SubSeq(blocks, 1, m - 1)
           block == Block(Clip(outer, pc, Instr.target), "else")
<1>5. blocks' = Append(outer, block) /\ reconstructed' = Write(body, Line(Base + m - 1, "else"))
  BY <1>1, <1>4, Zenon
<1>6. body \in Seq(Lines) /\ Text(body, blocks) /\ ~BodyEmpty(body)
  BY ClosedText
<1> HIDE DEF body
<1>7. Text(Write(body, Line(Base + m - 1, "else")), Append(outer, block))
  BY <1>2, <1>3, <1>6, ElseText
<1> QED
  BY <1>5, <1>7

LEMMA StopAtLoopText ==
    ASSUME IInv, TInv, StopAtLoop PROVE Text(reconstructed, blocks)'
<1>1. PICK c \in DOMAIN blocks :
         /\ blocks' = SubSeq(blocks, 1, c)
         /\ reconstructed' = IF c < Len(blocks) THEN WithBody(reconstructed, indent_level)
                             ELSE reconstructed
  BY DEF StopAtLoop
<1>2. c \in 0 .. Len(blocks)
  BY LevelFacts
<1>3. CASE c < Len(blocks)
  BY <1>1, <1>2, <1>3, ClosedText
<1>4. CASE ~(c < Len(blocks))
  <2>1. c = Len(blocks)
    BY <1>2, <1>4, LevelFacts
  <2>2. Text(reconstructed, SubSeq(blocks, 1, c))
    BY <1>2, <2>1, LevelFacts, CutKeeps DEF TInv
  <2> QED
    BY <1>1, <1>4, <2>2
<1> QED
  BY <1>3, <1>4

(* Where an `else` that a jump back opens can end. *)
LEMMA BranchElseEndsType ==
    ASSUME IInv, Handles({"JUMP_BACKWARD"}), NEW loop_end \in LaterBackEdges, NEW nested,
           NEW else_end \in BranchElseEnds(loop_end, nested)
    PROVE  else_end \in DOMAIN code
<1>1. /\ pc \in DOMAIN code /\ Instr.op = "JUMP_BACKWARD" /\ Instr = code[pc]
  BY HandledInstruction DEF code
<1>2. Instr.target \in DOMAIN code /\ code[Instr.target].op = "FOR_ITER"
  BY <1>1, JumpFacts DEF IsBackward
<1>3. code[Instr.target].target \in DOMAIN code
  BY <1>2, JumpFacts DEF HasTarget
<1>4. loop_end \in DOMAIN code
  BY <1>1, JumpFacts DEF LaterBackEdges
<1>5. ElseEndWithBreakTail(loop_end) \in DOMAIN code
  BY <1>3, <1>4, Zenon DEF ElseEndWithBreakTail
<1>6. ChainEnds(ElseEndWithBreakTail(loop_end)) \subseteq DOMAIN code
  <2> SUFFICES ASSUME NEW x \in 1 .. pc - 1, IsJump(code[x])
               PROVE  code[x].target \in DOMAIN code
    BY DEF ChainEnds
  <2>1. x \in DOMAIN code
    BY <1>1, JumpFacts
  <2> QED
    BY <2>1, JumpFacts DEF HasTarget
<1> QED
  BY <1>5, <1>6, Zenon DEF BranchElseEnds

LEMMA OpenElseAtBackJumpText ==
    ASSUME IInv, TInv, OpenElseAtBackJump PROVE Text(reconstructed, blocks)'
<1>1. Handles({"JUMP_BACKWARD"})
  BY DEF OpenElseAtBackJump
<1>2. PICK loop_end \in LaterBackEdges, m \in EndedIfs :
         LET outer == SubSeq(blocks, 1, m - 1)
             depth == indent_level - (Len(blocks) - m)
         IN  /\ \E else_end \in BranchElseEnds(loop_end, m < Len(blocks)) :
                   blocks' = Append(outer, Block(Clip(outer, pc, else_end), "else"))
             /\ reconstructed' =
                   Append(IF BodyEmpty(reconstructed)
                          THEN Append(reconstructed, Line(indent_level, "continue"))
                          ELSE reconstructed,
                          Line(depth - 1, "else"))
  BY DEF OpenElseAtBackJump
<1> DEFINE outer == SubSeq(blocks, 1, m - 1)
           body == IF BodyEmpty(reconstructed)
                   THEN Append(reconstructed, Line(indent_level, "continue"))
                   ELSE reconstructed
           line == Line(indent_level, "continue")
<1>3. PICK else_end \in BranchElseEnds(loop_end, m < Len(blocks)) :
         blocks' = Append(outer, Block(Clip(outer, pc, else_end), "else"))
  BY <1>2
<1>4. m \in DOMAIN blocks /\ blocks[m].type # "else"
  BY DEF EndedIfs, EndingIfs, OfType
<1>5. body \in Seq(Lines) /\ Text(body, blocks) /\ ~BodyEmpty(body)
  <2>1. \E c \in DOMAIN blocks : blocks[c].type = "for"
    BY <1>1, BackJumpIsInLoop DEF TInv
  <2>2. line \in Lines /\ line.word = "continue" /\ line.indent = indent_level
    BY StateFacts, LineTypes DEF Words, Line
  <2> HIDE DEF line
  <2>3. line.word \notin Headers
    BY <2>2 DEF Headers
  <2>4. Append(reconstructed, line) \in Seq(Lines)
    BY <2>2, LevelFacts, AppendProperties
  <2>5. Text(Append(reconstructed, line), blocks) /\ ~BodyEmpty(Append(reconstructed, line))
    BY <2>1, <2>2, <2>3, LevelFacts, AppendPlain DEF TInv
  <2>6. reconstructed \in Seq(Lines) /\ Text(reconstructed, blocks)
    BY LevelFacts DEF TInv
  <2> QED
    BY <2>4, <2>5, <2>6, Zenon DEF line
<1>6. else_end \in DOMAIN code
  BY <1>1, BranchElseEndsType
<1>7. indent_level - (Len(blocks) - m) - 1 = Base + m - 1
  BY <1>4, LevelFacts
<1>8. reconstructed' = Append(body, Line(Base + m - 1, "else"))
  BY <1>2, <1>7, Zenon
<1> HIDE DEF body
<1>9. Text(Append(body, Line(Base + m - 1, "else")),
           Append(outer, Block(Clip(outer, pc, else_end), "else")))
  BY <1>4, <1>5, <1>6, ElseText
<1> QED
  BY <1>3, <1>8, <1>9

LEMMA JoinConditionText ==
    ASSUME IInv, IInv', TInv, JoinCondition PROVE Text(reconstructed, blocks)'
<1> DEFINE n == Len(reconstructed)
           connector == IF JumpsWhenTrue /\ ~Precomputed THEN "or" ELSE "and"
           cond == Last(reconstructed).cond \o Word(connector) \o FallsThroughOn
           line == Condition(indent_level - 1, cond)
<1>1. /\ Handles(ConditionalJumps)
      /\ blocks' = blocks /\ reconstructed # << >> /\ Last(reconstructed).word = "if"
      /\ reconstructed' = Append(Front(reconstructed), line)
  BY Zenon DEF JoinCondition, ContinuesCondition
<1>2. cond \in Seq(Tokens)
  <2>1. Last(reconstructed).cond \in Seq(Tokens) /\ Word(connector) \in Seq(Tokens)
    <3>1. Last(reconstructed) \in Lines
      BY <1>1, LevelFacts, FrontLast
    <3>2. Last(reconstructed).cond \in Seq(Tokens)
      BY <3>1 DEF Lines
    <3> QED
      BY <3>2, TokenTypes
  <2>2. Last(reconstructed).cond \o Word(connector) \in Seq(Tokens)
    BY <2>1, ConcatProperties
  <2> QED
    BY <1>1, <2>2, ConditionTokens, ConcatProperties
<1> HIDE DEF cond
<1>3. line \in Lines /\ line.word = "if" /\ line.indent = indent_level - 1
  <2>1. indent_level - 1 \in Nat
    BY LevelFacts
  <2>2. line \in Lines /\ line.word = "if"
    BY <1>2, <2>1, LineTypes
  <2> QED
    BY <2>2 DEF Condition, Line
<1>4. /\ n \in Nat \ {0} /\ Last(reconstructed) = reconstructed[n]
      /\ Front(reconstructed) \in Seq(Lines) /\ Len(Front(reconstructed)) = n - 1
      /\ \A i \in 1 .. n - 1 : Front(reconstructed)[i] = reconstructed[i]
  BY <1>1, LevelFacts, FrontLast
<1>5. reconstructed' \in Seq(Lines)
  BY DEF IInv, TypeOK
<1> HIDE DEF line, n
<1>6. /\ Len(reconstructed') = n
      /\ \A i \in 1 .. n - 1 : reconstructed'[i] = reconstructed[i]
      /\ reconstructed'[n] = line
  <2> DEFINE front == Front(reconstructed)
  <2>1. reconstructed' = Append(front, line) /\ front \in Seq(Lines) /\ Len(front) = n - 1
        /\ \A i \in 1 .. n - 1 : front[i] = reconstructed[i]
    BY <1>1, <1>4
  <2> HIDE DEF front
  <2>2. /\ Len(Append(front, line)) = Len(front) + 1
        /\ \A i \in 1 .. Len(front) : Append(front, line)[i] = front[i]
        /\ Append(front, line)[Len(front) + 1] = line
    BY <1>3, <2>1, AppendProperties
  <2> QED
    BY <1>4, <2>1, <2>2
<1>7. reconstructed[n].indent = indent_level - 1
  <2>1. reconstructed[n].word \in Headers
    BY <1>1, <1>4 DEF Headers
  <2>2. reconstructed[n].indent + 1 = indent_level
    BY <1>4, <2>1, LevelFacts, FitsAt DEF TInv, Text, n
  <2>3. reconstructed[n].indent \in Nat
    BY <1>4, LevelFacts, LinesFacts DEF n
  <2> QED
    BY <2>2, <2>3
<1>8. \A k \in DOMAIN reconstructed : /\ reconstructed'[k].indent = reconstructed[k].indent
                                      /\ reconstructed'[k].word = reconstructed[k].word
  <2>1. DOMAIN reconstructed = 1 .. n
    BY LevelFacts, LinesFacts DEF n
  <2>2. \A k \in 1 .. n : k = n \/ k \in 1 .. n - 1
    BY <1>4
  <2> QED
    BY <1>1, <1>3, <1>4, <1>6, <1>7, <2>1, <2>2
<1>9. Text(reconstructed', blocks)
  BY <1>5, <1>6, <1>8, LevelFacts, Reworded DEF TInv, n
<1> QED
  BY <1>1, <1>9

LEMMA RewriteIfAsWhileText ==
    ASSUME IInv, IInv', TInv, RewriteIfAsWhile PROVE Text(reconstructed, blocks)'
<1>1. PICK b \in OpenIfs, k \in IfLines :
         /\ blocks' = [blocks EXCEPT ![b].type = "while"]
         /\ reconstructed' = [reconstructed EXCEPT ![k].word = "while"]
  BY DEF RewriteIfAsWhile
<1>2. reconstructed' \in Seq(Lines) /\ blocks' \in Seq(BlocksOf(prog))
  <2>1. prog' = prog
    BY DEF RewriteIfAsWhile, Next_pc
  <2> QED
    BY <2>1 DEF IInv, TypeOK, BlocksOf, code
<1>3. b \in DOMAIN blocks /\ blocks[b].type = "if"
  BY DEF OpenIfs, OfType
<1>4. k \in DOMAIN reconstructed /\ reconstructed[k].word = "if"
  BY DEF IfLines
<1>5. /\ DOMAIN blocks = 1 .. Len(blocks) /\ Len(blocks) \in Nat
      /\ \A c \in DOMAIN blocks : blocks[c] \in BlocksOf(prog)
  BY StateFacts
<1>6. \A c \in DOMAIN blocks : \/ blocks'[c].type = blocks[c].type
                               \/ blocks[c].type = "if" /\ blocks'[c].type = "while"
  <2> SUFFICES ASSUME NEW c \in DOMAIN blocks
               PROVE  \/ blocks'[c].type = blocks[c].type
                      \/ blocks[c].type = "if" /\ blocks'[c].type = "while"
    OBVIOUS
  <2>1. blocks'[c] = IF c = b THEN [blocks[b] EXCEPT !.type = "while"] ELSE blocks[c]
    BY <1>1
  <2>2. [blocks[b] EXCEPT !.type = "while"].type = "while"
    BY <1>3, <1>5 DEF BlocksOf
  <2> QED
    BY <1>3, <2>1, <2>2
<1>7. \A j \in DOMAIN reconstructed :
         /\ reconstructed'[j].indent = reconstructed[j].indent
         /\ \/ reconstructed'[j].word = reconstructed[j].word
            \/ reconstructed[j].word = "if" /\ reconstructed'[j].word = "while"
  <2> SUFFICES ASSUME NEW j \in DOMAIN reconstructed
               PROVE  /\ reconstructed'[j].indent = reconstructed[j].indent
                      /\ \/ reconstructed'[j].word = reconstructed[j].word
                         \/ reconstructed[j].word = "if" /\ reconstructed'[j].word = "while"
    OBVIOUS
  <2>1. reconstructed'[j] = IF j = k THEN [reconstructed[k] EXCEPT !.word = "while"]
                            ELSE reconstructed[j]
    BY <1>1
  <2>2. reconstructed[k] \in Lines
    BY <1>4, LevelFacts, LinesFacts
  <2>3. /\ [reconstructed[k] EXCEPT !.word = "while"].word = "while"
        /\ [reconstructed[k] EXCEPT !.word = "while"].indent = reconstructed[k].indent
    BY <2>2 DEF Lines
  <2> QED
    BY <1>4, <2>1, <2>3
<1>8. Len(blocks') = Len(blocks) /\ Len(reconstructed') = Len(reconstructed)
  <2>1. DOMAIN blocks' = DOMAIN blocks /\ DOMAIN reconstructed' = DOMAIN reconstructed
    BY <1>1
  <2>2. /\ DOMAIN blocks' = 1 .. Len(blocks') /\ Len(blocks') \in Nat
        /\ DOMAIN reconstructed' = 1 .. Len(reconstructed') /\ Len(reconstructed') \in Nat
    BY <1>2, LenProperties
  <2>3. DOMAIN reconstructed = 1 .. Len(reconstructed) /\ Len(reconstructed) \in Nat
    BY LevelFacts, LinesFacts
  <2>4. \A m, n \in Nat : 1 .. m = 1 .. n => m = n
    <3> SUFFICES ASSUME NEW m \in Nat, NEW n \in Nat, 1 .. m = 1 .. n, m < n PROVE FALSE
      OBVIOUS
    <3>1. n \in 1 .. n /\ n \notin 1 .. m
      OBVIOUS
    <3> QED
      BY <3>1
  <2>5. Len(blocks') = Len(blocks)
    BY <1>5, <2>1, <2>2, <2>4
  <2>6. Len(reconstructed') = Len(reconstructed)
    BY <2>1, <2>2, <2>3, <2>4
  <2> QED
    BY <2>5, <2>6
<1> QED
  BY <1>2, <1>6, <1>7, <1>8, LevelFacts, Reworded DEF TInv

LEMMA FinishText ==
    ASSUME IInv, TInv, Finish PROVE Text(reconstructed, blocks)'
<1> DEFINE line == Line(indent_level, "pass")
<1>1. /\ blocks' = blocks
      /\ reconstructed' = IF reconstructed = << >> THEN << line >> ELSE reconstructed
  BY DEF Finish
<1>2. line \in Lines /\ line.word = "pass" /\ line.indent = indent_level
  BY StateFacts, LineTypes DEF Words, Line
<1> HIDE DEF line
<1>3. CASE reconstructed = << >>
  <2>1. reconstructed' = Append(reconstructed, line)
    BY <1>1, <1>3
  <2>2. line.word \notin Headers /\ line.word \notin {"break", "continue"}
    BY <1>2 DEF Headers
  <2> QED
    BY <1>1, <1>2, <2>1, <2>2, PlainStep
<1>4. CASE reconstructed # << >>
  BY <1>1, <1>4 DEF TInv
<1> QED
  BY <1>3, <1>4

-----------------------------------------------------------------------------
(* One lemma for each kind of step: the open blocks. *)

(* No block is opened or closed. *)
LEMMA UnmovedControl ==
    ASSUME IInv, IInv', Control, prog' = prog, UNCHANGED blocks, pc' >= pc,
           \A i \in DOMAIN code : pc <= i /\ i < pc' => code[i].op # "FOR_ITER"
    PROVE  Control'
<1>1. Len(blocks) \in Nat
  BY LevelFacts
<1> DEFINE m == Len(blocks)
<1>2. /\ m \in 0 .. Len(blocks) /\ m <= Len(blocks')
      /\ \A b \in 1 .. m : blocks'[b] = blocks[b]
  BY <1>1
<1>3. m + 1 .. Len(blocks) = {} /\ m + 1 .. Len(blocks') = {}
  BY <1>1
<1> HIDE DEF m
<1> QED
  BY <1>2, <1>3, ControlKept

LEMMA PassedControl ==
    ASSUME IInv, IInv', Control, UNCHANGED blocks,
           NEW ops, Handles(ops), "FOR_ITER" \notin ops, Next_pc(pc + 1)
    PROVE  Control'
<1>1. prog' = prog /\ pc' = pc + 1
  BY DEF Next_pc
<1>2. code[pc].op # "FOR_ITER" /\ pc \in DOMAIN code
  BY HandledInstruction DEF Instr
<1>3. pc' >= pc /\ \A i \in DOMAIN code : pc <= i /\ i < pc' => i = pc
  BY <1>1, JumpFacts
<1> QED
  BY <1>1, <1>2, <1>3, UnmovedControl

LEMMA SuppressedControl ==
    ASSUME IInv, IInv', Control, Suppressed PROVE Control'
<1>1. prog' = prog /\ pc' = pc + 1 /\ UNCHANGED blocks /\ pc \in prog.suppress
  BY DEF Suppressed, Next_pc
<1>2. code[pc].op # "FOR_ITER"
  BY <1>1, StateFacts, CodeFacts DEF ConditionalJumps, code
<1>3. pc' >= pc /\ \A i \in DOMAIN code : pc <= i /\ i < pc' => i = pc
  BY <1>1, JumpFacts
<1> QED
  BY <1>1, <1>2, <1>3, UnmovedControl

LEMMA BreakWhenControl ==
    ASSUME IInv, IInv', Control, BreakWhen PROVE Control'
<1>1. Handles(ConditionalJumps) /\ LeavesWhile /\ UNCHANGED blocks
  BY DEF BreakWhen
<1>2. PICK b \in DOMAIN blocks :
         /\ IsTopmost(b, OfType(Loops))
         /\ Next_pc(IF pc + 2 = blocks[b].end THEN pc + 2 ELSE pc + 1)
  BY DEF BreakWhen
<1>3. prog' = prog /\ pc' = IF pc + 2 = blocks[b].end THEN pc + 2 ELSE pc + 1
  BY <1>2 DEF Next_pc
<1>4. code[pc].op # "FOR_ITER"
  BY <1>1, HandledInstruction DEF Instr, ConditionalJumps
<1>5. pc' = pc + 2 => code[pc + 1].op # "FOR_ITER"
  <2> SUFFICES ASSUME pc' = pc + 2 PROVE code[pc + 1].op # "FOR_ITER"
    OBVIOUS
  <2>1. PICK c \in DOMAIN blocks : IsTopmost(c, OfType(Loops)) /\ IsBackward(code[blocks[c].end - 1])
    BY <1>1 DEF LeavesWhile
  <2>2. b \in Nat /\ c \in Nat
    BY <1>2, <2>1, LevelFacts
  <2>3. b = c
    BY <1>2, <2>1, <2>2 DEF IsTopmost
  <2>4. blocks[b].end - 1 = pc + 1
    BY <1>2, <1>3, JumpFacts
  <2>5. IsBackward(code[pc + 1])
    BY <2>1, <2>3, <2>4
  <2> QED
    BY <2>5 DEF IsBackward
<1>6. /\ pc' >= pc
      /\ \A i \in DOMAIN code : pc <= i /\ i < pc' => i = pc \/ (i = pc + 1 /\ pc' = pc + 2)
  BY <1>3, JumpFacts
<1> QED
  BY <1>1, <1>3, <1>4, <1>5, <1>6, UnmovedControl

(* What is closed is at its end. *)
LEMMA CloseControl ==
    ASSUME IInv, IInv', Control, CloseBlock \/ CloseIntoElse PROVE Control'
<1> DEFINE m == Len(blocks) - 1
<1>1. /\ prog' = prog /\ pc' = pc /\ blocks # << >>
      /\ pc = Len(code) + 1 \/ pc >= Last(blocks).end
  BY DEF CloseBlock, CloseIntoElse, NeedsClosing, PastTheEnd
<1>2. /\ Len(blocks) \in Nat \ {0} /\ Last(blocks) = blocks[Len(blocks)]
      /\ Front(blocks) \in Seq(BlocksOf(prog)) /\ Len(Front(blocks)) = m
      /\ \A i \in 1 .. m : Front(blocks)[i] = blocks[i]
  BY <1>1, LevelFacts, FrontLast
<1>3. /\ m <= Len(blocks') /\ \A b \in 1 .. m : blocks'[b] = blocks[b]
      /\ \A b \in m + 1 .. Len(blocks') : blocks'[b].type = "else"
  <2>1. CASE CloseBlock
    <3>1. blocks' = Front(blocks)
      BY <2>1 DEF CloseBlock
    <3>2. m \in Nat /\ Len(blocks') = m
      BY <1>2, <3>1
    <3>3. m + 1 .. Len(blocks') = {} /\ m <= Len(blocks')
      BY <3>2
    <3> QED
      BY <1>2, <3>1, <3>3
  <2>2. CASE CloseIntoElse
    <3>1. PICK else_end \in LoopElseEnds(Last(blocks).end) :
             blocks' = Append(Front(blocks), Block(Clip(Front(blocks), Last(blocks).end, else_end), "else"))
      BY <2>2 DEF CloseIntoElse
    <3> DEFINE front == Front(blocks)
               block == Block(Clip(Front(blocks), Last(blocks).end, else_end), "else")
    <3>2. block \in BlocksOf(prog) /\ block.type = "else"
      <4>1. else_end \in DOMAIN prog.code
        BY <1>1, LoopElseEndsType DEF code
      <4>2. Clip(Front(blocks), Last(blocks).end, else_end) \in DOMAIN prog.code
        BY <1>2, <4>1, LevelFacts, ClipType
      <4> QED
        BY <4>2 DEF Block, BlocksOf, BlockTypes
    <3>3. m \in Nat /\ front \in Seq(BlocksOf(prog)) /\ Len(front) = m
          /\ \A i \in 1 .. m : front[i] = blocks[i]
      BY <1>2
    <3> HIDE DEF block, front, m
    <3>4. /\ Len(Append(front, block)) = m + 1 /\ Append(front, block)[m + 1] = block
          /\ \A i \in 1 .. m : Append(front, block)[i] = front[i]
      BY <3>2, <3>3, AppendProperties
    <3>5. blocks' = Append(front, block)
      BY <3>1 DEF front, block
    <3>6. \A b \in m + 1 .. m + 1 : b = m + 1
      BY <3>3
    <3> QED
      BY <3>2, <3>3, <3>4, <3>5, <3>6
  <2> QED
    BY <2>1, <2>2
<1>4. m \in 0 .. Len(blocks)
  BY <1>2
<1>5. \A b \in m + 1 .. Len(blocks) : b = Len(blocks)
  BY <1>2
<1>6. \A b \in m + 1 .. Len(blocks) :
         blocks[b].type = "for" => blocks[b].end <= pc' \/ pc' = Len(code) + 1
  <2>1. blocks[Len(blocks)].end \in Nat /\ pc \in Nat
    BY <1>2, JumpFacts
  <2>2. blocks[Len(blocks)].end <= pc' \/ pc' = Len(code) + 1
    BY <1>1, <1>2, <2>1
  <2> QED
    BY <1>5, <2>2
<1>7. pc' >= pc /\ \A i \in DOMAIN code : ~(pc <= i /\ i < pc')
  BY <1>1, JumpFacts
<1> HIDE DEF m
<1> QED
  BY <1>1, <1>3, <1>4, <1>6, <1>7, ControlKept

(* An `else` in the place of block m, and of those inside it: no loop. *)
LEMMA ElseControl ==
    ASSUME IInv, IInv', Control, NEW ops, Handles(ops), "FOR_ITER" \notin ops, Next_pc(pc + 1),
           NEW m \in DOMAIN blocks, \A b \in m .. Len(blocks) : blocks[b].type # "for",
           NEW end \in DOMAIN code,
           blocks' = Append(SubSeq(blocks, 1, m - 1), Block(Clip(SubSeq(blocks, 1, m - 1), pc, end), "else"))
    PROVE  Control'
<1> DEFINE n == m - 1
           outer == SubSeq(blocks, 1, m - 1)
           block == Block(Clip(outer, pc, end), "else")
<1>1. prog' = prog /\ pc' = pc + 1
  BY DEF Next_pc
<1>2. code[pc].op # "FOR_ITER" /\ pc \in DOMAIN code
  BY HandledInstruction DEF Instr
<1>3. pc' >= pc /\ \A i \in DOMAIN code : pc <= i /\ i < pc' => i = pc
  BY <1>1, JumpFacts
<1>4. n \in 0 .. Len(blocks) /\ n \in Nat /\ n + 1 = m
  BY LevelFacts
<1>5. /\ outer \in Seq(BlocksOf(prog)) /\ Len(outer) = n
      /\ \A i \in 1 .. n : outer[i] = blocks[i]
  BY <1>4, LevelFacts, Prefix
<1>6. block \in BlocksOf(prog) /\ block.type = "else"
  <2>1. Clip(outer, pc, end) \in DOMAIN prog.code
    BY <1>5, LevelFacts, ClipType DEF code
  <2> QED
    BY <2>1 DEF Block, BlocksOf, BlockTypes
<1>7. blocks' = Append(outer, block)
  OBVIOUS
<1> HIDE DEF n, outer, block
<1>8. /\ Len(blocks') = n + 1 /\ blocks'[n + 1] = block
      /\ \A i \in 1 .. n : blocks'[i] = blocks[i]
  BY <1>4, <1>5, <1>6, <1>7, AppendProperties
<1>9. n <= Len(blocks') /\ \A b \in n + 1 .. Len(blocks') : blocks'[b].type = "else"
  <2>1. \A b \in n + 1 .. Len(blocks') : b = n + 1
    BY <1>4, <1>8
  <2>2. n <= Len(blocks')
    BY <1>4, <1>8
  <2> QED
    BY <1>6, <1>8, <2>1, <2>2
<1>10. \A b \in n + 1 .. Len(blocks) : blocks[b].type # "for"
  BY <1>4
<1> QED
  BY <1>1, <1>2, <1>3, <1>4, <1>8, <1>9, <1>10, ControlKept

LEMMA OpenElseControl ==
    ASSUME IInv, IInv', Control, OpenElse PROVE Control'
<1>1. Handles({"JUMP_FORWARD"}) /\ Next_pc(pc + 1)
  BY DEF OpenElse
<1>2. PICK m \in DOMAIN blocks :
         /\ \A c \in OfType(Loops) : c < m
         /\ LET outer == SubSeq(blocks, 1, m - 1)
            IN  blocks' = Append(outer, Block(Clip(outer, pc, Instr.target), "else"))
  BY DEF OpenElse
<1>3. Instr.target \in DOMAIN code
  BY <1>1, JumpIsNoStatement DEF UnconditionalJumps, code
<1>4. \A b \in m .. Len(blocks) : blocks[b].type # "for"
  <2> SUFFICES ASSUME NEW b \in m .. Len(blocks), blocks[b].type = "for" PROVE FALSE
    OBVIOUS
  <2>1. b \in DOMAIN blocks /\ m \in Nat /\ b \in Nat /\ ~(b < m)
    BY LevelFacts
  <2>2. b \in OfType(Loops)
    BY <2>1 DEF OfType, Loops
  <2> QED
    BY <1>2, <2>1, <2>2
<1>5. "FOR_ITER" \notin {"JUMP_FORWARD"}
  OBVIOUS
<1> QED
  BY <1>1, <1>2, <1>3, <1>4, <1>5, ElseControl

LEMMA OpenElseAtBackJumpControl ==
    ASSUME IInv, IInv', Control, OpenElseAtBackJump PROVE Control'
<1>1. Handles({"JUMP_BACKWARD"}) /\ Next_pc(pc + 1)
  BY DEF OpenElseAtBackJump
<1>2. PICK loop_end \in LaterBackEdges, m \in EndedIfs :
         LET outer == SubSeq(blocks, 1, m - 1)
         IN  \E else_end \in BranchElseEnds(loop_end, m < Len(blocks)) :
                blocks' = Append(outer, Block(Clip(outer, pc, else_end), "else"))
  BY DEF OpenElseAtBackJump
<1>3. PICK else_end \in BranchElseEnds(loop_end, m < Len(blocks)) :
         blocks' = Append(SubSeq(blocks, 1, m - 1), Block(Clip(SubSeq(blocks, 1, m - 1), pc, else_end), "else"))
  BY <1>2
<1>4. /\ m \in DOMAIN blocks /\ blocks[m].type = "if"
      /\ \A c \in m + 1 .. Len(blocks) : blocks[c] = Block(pc + 1, "else")
  BY DEF EndedIfs, EndingIfs, OfType
<1>5. \A b \in m .. Len(blocks) : blocks[b].type # "for"
  <2>1. \A b \in m .. Len(blocks) : b = m \/ b \in m + 1 .. Len(blocks)
    BY <1>4, LevelFacts
  <2>2. \A c \in m + 1 .. Len(blocks) : blocks[c].type = "else"
    BY <1>4 DEF Block
  <2> QED
    BY <1>4, <2>1, <2>2
<1>6. else_end \in DOMAIN code
  BY <1>1, BranchElseEndsType
<1>7. "FOR_ITER" \notin {"JUMP_BACKWARD"}
  OBVIOUS
<1> QED
  BY <1>1, <1>3, <1>4, <1>5, <1>6, <1>7, ElseControl

LEMMA StopAtLoopControl ==
    ASSUME IInv, IInv', Control, StopAtLoop PROVE Control'
<1>1. Handles({"JUMP_FORWARD"}) /\ Next_pc(pc + 1)
  BY DEF StopAtLoop
<1>2. PICK c \in DOMAIN blocks : IsTopmost(c, OfType(Loops)) /\ blocks' = SubSeq(blocks, 1, c)
  BY DEF StopAtLoop
<1>3. prog' = prog /\ pc' = pc + 1
  BY <1>1 DEF Next_pc
<1>4. code[pc].op # "FOR_ITER" /\ pc \in DOMAIN code
  BY <1>1, HandledInstruction DEF Instr
<1>5. pc' >= pc /\ \A i \in DOMAIN code : pc <= i /\ i < pc' => i = pc
  BY <1>3, JumpFacts
<1>6. c \in 0 .. Len(blocks) /\ c \in Nat
  BY LevelFacts
<1>7. Len(blocks') = c /\ \A b \in 1 .. c : blocks'[b] = blocks[b]
  BY <1>2, <1>6, LevelFacts, Prefix
<1>8. c <= Len(blocks') /\ c + 1 .. Len(blocks') = {}
  BY <1>6, <1>7
<1>9. \A b \in c + 1 .. Len(blocks) : blocks[b].type # "for"
  <2> SUFFICES ASSUME NEW b \in c + 1 .. Len(blocks), blocks[b].type = "for" PROVE FALSE
    OBVIOUS
  <2>1. b \in DOMAIN blocks /\ b \in Nat /\ ~(b <= c)
    BY <1>6, LevelFacts
  <2>2. b \in OfType(Loops)
    BY <2>1 DEF OfType, Loops
  <2> QED
    BY <1>2, <2>1, <2>2 DEF IsTopmost
<1> QED
  BY <1>3, <1>4, <1>5, <1>6, <1>7, <1>8, <1>9, ControlKept

-----------------------------------------------------------------------------
(* The invariant holds at the start and is kept by every step. *)

LEMMA InitTInv == ASSUME Init PROVE TInv
<1>1. /\ prog \in Programs /\ pc = 1 /\ blocks = << >> /\ reconstructed = << >> /\ done = FALSE
  BY DEF Init
<1>2. DOMAIN blocks = {} /\ Len(blocks) = 0 /\ DOMAIN reconstructed = {} /\ Len(reconstructed) = 0
  BY <1>1
<1>3. Text(reconstructed, blocks)
  <2>1. 1 .. Len(reconstructed) - 1 = {}
    BY <1>2
  <2>2. Fits(reconstructed, Base + Len(blocks))
    BY <1>1 DEF Fits
  <2> QED
    BY <1>2, <2>1, <2>2 DEF Text, Deep, Stepped, Owned, Looped, Opened
<1>4. ForHeads = {}
  <2>1. DOMAIN code = 1 .. Len(code) /\ Len(code) \in Nat
    BY <1>1, CodeFacts DEF code
  <2> QED
    BY <1>1, <2>1 DEF ForHeads
<1>5. Control
  BY <1>2, <1>4 DEF Control, LoopsAreOpen, IfsAreTests, LoopsAreEntered, WhilesAreInLoops, OfType
<1> QED
  BY <1>1, <1>3, <1>5 DEF TInv, ClosedAtTheEnd

LEMMA NextTInv ==
    ASSUME IInv, IInv', TInv, LoopsEnteredAtHeads, [Next]_vars
    PROVE  TInv'
<1> USE DEF TInv
<1>1. \A ops : Handles(ops) /\ Next_pc(pc + 1) => ClosedAtTheEnd'
  BY DEF ClosedAtTheEnd, Handles, Next_pc
<1>2. CASE CloseBlock
  BY <1>2, CloseBlockText, CloseControl DEF CloseBlock, ClosedAtTheEnd
<1>3. CASE CloseIntoElse
  BY <1>3, CloseIntoElseText, CloseControl DEF CloseIntoElse, ClosedAtTheEnd
<1>4. CASE Suppressed
  <2>1. UNCHANGED <<blocks, reconstructed>> /\ ~done /\ done' = done
    BY <1>4 DEF Suppressed, Next_pc
  <2>2. Text(reconstructed, blocks)'
    BY <2>1
  <2>3. ClosedAtTheEnd'
    BY <2>1 DEF ClosedAtTheEnd
  <2> QED
    BY <1>4, <2>2, <2>3, SuppressedControl
<1>5. ASSUME NEW ops, Handles(ops), "FOR_ITER" \notin ops, Next_pc(pc + 1),
             UNCHANGED blocks, Text(reconstructed, blocks)'
      PROVE  TInv'
  BY <1>1, <1>5, PassedControl
<1>6. CASE Quiet
  <2>1. /\ Handles({"GET_ITER", "POP_TOP", "RETURN_NONE"}) /\ Next_pc(pc + 1)
        /\ UNCHANGED <<blocks, reconstructed>>
    BY <1>6 DEF Quiet
  <2>2. Text(reconstructed, blocks)'
    BY <2>1
  <2> QED
    BY <1>5, <2>1, <2>2
<1>7. CASE WriteStatement
  <2>1. Handles({"STMT", "RETURN_VALUE"}) /\ Next_pc(pc + 1) /\ UNCHANGED blocks
    BY <1>7 DEF WriteStatement
  <2> QED
    BY <1>5, <1>7, <2>1, WriteStatementText
<1>8. CASE OpenFor
  <2>1. Handles({"FOR_ITER"}) /\ Next_pc(pc + 1)
    BY <1>8 DEF OpenFor
  <2> QED
    BY <1>1, <1>8, <2>1, OpenForText, OpenForControl
<1>9. "FOR_ITER" \notin ConditionalJumps
  BY DEF ConditionalJumps
<1>10. CASE JoinCondition
  <2>1. Handles(ConditionalJumps) /\ Next_pc(pc + 1) /\ UNCHANGED blocks
    BY <1>10 DEF JoinCondition
  <2> QED
    BY <1>5, <1>9, <1>10, <2>1, JoinConditionText
<1>11. CASE BreakWhen
  <2>1. ~done /\ done' = done
    BY <1>11, BreakPasses DEF BreakWhen, Handles
  <2>2. ClosedAtTheEnd'
    BY <2>1 DEF ClosedAtTheEnd
  <2> QED
    BY <1>11, <2>2, BreakWhenText, BreakWhenControl
<1>12. CASE OpenIf
  <2>1. Handles(ConditionalJumps) /\ Next_pc(pc + 1)
    BY <1>12 DEF OpenIf
  <2> QED
    BY <1>1, <1>12, <2>1, OpenIfText, OpenIfControl
<1>13. CASE WriteBreak
  <2>1. Handles({"JUMP_FORWARD"}) /\ Next_pc(pc + 1) /\ UNCHANGED blocks
    BY <1>13 DEF WriteBreak
  <2> QED
    BY <1>5, <1>13, <2>1, WriteBreakText
<1>14. CASE OpenElse
  <2>1. Handles({"JUMP_FORWARD"}) /\ Next_pc(pc + 1)
    BY <1>14 DEF OpenElse
  <2> QED
    BY <1>1, <1>14, <2>1, OpenElseText, OpenElseControl
<1>15. CASE StopAtLoop
  <2>1. Handles({"JUMP_FORWARD"}) /\ Next_pc(pc + 1)
    BY <1>15 DEF StopAtLoop
  <2> QED
    BY <1>1, <1>15, <2>1, StopAtLoopText, StopAtLoopControl
<1>16. CASE IgnoreForwardJump
  <2>1. Handles({"JUMP_FORWARD"}) /\ Next_pc(pc + 1) /\ UNCHANGED <<blocks, reconstructed>>
    BY <1>16 DEF IgnoreForwardJump
  <2>2. Text(reconstructed, blocks)'
    BY <2>1
  <2> QED
    BY <1>5, <2>1, <2>2
<1>17. CASE WriteContinue \/ ContinueAtLastBackJump
  <2>1. Handles({"JUMP_BACKWARD"}) /\ Next_pc(pc + 1) /\ UNCHANGED blocks
    BY <1>17 DEF WriteContinue, ContinueAtLastBackJump
  <2> QED
    BY <1>5, <1>17, <2>1, WriteContinueText
<1>18. CASE OpenElseAtBackJump
  <2>1. Handles({"JUMP_BACKWARD"}) /\ Next_pc(pc + 1)
    BY <1>18 DEF OpenElseAtBackJump
  <2> QED
    BY <1>1, <1>18, <2>1, OpenElseAtBackJumpText, OpenElseAtBackJumpControl
<1>19. CASE IgnoreBackJump \/ CloseLoop
  <2>1. Handles({"JUMP_BACKWARD"}) /\ Next_pc(pc + 1) /\ UNCHANGED <<blocks, reconstructed>>
    BY <1>19 DEF IgnoreBackJump, CloseLoop
  <2>2. Text(reconstructed, blocks)'
    BY <2>1
  <2> QED
    BY <1>5, <2>1, <2>2
<1>20. CASE RewriteIfAsWhile
  <2>1. Handles({"JUMP_BACKWARD"}) /\ Next_pc(pc + 1)
    BY <1>20 DEF RewriteIfAsWhile
  <2> QED
    BY <1>1, <1>20, <2>1, RewriteIfAsWhileText, RewriteControl
<1>21. CASE Finish
  <2>1. /\ prog' = prog /\ pc' = pc /\ blocks = << >> /\ blocks' = blocks
    BY <1>21 DEF Finish
  <2>2. pc' >= pc /\ \A i \in DOMAIN code : ~(pc <= i /\ i < pc')
    BY <2>1, JumpFacts
  <2>3. ClosedAtTheEnd'
    BY <2>1 DEF ClosedAtTheEnd
  <2> QED
    BY <1>21, <2>1, <2>2, <2>3, FinishText, UnmovedControl
<1>22. CASE UNCHANGED vars
  <2>1. /\ prog' = prog /\ pc' = pc /\ blocks' = blocks /\ reconstructed' = reconstructed /\ done' = done
    BY <1>22 DEF vars
  <2>2. pc' >= pc /\ \A i \in DOMAIN code : ~(pc <= i /\ i < pc')
    BY <2>1, JumpFacts
  <2>3. Text(reconstructed, blocks)' /\ ClosedAtTheEnd'
    BY <2>1 DEF ClosedAtTheEnd
  <2> QED
    BY <2>1, <2>2, <2>3, UnmovedControl
<1> QED
  BY <1>2, <1>3, <1>4, <1>6, <1>7, <1>8, <1>10, <1>11, <1>12, <1>13, <1>14, <1>15, <1>16,
     <1>17, <1>18, <1>19, <1>20, <1>21, <1>22 DEF Next

(* What the invariant says of the finished text. *)
LEMMA TInvParses == ASSUME IInv, TInv PROVE TextParses
<1> SUFFICES ASSUME done, NEW k \in DOMAIN reconstructed
             PROVE  /\ reconstructed[k].word \in Headers =>
                          k < Len(reconstructed) /\ reconstructed[k + 1].indent = reconstructed[k].indent + 1
                    /\ reconstructed[k].word \notin Headers /\ k < Len(reconstructed) =>
                          reconstructed[k + 1].indent <= reconstructed[k].indent
                    /\ reconstructed[k].word = "else" => \E h \in 1 .. k - 1 : OwnsElse(h, k)
                    /\ reconstructed[k].word \in {"break", "continue"} =>
                          \E h \in EnclosingHeaders(k) : reconstructed[h].word \in Loops
  BY DEF TextParses
<1> DEFINE n == Len(reconstructed)
<1>1. /\ n \in Nat /\ DOMAIN reconstructed = 1 .. n
      /\ \A j \in 1 .. n : reconstructed[j].indent \in Nat
  BY LevelFacts, LinesFacts
<1>2. /\ Deep(reconstructed) /\ Stepped(reconstructed) /\ Owned(reconstructed)
      /\ Looped(reconstructed) /\ Fits(reconstructed, Base + Len(blocks))
  BY Zenon DEF TInv, Text
<1>3. k < n => /\ reconstructed[k].word \in Headers => reconstructed[k + 1].indent = reconstructed[k].indent + 1
               /\ reconstructed[k].word \notin Headers => reconstructed[k + 1].indent <= reconstructed[k].indent
  <2>1. k < n => k \in 1 .. n - 1
    BY <1>1
  <2> QED
    BY <1>2, <2>1 DEF Stepped
<1>4. reconstructed[n].word \notin Headers
  <2>1. n # 0 /\ n \in 1 .. n
    BY <1>1
  <2>2. Len(blocks) = 0
    BY DEF TInv, ClosedAtTheEnd
  <2>3. reconstructed[n].indent >= Base /\ reconstructed[n].indent \in Nat /\ Base \in Nat
    BY <1>1, <1>2, <2>1, LevelFacts DEF Deep
  <2>4. reconstructed[n].word \in Headers => reconstructed[n].indent + 1 = Base + Len(blocks)
    BY <1>2, <2>1, LevelFacts, FitsAt
  <2>5. reconstructed[n].indent + 1 # Base + Len(blocks)
    BY <2>2, <2>3
  <2> QED
    BY <2>4, <2>5
<1>5. reconstructed[k].word \in Headers => k < n
  BY <1>1, <1>4
<1>6. reconstructed[k].word = "else" => \E h \in 1 .. k - 1 : OwnsElse(h, k)
  <2> SUFFICES ASSUME reconstructed[k].word = "else" PROVE \E h \in 1 .. k - 1 : OwnsElse(h, k)
    OBVIOUS
  <2>1. PICK h \in 1 .. k - 1 : /\ reconstructed[h].indent = reconstructed[k].indent
                                /\ reconstructed[h].word \in {"if", "for", "while"}
                                /\ Deeper(reconstructed, h, k - 1)
    BY <1>2 DEF Owned
  <2>2. h < k
    BY <1>1, <2>1
  <2> QED
    BY <2>1, <2>2 DEF OwnsElse, Deeper
<1>7. reconstructed[k].word \in {"break", "continue"} =>
         \E h \in EnclosingHeaders(k) : reconstructed[h].word \in Loops
  <2> SUFFICES ASSUME reconstructed[k].word \in {"break", "continue"}
               PROVE  \E h \in EnclosingHeaders(k) : reconstructed[h].word \in Loops
    OBVIOUS
  <2>1. PICK h \in 1 .. k - 1 : reconstructed[h].word \in Loops /\ Deeper(reconstructed, h, k)
    BY <1>2 DEF Looped
  <2>2. reconstructed[h].word \in Headers
    BY <2>1 DEF Loops, Headers
  <2> QED
    BY <2>1, <2>2 DEF EnclosingHeaders, Deeper
<1> QED
  BY <1>3, <1>5, <1>6, <1>7

(* Whatever the code's jumps are, as long as its loops are entered at their *)
(* heads: when decompile() returns, every header it wrote has a body and    *)
(* nothing else has, every `else` follows the block it belongs to, and      *)
(* every `break` and `continue` is inside a loop.                           *)
THEOREM TextHolds == Spec => []TextParses
<1> DEFINE Inv == IInv /\ (LoopsEnteredAtHeads => TInv)
<1>1. Init => Inv
  BY InitIInv, InitTInv
<1>2. Inv /\ [Next]_vars => Inv'
  <2> SUFFICES ASSUME Inv, [Next]_vars PROVE Inv'
    OBVIOUS
  <2>1. IInv'
    BY NextIInv
  <2>2. prog' = prog
    <3>1. CASE Next /\ ~WriteStatement /\ ~Finish
      BY <3>1, OtherSteps
    <3>2. CASE WriteStatement
      BY <3>2 DEF WriteStatement, Next_pc
    <3>3. CASE Finish
      BY <3>3 DEF Finish
    <3>4. CASE UNCHANGED vars
      BY <3>4 DEF vars
    <3> QED
      BY <3>1, <3>2, <3>3, <3>4
  <2>3. LoopsEnteredAtHeads' <=> LoopsEnteredAtHeads
    BY <2>2 DEF LoopsEnteredAtHeads, code
  <2> QED
    BY <2>1, <2>3, NextTInv
<1>3. Inv => TextParses
  BY TInvParses DEF TextParses
<1> QED
  BY <1>1, <1>2, <1>3, PTL DEF Spec
=============================================================================
