--------------------------- MODULE DecodeRoundTrip ---------------------------
(***************************************************************************)
(* What CPython's assembler wrote, read back: the instructions, their       *)
(* lines, the handlers and the depth of the stack are those of the source.  *)
(***************************************************************************)
EXTENDS Decode, Assembler

CONSTANT Hosts               \* the versions pycrefine may run on

Handler == [start : Nat, length : Nat, target : Nat, depth : Nat, lasti : BOOLEAN]

(* Since 3.11 a code object has a table of handlers, which may be cut off.  *)
HasHandlerTable(c) ==
    /\ c.handlers \in Seq(Handler)
    /\ c.cut \in 0 .. Len(HandlerTable(c.handlers, Len(c.handlers)))
    /\ c.handler_table = CutTable(c.handlers, c.cut)

ASSUME CodesAssumption == \A c \in Codes : c.version \in Versions /\ (c.version > 10 => HasHandlerTable(c))

Source == code.source
Done   == phase \in {"done", "ValueError"}

-----------------------------------------------------------------------------
(* What each instruction of the source means.                               *)

(* The offset at which an instruction begins, prefixes included.            *)
Begin(k) == code.begins[k]
At(k)    == Begin(k) + 2 * code.sizes[k]

Meaning(k) ==
    LET ins == Source[k]
    IN  CASE ins.kind = "const"    -> <<<<"const", ins.n>>>>
          [] ins.kind = "keywords" -> <<IF version = 11 THEN <<"unknown">> ELSE <<"const", ins.n>>>>
          [] ins.kind \in {"name", "global", "attr", "super"} -> <<<<"name", ins.n>>>>
          [] ins.kind = "compare"  -> <<<<"compare", ins.n>>>>
          [] ins.kind \in {"local", "cell"} -> <<<<"variable", ins.x>>>>
          [] ins.kind = "loads"    -> <<<<"pair", <<ins.x, ins.y>>>>>>
          [] ins.kind = "pair"     -> <<<<"variable", ins.x>>, <<"variable", ins.y>>>>
          [] ins.kind = "convert"  -> <<IF version = 9 THEN <<"arg", ins.n + 4 * ins.flags>> ELSE <<"convert", ins.n, ins.flags>>>>
          [] ins.kind = "unpack"   -> <<<<"arg", ins.n + BYTE * ins.flags>>>>
          [] IsJump(version, ins)        -> <<<<"to", Begin(ins.to)>>>>
          [] ins.kind \in {"nop", "async"} -> <<<<"none">>>>
          [] OTHER                 -> <<<<"arg", ins.n>>>>

(* Whether it pushes a NULL beside its value.                               *)
PushesNull(ins) ==
    \/ ins.kind = "global" /\ version > 10 /\ ins.flags = 1
    \/ ins.kind = "attr" /\ version > 11 /\ ins.flags = 1
    \/ ins.kind = "super" /\ ins.flags % 2 = 1

(* What it adds to the stack.                                               *)
Depth(ins) ==
    CASE ins.kind \in {"const", "name", "local", "cell", "small", "for"} -> 1
      [] ins.kind = "global"   -> IF PushesNull(ins) THEN 2 ELSE 1
      [] ins.kind = "attr"     -> IF ins.flags = 1 THEN 1 ELSE 0
      [] ins.kind = "super"    -> IF PushesNull(ins) THEN -1 ELSE -2
      [] ins.kind = "loads"    -> 2
      [] ins.kind \in {"compare", "if", "binary", "contains"} -> -1
      [] ins.kind = "function" -> (IF version > 10 THEN 0 ELSE -1) - Cardinality({b \in {1, 2, 4, 8} : Bit(ins.n, b) = 1})
      [] ins.kind = "convert"  -> -ins.flags
      [] ins.kind = "call"     -> -ins.n
      [] ins.kind = "unpack"   -> ins.n + ins.flags
      [] ins.kind = "slice"    -> 1 - ins.n
      [] ins.kind = "async"    -> IF version > 10 THEN -2 ELSE -7
      [] OTHER                 -> 0

-----------------------------------------------------------------------------
Body == SelectSeq(Split, LAMBDA ins : ins.op # "EXTENDED_ARG")

(* The pieces an instruction of the source became.                          *)
Pieces(body, k) == SelectSeq(body, LAMBDA ins : ins.offset \in At(k) .. At(k) + 1)

(* A jump leads to the offset of an instruction, which is marked as a       *)
(* target, and no half of a split one is taken for it.  3.9 leaves the      *)
(* prefixes out: there the instruction after them is the first at or past   *)
(* the target.                                                              *)
TargetsAreInstructions(split) ==
    /\ \A j \in 1 .. Len(split) - 1 : split[j].offset < split[j + 1].offset
    /\ \A k \in DOMAIN Source : IsJump(version, Source[k]) =>
          LET target == Begin(Source[k].to)
              found  == SelectSeq(split, LAMBDA ins : ins.offset >= target)
          IN  /\ found # << >>
              /\ IF version > 9 \/ code.sizes[Source[k].to] = 0
                 THEN found[1].offset = target /\ found[1].is_target
                 ELSE found[1].offset = At(Source[k].to)

(* decode_instructions(), _disassemble() and split_superinstructions(): the *)
(* instructions are those of the source, in order, each with its operand    *)
(* and its NULL, whatever the version packs into an argument, however many  *)
(* prefixes the argument takes, and wherever the caches are; a jump leads   *)
(* where an instruction with its prefixes begins, and finds it there.       *)
ReadAsWritten ==
    Done =>
        LET split == Split
            body  == SelectSeq(split, LAMBDA ins : ins.op # "EXTENDED_ARG")
        IN  /\ FlattenSeq(<< >> \o [k \in DOMAIN Source |-> Meaning(k)]) = [j \in DOMAIN body |-> body[j].value]
            /\ \A k \in DOMAIN Source :
                  LET pieces == Pieces(body, k)
                  IN  /\ [j \in DOMAIN pieces |-> pieces[j].value] = Meaning(k)
                      /\ pieces[1].null = PushesNull(Source[k])
            /\ TargetsAreInstructions(split)

(* line_starts() and _lnotab_line_starts(): the line an instruction is on,  *)
(* which is that of the last start before it, is the line of the source,    *)
(* however long the steps and the ranges are and whatever has no line.  On  *)
(* 3.9 a start at a prefix is lost with the prefix.                         *)
LineAt(split, k) ==
    LET before == SelectSeq(split, LAMBDA ins : ins.offset < At(k) + 2 /\ ins.line # NoLine)
    IN  IF before = << >> THEN NoLine ELSE Last(before).line

StartsAtPrefix == version = 9 /\ \E k \in DOMAIN Source : code.sizes[k] > 0 /\ (k > 1 => Source[k - 1].line # Source[k].line)

LinesAreTheSources ==
    Done /\ ~StartsAtPrefix =>
        LET split == Split
        IN  \A k \in DOMAIN Source :
                /\ Source[k].line # NoLine => LineAt(split, k) = Source[k].line
                /\ \A ins \in ToSet(Pieces(split, k)) : ins.line \in {NoLine, Source[k].line}

(* parse_exception_table(): the entries are those the compiler wrote, in    *)
(* order; bytes that end inside an entry raise, and never give an entry.    *)
Complete == [j \in DOMAIN code.handlers |->
    LET h == code.handlers[j] IN [start |-> 2 * h.start, end |-> 2 * (h.start + h.length), target |-> 2 * h.target,
                                  depth |-> h.depth, lasti |-> h.lasti]]

BytesOf(n) == Len(HandlerTable(code.handlers, n))

HandlersAreTheSources ==
    Done /\ version > 10 =>
        LET whole == {n \in 0 .. Len(code.handlers) : BytesOf(n) <= BytesOf(Len(code.handlers)) - code.cut}
            most  == CHOOSE n \in whole : \A m \in whole : m <= n
        IN  /\ entries = SubSeq(Complete, 1, most)
            /\ (phase = "ValueError") = (BytesOf(most) < BytesOf(Len(code.handlers)) - code.cut)

(* stack_effect() and generate_opcode_tables.py: what an instruction adds   *)
(* to the stack, as the table of its version has it, is what the            *)
(* interpreter of that version does, for arguments of any length and for    *)
(* the halves of a split instruction.                                       *)
Added(body, host, k) == FoldLeft(LAMBDA sum, ins : sum + EffectOf(ins, host), 0, Pieces(body, k))

EffectsAreTheVersions ==
    Done =>
        LET body == Body
        IN  \A host \in Hosts : (version = 9 => host = 9) =>
                \A k \in DOMAIN Source : Added(body, host, k) = Depth(Source[k])

(* DecompilerBase._stack_effect() says that it gives the effect "under the  *)
(* version that wrote it", for every version it reads on any host.          *)
EffectsOnAnyHost ==
    Done => LET body == Body IN \A host \in Hosts : \A k \in DOMAIN Source : Added(body, host, k) = Depth(Source[k])
==============================================================================
