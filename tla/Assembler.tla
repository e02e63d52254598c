------------------------------ MODULE Assembler ------------------------------
(***************************************************************************)
(* External: what the assembler of each CPython from 3.9 to 3.14 makes of a *)
(* sequence of instructions, as opcodes/decode.py, opcodes/py39.py and      *)
(* analysis/exception_table.py read it back.                                *)
(*                                                                          *)
(* An instruction of the source has a kind, a number n, flags, the place in *)
(* the sequence it jumps to, its line, and how wide the columns of its      *)
(* location are ("near", "far" or "none").                                  *)
(***************************************************************************)
EXTENDS OpcodeTables, FiniteSets, SequencesExt

Jumps == {"forward", "back", "if", "for", "async", "setup"}

(* Which kinds a version has.                                               *)
Has(v, kind) ==
    CASE kind \in {"super"}                   -> v > 11
      [] kind \in {"pair", "loads"}           -> v > 12
      [] kind = "keywords"                    -> v \in {11, 12}
      [] kind = "binary"                      -> v > 10
      [] kind \in {"setup", "call"}           -> v < 11
      [] kind = "small"                       -> v > 13
      [] kind = "function"                    -> v < 13
      [] kind = "convert"                     -> v < 13
      [] OTHER                                -> TRUE

Opcode(v, ins, forward) ==
    CASE ins.kind = "const"    -> "LOAD_CONST"
      [] ins.kind = "keywords" -> "KW_NAMES"
      [] ins.kind = "small"    -> "LOAD_SMALL_INT"
      [] ins.kind = "name"     -> "LOAD_NAME"
      [] ins.kind = "global"   -> "LOAD_GLOBAL"
      [] ins.kind = "attr"     -> IF ins.flags = 1 /\ v < 12 THEN "LOAD_METHOD" ELSE "LOAD_ATTR"
      [] ins.kind = "super"    -> "LOAD_SUPER_ATTR"
      [] ins.kind = "compare"  -> "COMPARE_OP"
      [] ins.kind = "local"    -> "LOAD_FAST"
      [] ins.kind = "cell"     -> "LOAD_DEREF"
      [] ins.kind = "pair"     -> "STORE_FAST_LOAD_FAST"
      [] ins.kind = "loads"    -> "LOAD_FAST_LOAD_FAST"
      [] ins.kind = "forward"  -> "JUMP_FORWARD"
      [] ins.kind = "back"     -> IF v > 10 THEN "JUMP_BACKWARD" ELSE "JUMP_ABSOLUTE"
      [] ins.kind = "if"       -> IF v # 11 THEN "POP_JUMP_IF_FALSE"
                                  ELSE IF forward THEN "POP_JUMP_FORWARD_IF_FALSE" ELSE "POP_JUMP_BACKWARD_IF_FALSE"
      [] ins.kind = "for"      -> "FOR_ITER"
      [] ins.kind = "async"    -> "END_ASYNC_FOR"
      [] ins.kind = "setup"    -> "SETUP_FINALLY"
      [] ins.kind = "convert"  -> "FORMAT_VALUE"
      [] ins.kind = "function" -> "MAKE_FUNCTION"
      [] ins.kind = "call"     -> "CALL_FUNCTION"
      [] ins.kind = "unpack"   -> "UNPACK_EX"
      [] ins.kind = "slice"    -> "BUILD_SLICE"
      [] ins.kind = "binary"   -> "BINARY_OP"
      [] ins.kind = "contains" -> "CONTAINS_OP"
      [] OTHER                 -> "NOP"

(* The variables: b is an argument that is a cell too.                      *)
Varnames == <<"a", "b">>
Cellvars == <<"b", "c">>
Freevars == <<"d">>

Local(x)     == IndexFirstSubSeq(<<x>>, Varnames) - 1
CellOf(v, x) == IF v > 10 THEN IndexFirstSubSeq(<<x>>, <<"a", "b", "c", "d">>) - 1 ELSE IndexFirstSubSeq(<<x>>, Cellvars \o Freevars) - 1

(* The argument of an instruction that is no jump.                          *)
Argument(v, ins) ==
    CASE ins.kind = "global"  -> IF v > 10 THEN 2 * ins.n + ins.flags ELSE ins.n
      [] ins.kind = "attr"    -> IF v > 11 THEN 2 * ins.n + ins.flags ELSE ins.n
      [] ins.kind = "super"   -> 4 * ins.n + ins.flags
      [] ins.kind = "compare" -> IF v > 12 THEN 32 * ins.n + 16 * ins.flags + 8
                                 ELSE IF v = 12 THEN 16 * ins.n + 8 ELSE ins.n
      [] ins.kind = "local"   -> Local(ins.x)
      [] ins.kind = "cell"    -> CellOf(v, ins.x)
      [] ins.kind \in {"pair", "loads"} -> 16 * Local(ins.x) + Local(ins.y)
      [] ins.kind = "convert" -> ins.n + 4 * ins.flags
      [] ins.kind = "unpack"  -> ins.n + BYTE * ins.flags
      [] OTHER                -> ins.n

-----------------------------------------------------------------------------
(* Layout.  A jump may need a longer argument the further the code before   *)
(* it moves it, so the sizes grow until they fit.                           *)

PrefixCount(arg) == IF arg < BYTE THEN 0 ELSE IF arg < BYTE * BYTE THEN 1 ELSE IF arg < BYTE * BYTE * BYTE THEN 2 ELSE 3

Size(v, source, sizes, k) == sizes[k] + 1 + Caches(v, Opcode(v, source[k], source[k].to > k))

Before(v, source, sizes, k) == FoldLeft(LAMBDA sum, j : sum + Size(v, source, sizes, j), 0, [j \in 1 .. k - 1 |-> j])

Distance(v, source, sizes, k) ==
    LET ins  == source[k]
        here == Before(v, source, sizes, k) + sizes[k] + 1
                + (IF v > 11 THEN Caches(v, Opcode(v, ins, ins.to > k)) ELSE 0)
        to   == Before(v, source, sizes, ins.to)
        unit == IF v = 9 THEN 2 ELSE 1
    IN  IF IsAbsolute(v, Opcode(v, ins, ins.to > k)) THEN unit * to
        ELSE unit * (IF to < here THEN here - to ELSE to - here)

IsJump(v, ins) == ins.kind \in Jumps /\ (ins.kind = "async" => v > 13)

ArgumentAt(v, source, sizes, k) ==
    IF IsJump(v, source[k]) THEN Distance(v, source, sizes, k) ELSE Argument(v, source[k])

Grown(v, source, sizes) ==
    LET needed(k) == IF HasArg(v, Opcode(v, source[k], source[k].to > k))
                     THEN PrefixCount(ArgumentAt(v, source, sizes, k)) ELSE 0
    IN  << >> \o [k \in DOMAIN source |-> Max({needed(k), sizes[k]})]

Sizes(v, source) == FoldLeft(LAMBDA sizes, k : Grown(v, source, sizes), [k \in DOMAIN source |-> 0], [k \in 1 .. 4 |-> k])

Digit(arg, k) == (arg \div (IF k = 0 THEN 1 ELSE IF k = 1 THEN BYTE ELSE IF k = 2 THEN BYTE * BYTE ELSE BYTE * BYTE * BYTE)) % BYTE

Units(v, source, sizes) ==
    FlattenSeq([k \in DOMAIN source |->
        LET op  == Opcode(v, source[k], source[k].to > k)
            arg == IF HasArg(v, op) THEN ArgumentAt(v, source, sizes, k) ELSE 0
        IN  [p \in 1 .. sizes[k] |-> [op |-> "EXTENDED_ARG", byte |-> Digit(arg, sizes[k] - p + 1)]]
            \o <<[op |-> op, byte |-> Digit(arg, 0)]>>
            \o [c \in 1 .. Caches(v, op) |-> [op |-> "CACHE", byte |-> 0]]])

-----------------------------------------------------------------------------
(* Numbers in chunks.                                                       *)

(* A number without its m lowest chunks.                                    *)
Shifted(n, m) ==
    LET rest[k \in Nat] == IF k = 0 THEN n ELSE rest[k - 1] \div CHUNK
    IN  rest[m]

Length(n)     == CHOOSE m \in 1 .. n + 1 : Shifted(n, m) = 0 /\ \A j \in 1 .. m - 1 : Shifted(n, j) # 0
Low(n)        == [k \in 1 .. Length(n) |-> [more |-> k < Length(n), bits |-> Shifted(n, k - 1) % CHUNK]]
High(n)       == LET m == Length(n) IN [k \in 1 .. m |-> [more |-> k < m, bits |-> Shifted(n, m - k) % CHUNK]]
SignedLow(d)  == Low(IF d < 0 THEN 2 * (-d) + 1 ELSE 2 * d)

(* Line tables.  A range is the units of the instructions of one location.  *)
Located(line, wide, units) == [line |-> line, wide |-> wide, units |-> units]

RangesOf(v, source, sizes, merging) ==
    LET of(k) == Located(source[k].line, IF v > 10 THEN source[k].wide ELSE "none", Size(v, source, sizes, k))
        add(ranges, k) == LET r == of(k)
                              l == IF ranges = << >> THEN r ELSE Last(ranges)
                          IN  IF merging /\ ranges # << >> /\ l.line = r.line /\ l.wide = r.wide
                              THEN ReplaceAt(ranges, Len(ranges), [l EXCEPT !.units = @ + r.units])
                              ELSE Append(ranges, r)
    IN  FoldLeft(add, << >>, [k \in DOMAIN source |-> k])

(* 3.9: the bytes the line before covers, then the step to the next line.   *)
(* 3.10: the step to the line, and the bytes it covers.  Long distances and *)
(* steps take several entries.                                              *)
MaxByte == BYTE - 1
MaxStep == BYTE \div 2 - 1

Times(n, x) == [k \in 1 .. n |-> x]

Entry(delta, step) == [delta |-> delta, step |-> IF step < 0 THEN step + BYTE ELSE step]

(* The whole steps that come before the last one of a move of d lines.      *)
Whole(d) == IF d > MaxStep THEN (d - 1) \div MaxStep ELSE IF d < -MaxStep THEN ((-d) - 1) \div MaxStep ELSE 0
Sign(d)  == IF d < 0 THEN -1 ELSE 1
Rest(d)  == d - Whole(d) * MaxStep * Sign(d)

Entries39(bytes, step) ==
    LET long  == IF bytes > MaxByte THEN bytes \div MaxByte ELSE 0
        near  == bytes - long * MaxByte
        whole == IF step > MaxStep THEN step \div MaxStep ELSE IF step < -(MaxStep + 1) THEN (-step) \div (MaxStep + 1) ELSE 0
        leap  == IF step > 0 THEN MaxStep ELSE -(MaxStep + 1)
    IN  Times(long, Entry(MaxByte, 0))
        \o (IF whole = 0 THEN <<Entry(near, step)>>
            ELSE <<Entry(near, leap)>> \o Times(whole - 1, Entry(0, leap)) \o <<Entry(0, step - whole * leap)>>)

LineTable39(ranges, first_line) ==
    FlattenSeq([k \in DOMAIN ranges |->
        IF k = 1 /\ ranges[1].line = first_line THEN << >>
        ELSE Entries39(IF k = 1 THEN 0 ELSE 2 * ranges[k - 1].units,
                       ranges[k].line - (IF k = 1 THEN first_line ELSE ranges[k - 1].line))])

(* The bytes an entry of 3.10 may cover are even.                           *)
MaxEven == 2 * (MaxByte \div 2)

Entries310(bytes, step) ==
    LET none == step = -(BYTE \div 2)
        long == (bytes - 1) \div MaxEven
        last == IF none THEN step ELSE Rest(step)
    IN  (IF none THEN << >> ELSE Times(Whole(step), Entry(0, MaxStep * Sign(step))))
        \o [k \in 1 .. long |-> Entry(MaxEven, IF k = 1 \/ none THEN last ELSE 0)]
        \o <<Entry(bytes - long * MaxEven, IF long = 0 \/ none THEN last ELSE 0)>>

LineBefore(ranges, k, first_line) ==
    LET known == {j \in 1 .. k - 1 : ranges[j].line # NoLine}
    IN  IF known = {} THEN first_line ELSE ranges[CHOOSE j \in known : \A i \in known : i <= j].line

LineTable310(ranges, first_line) ==
    FlattenSeq([k \in DOMAIN ranges |->
        Entries310(2 * ranges[k].units,
                   IF ranges[k].line = NoLine THEN -(BYTE \div 2) ELSE ranges[k].line - LineBefore(ranges, k, first_line))])

(* 3.11 and later: an entry covers eight units at most.                     *)
First(kind, units) == [more |-> FALSE, bits |-> 0, code |-> kind, units |-> units]
Column == [more |-> FALSE, bits |-> 0]

Location(range, units, step) ==
    CASE range.line = NoLine                                  -> <<First(15, units)>>
      [] range.line # NoLine /\ range.wide = "none"           -> <<First(13, units)>> \o SignedLow(step)
      [] range.line # NoLine /\ range.wide = "near" /\ step = 0 -> <<First(0, units), Column>>
      [] range.line # NoLine /\ range.wide = "near" /\ step \in {1, 2} -> <<First(10 + step, units), Column, Column>>
      [] OTHER -> <<First(14, units)>> \o SignedLow(step) \o Low(CHUNK) \o Low(1) \o Low(CHUNK + 1)

Locations(range, step) ==
    LET parts == (range.units + 7) \div 8
    IN  FlattenSeq([p \in 1 .. parts |->
            Location(range, IF p < parts THEN 8 ELSE range.units - 8 * (parts - 1), IF p = 1 THEN step ELSE 0)])

LineTable311(ranges, first_line) ==
    FlattenSeq([k \in DOMAIN ranges |->
        Locations(ranges[k], IF ranges[k].line = NoLine THEN 0 ELSE ranges[k].line - LineBefore(ranges, k, first_line))])

LineTable(v, source, sizes, first_line) ==
    IF v = 9 THEN LineTable39(RangesOf(v, source, sizes, TRUE), first_line)
    ELSE IF v = 10 THEN LineTable310(RangesOf(v, source, sizes, TRUE), first_line)
    ELSE LineTable311(RangesOf(v, source, sizes, v > 11), first_line)

(* Exception tables: start, length and target in units.                     *)
HandlerBytes(entry) ==
    High(entry.start) \o High(entry.length) \o High(entry.target) \o High(2 * entry.depth + (IF entry.lasti THEN 1 ELSE 0))

(* The bytes of the first n handlers.                                       *)
HandlerTable(handlers, n) ==
    LET upto[k \in 0 .. n] == IF k = 0 THEN << >> ELSE upto[k - 1] \o HandlerBytes(handlers[k])
    IN  upto[n]

(* The table of the handlers, without its last bytes.                       *)
CutTable(handlers, cut) ==
    LET whole == HandlerTable(handlers, Len(handlers)) IN SubSeq(whole, 1, Len(whole) - cut)

-----------------------------------------------------------------------------
(* The code object of a source, with the table of its handlers cut short.   *)
Assemble(v, source, first_line, handlers, cut) ==
    LET sizes == Sizes(v, source)
    IN  [version |-> v, units |-> Units(v, source, sizes), first_line |-> first_line,
         line_table |-> LineTable(v, source, sizes, first_line),
         handler_table |-> IF v > 10 THEN CutTable(handlers, cut) ELSE << >>,
         varnames |-> Varnames, cellvars |-> Cellvars, freevars |-> Freevars,
         source |-> source, sizes |-> sizes,
         begins |-> [k \in DOMAIN source |-> 2 * Before(v, source, sizes, k)], handlers |-> handlers, cut |-> cut]
==============================================================================
