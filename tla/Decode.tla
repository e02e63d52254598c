------------------------------- MODULE Decode -------------------------------
(***************************************************************************)
(* Reading a code object without the host's dis: decode_instructions() of   *)
(* opcodes/decode.py for 3.10 to 3.14, Decompiler39._disassemble() for 3.9, *)
(* the line tables of each, parse_exception_table() and                     *)
(* split_superinstructions().                                               *)
(*                                                                          *)
(* co_code is a sequence of units, an opcode and a byte of its argument; a  *)
(* unit is two bytes long.  A number of a line or an exception table is     *)
(* chunks of CHUNK values (64 in the code), each saying whether more        *)
(* follow.  Constants and names are their index.                            *)
(***************************************************************************)
EXTENDS OpcodeTables, FiniteSets, SequencesExt

CONSTANT Codes               \* the code objects to read

VARIABLES code,              \* the code object
          phase,             \* "units", "lines", "handlers", "done" or the error
          unit,              \* how many units have been read
          skip,              \* how many cache units come next
          extended,          \* the argument so far, from EXTENDED_ARG
          raw,               \* the instructions as they were read
          at,                \* how much of the line table or the exception table has been read
          line, addr,        \* the line and the offset the line table has reached
          ranges,            \* the ranges of the line table
          entries            \* the entries of the exception table

vars == <<code, phase, unit, skip, extended, raw, at, line, addr, ranges, entries>>

NoArg    == -1
Unset    == -2
NoTarget == -1

(* Four EXTENDED_ARG bytes fill a C int, whose upper half is negative.      *)
INT_OVERFLOW == (BYTE * BYTE * BYTE * BYTE) \div 2

version == code.version

Init ==
    /\ code \in Codes
    /\ phase = "units" /\ unit = 0 /\ skip = 0 /\ extended = 0 /\ raw = << >>
    /\ at = 0 /\ line = code.first_line /\ addr = 0 /\ ranges = << >>
    /\ entries = << >>

-----------------------------------------------------------------------------
(* Units.                                                                   *)

Here == code.units[unit + 1]

Reading(what) == phase = what /\ UNCHANGED code
Keeping == UNCHANGED <<at, line, addr, ranges, entries>>

Wrapped(arg) == IF version > 10 /\ arg >= INT_OVERFLOW THEN arg - 2 * INT_OVERFLOW ELSE arg

SkipCache ==
    /\ Reading("units") /\ unit < Len(code.units) /\ skip > 0
    /\ unit' = unit + 1 /\ skip' = skip - 1
    /\ UNCHANGED <<phase, extended, raw>> /\ Keeping

Unpack ==
    /\ Reading("units") /\ unit < Len(code.units) /\ skip = 0 /\ version > 9
    /\ LET takes == HasArg(version, Here.op)
           arg   == IF takes THEN Here.byte + extended ELSE NoArg
       IN  /\ raw' = Append(raw, [offset |-> 2 * unit, op |-> Here.op, arg |-> arg])
           /\ extended' = IF Here.op = "EXTENDED_ARG" THEN Wrapped(arg * BYTE) ELSE 0
    /\ skip' = Caches(version, Here.op)
    /\ unit' = unit + 1
    /\ UNCHANGED phase /\ Keeping

(* 3.9: the prefixes are no instructions, and neither is padding.           *)
Extend39 ==
    /\ Reading("units") /\ unit < Len(code.units) /\ version = 9 /\ Here.op = "EXTENDED_ARG"
    /\ extended' = (extended + Here.byte) * BYTE
    /\ unit' = unit + 1
    /\ UNCHANGED <<phase, skip, raw>> /\ Keeping

Unpack39 ==
    /\ Reading("units") /\ unit < Len(code.units) /\ version = 9 /\ Here.op # "EXTENDED_ARG"
    /\ LET arg == IF HasArg(9, Here.op) THEN extended + Here.byte ELSE NoArg
       IN  raw' = IF Here.op = "PADDING" THEN raw
                  ELSE Append(raw, [offset |-> 2 * unit, op |-> Here.op, arg |-> arg])
    /\ extended' = 0
    /\ unit' = unit + 1
    /\ UNCHANGED <<phase, skip>> /\ Keeping

UnitsRead ==
    /\ Reading("units") /\ unit = Len(code.units)
    /\ phase' = "lines"
    /\ UNCHANGED <<unit, skip, extended, raw>> /\ Keeping

-----------------------------------------------------------------------------
(* Numbers of several chunks: the first chunk is the lowest in a location   *)
(* table, and the highest in an exception table.                            *)

LastChunk(table, i) ==
    IF \E j \in i .. Len(table) : ~table[j].more
    THEN CHOOSE j \in i .. Len(table) : ~table[j].more /\ \A k \in i .. j - 1 : table[k].more
    ELSE 0

Upwards(table, i, j)   == FoldRight(LAMBDA byte, value : value * CHUNK + byte.bits, SubSeq(table, i, j), 0)

(* A slip: the lowest chunk comes first in both tables.                     *)
LowestFirst(table, i, j) == FoldRight(LAMBDA byte, value : value * CHUNK + byte.bits, SubSeq(table, i, j), 0)
Downwards(table, i, j) ==
    LET value[k \in i - 1 .. j] == IF k < i THEN 0 ELSE value[k - 1] * CHUNK + table[k].bits
    IN  value[j]

(* Signed numbers keep their sign in the lowest bit.                        *)
Signed(number) == IF number % 2 = 1 THEN -(number \div 2) ELSE number \div 2

-----------------------------------------------------------------------------
(* Lines.                                                                   *)

Table == code.line_table

LinesKeep == UNCHANGED <<phase, unit, skip, extended, raw, entries>>

(* 3.9: an entry says how far its line reaches, and then by how much the    *)
(* line changes; reading stops past the code.                               *)
PastCode == addr >= 2 * Len(code.units)

(* A slip: half of the range is a step forward.                             *)
LineStepPastHalf(byte) == IF byte > BYTE \div 2 THEN byte - BYTE ELSE byte

LineStep(byte) == IF byte >= BYTE \div 2 THEN byte - BYTE ELSE byte

LineEntry39 ==
    /\ Reading("lines") /\ version = 9 /\ at < Len(Table) /\ ~PastCode
    /\ LET entry == Table[at + 1]
       IN  /\ ranges' = IF entry.delta > 0 THEN Append(ranges, <<addr, line>>) ELSE ranges
           /\ addr' = addr + entry.delta
           /\ line' = IF addr' >= 2 * Len(code.units) THEN line ELSE line + LineStep(entry.step)
    /\ at' = at + 1
    /\ LinesKeep

(* 3.10: an entry says how many bytes its line covers; the lowest step is   *)
(* no line.                                                                 *)
LineEntry310 ==
    /\ Reading("lines") /\ version = 10 /\ at < Len(Table)
    /\ LET entry   == Table[at + 1]
           none    == LineStep(entry.step) = -(BYTE \div 2)
           current == IF none THEN NoLine ELSE line + LineStep(entry.step)
       IN  /\ line' = IF none THEN line ELSE current
           /\ ranges' = IF entry.delta > 0 THEN Append(ranges, <<addr, current>>) ELSE ranges
           /\ addr' = addr + entry.delta
    /\ at' = at + 1
    /\ LinesKeep

(* 3.11: the first byte of an entry says what kind it is, and so what else  *)
(* follows, and how many units it covers.                                   *)
LineEntry311 ==
    /\ Reading("lines") /\ version > 10 /\ at < Len(Table)
    /\ LET first  == Table[at + 1]
           number == LastChunk(Table, at + 2)
           after(n) == FoldLeft(LAMBDA i, k : LastChunk(Table, i + 1), number, [k \in 1 .. n |-> k])
           moved  == CASE first.code \in {13, 14}     -> line + Signed(Upwards(Table, at + 2, number))
                       [] first.code \in {10, 11, 12} -> line + first.code - 10
                       [] OTHER                       -> line
       IN  /\ line' = moved
           /\ ranges' = Append(ranges, <<addr, IF first.code = 15 THEN NoLine ELSE moved>>)
           /\ at' = CASE first.code = 15            -> at + 1
                      [] first.code = 14            -> after(3)
                      [] first.code = 13            -> number
                      [] first.code \in {10, 11, 12} -> at + 3
                      [] OTHER                      -> at + 2
           /\ addr' = addr + 2 * first.units
    /\ LinesKeep

LinesRead ==
    /\ Reading("lines")
    /\ at = Len(Table) \/ (version = 9 /\ PastCode)
    /\ ranges' = IF version = 9 /\ ~PastCode THEN Append(ranges, <<addr, line>>) ELSE ranges
    /\ phase' = "handlers" /\ at' = 0
    /\ UNCHANGED <<unit, skip, extended, raw, line, addr, entries>>

(* line_starts(): where a line starts.  Until 3.12 a range without a line   *)
(* starts none.                                                             *)
Starting(found, range) ==
    LET new == IF version < 13 THEN range[2] # NoLine /\ range[2] # found.last
               ELSE found.last = Unset \/ range[2] # found.last
    IN  IF new THEN [last |-> range[2], starts |-> found.starts \cup {range}] ELSE found

Starts == FoldLeft(Starting, [last |-> IF version < 13 THEN NoLine ELSE Unset, starts |-> {}], ranges).starts

StartsLine(starts, offset) ==
    IF \E s \in starts : s[1] = offset THEN (CHOOSE s \in starts : s[1] = offset)[2] ELSE NoLine

-----------------------------------------------------------------------------
(* Handlers.  A table that ends inside an entry is an error.                *)

Bytes == code.handler_table

HandlersKeep == UNCHANGED <<unit, skip, extended, raw, line, addr, ranges>>

HandlerEntry ==
    /\ Reading("handlers") /\ version > 10 /\ at < Len(Bytes)
    /\ LET end[n \in 0 .. 4] == IF n = 0 THEN at
                             ELSE IF n > 1 /\ end[n - 1] = 0 THEN 0
                             ELSE LastChunk(Bytes, end[n - 1] + 1)
           number(n)         == Downwards(Bytes, end[n - 1] + 1, end[n])
       IN  IF end[4] = 0
           THEN phase' = "ValueError" /\ UNCHANGED <<at, entries>>
           ELSE /\ entries' = Append(entries, [start  |-> 2 * number(1),
                                              end    |-> 2 * number(1) + 2 * number(2),
                                              target |-> 2 * number(3),
                                              depth  |-> number(4) \div 2,
                                              lasti  |-> number(4) % 2 = 1])
                /\ at' = end[4]
                /\ UNCHANGED phase
    /\ HandlersKeep

HandlersRead ==
    /\ Reading("handlers")
    /\ at = Len(Bytes) \/ version < 11
    /\ phase' = "done"
    /\ UNCHANGED <<at, entries>> /\ HandlersKeep

Next == \/ SkipCache \/ Unpack \/ Extend39 \/ Unpack39 \/ UnitsRead
        \/ LineEntry39 \/ LineEntry310 \/ LineEntry311 \/ LinesRead
        \/ HandlerEntry \/ HandlersRead

Spec == Init /\ [][Next]_vars

-----------------------------------------------------------------------------
(* What an argument stands for.                                             *)

Variables ==
    code.varnames \o SelectSeq(code.cellvars, LAMBDA c : ~Contains(code.varnames, c)) \o code.freevars

Fast == IF version > 10 THEN Variables ELSE code.varnames
Free == IF version > 10 THEN Variables ELSE code.cellvars \o code.freevars

(* From 3.11 some jumps go back.                                            *)
Backward(op) == op \in {"JUMP_BACKWARD", "POP_JUMP_BACKWARD_IF_FALSE"} \/ (op = "END_ASYNC_FOR" /\ version > 13)

(* A slip: the distance counts from before the cache.                       *)
TargetBeforeCache(op, arg, offset) ==
    CASE IsAbsolute(version, op) /\ version = 9 -> arg
      [] IsAbsolute(version, op) /\ version > 9 -> 2 * arg
      [] IsRelative(version, op) /\ version = 9 -> offset + 2 + arg
      [] IsRelative(version, op) /\ version > 9 -> offset + 2 * (1 + (IF Backward(op) THEN -arg ELSE arg))
      [] OTHER                                  -> NoTarget

(* Where a jump leads: from 3.12 the distance counts from the end of the    *)
(* cache.                                                                   *)
JumpTarget(op, arg, offset) ==
    LET far   == IF Backward(op) THEN -arg ELSE arg
        cache == IF version > 11 THEN Caches(version, op) ELSE 0
    IN  CASE IsAbsolute(version, op) /\ version = 9 -> arg
          [] IsAbsolute(version, op) /\ version > 9 -> 2 * arg
          [] IsRelative(version, op) /\ version = 9 -> offset + 2 + arg
          [] IsRelative(version, op) /\ version > 9 -> offset + 2 * (1 + cache + far)
          [] OTHER                                  -> NoTarget

(* The lowest bits of an index of names say that a NULL is pushed, or which *)
(* super() it is.                                                           *)
NameShift(op) ==
    CASE op = "LOAD_SUPER_ATTR" /\ version > 11 -> 4
      [] op = "LOAD_ATTR" /\ version > 11       -> 2
      [] op = "LOAD_GLOBAL" /\ version > 10     -> 2
      [] OTHER                            -> 1

CompareShift == IF version > 12 THEN 32 ELSE IF version = 12 THEN 16 ELSE 1

(* The argval of an instruction.                                            *)
Resolve(op, arg, offset) ==
    CASE op \in Constants /\ (version # 11 \/ op = "LOAD_CONST") -> <<"const", arg>>
      [] op \in Constants /\ version = 11 /\ op # "LOAD_CONST"    -> <<"unknown">>
      [] op \in Named      -> <<"name", arg \div NameShift(op)>>
      [] op \in PAIR_OPS   -> <<"pair", <<Fast[(arg \div 16) + 1], Fast[(arg % 16) + 1]>>>>
      [] IsLocal(version, op) /\ op \notin PAIR_OPS -> <<"variable", Fast[arg + 1]>>
      [] IsFree(version, op) -> <<"variable", Free[arg + 1]>>
      [] op = "COMPARE_OP" -> <<"compare", arg \div CompareShift>>
      [] op = "FORMAT_VALUE" /\ version > 9 -> <<"convert", arg % 4, Bit(arg, 4)>>
      [] IsAbsolute(version, op) \/ IsRelative(version, op) -> <<"to", JumpTarget(op, arg, offset)>>
      [] OTHER             -> <<"arg", arg>>

(* The NULL an instruction pushes beside its value, which argrepr names.    *)
SaysNull(op, arg) == NameShift(op) > 1 /\ op \in Named /\ arg % 2 = 1

Instruction(r, targets, starts) ==
    [offset |-> r.offset, op |-> r.op, arg |-> r.arg,
     value  |-> IF r.arg = NoArg THEN <<"none">> ELSE Resolve(r.op, r.arg, r.offset),
     null   |-> r.arg # NoArg /\ SaysNull(r.op, r.arg),
     line   |-> StartsLine(starts, r.offset), is_target |-> r.offset \in targets]

Targets == {JumpTarget(r.op, r.arg, r.offset) : r \in {raw[k] : k \in DOMAIN raw}} \ {NoTarget}

Instructions ==
    LET targets == Targets
        starts  == Starts
    IN  << >> \o [k \in DOMAIN raw |-> Instruction(raw[k], targets, starts)]

-----------------------------------------------------------------------------
(* split_superinstructions(): STORE_FAST_LOAD_FAST is two instructions, the *)
(* second at an odd offset, where no jump lands.                            *)

Halves(ins) ==
    IF ins.op # "STORE_FAST_LOAD_FAST" THEN <<ins>>
    ELSE <<[ins EXCEPT !.op = "STORE_FAST", !.arg = NoArg, !.value = <<"variable", ins.value[2][1]>>],
           [ins EXCEPT !.op = "LOAD_FAST", !.arg = NoArg, !.value = <<"variable", ins.value[2][2]>>,
                       !.offset = @ + 1, !.line = NoLine, !.is_target = FALSE]>>

Split == LET body == Instructions IN FlattenSeq(<< >> \o [k \in DOMAIN body |-> Halves(body[k])])

(* DecompilerBase._stack_effect(): the table of the code's version, or the  *)
(* dis of the host for a version that has no table.                         *)
EffectOf(ins, host) ==
    LET arg  == IF ins.arg = NoArg THEN 0 ELSE ins.arg
        name == IF version = 9 THEN NameOn(host, ins.op) ELSE ins.op
    IN  IF version > 9 /\ version # host THEN StackEffect(version, ins.op, arg) ELSE Effect(host, name, arg)
==============================================================================
