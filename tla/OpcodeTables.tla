----------------------------- MODULE OpcodeTables -----------------------------
(***************************************************************************)
(* opcodes/tables.py, opcodes/py39.py and the script that writes the first, *)
(* quality/generate_opcode_tables.py: what each opcode of CPython 3.9 to    *)
(* 3.14 takes for an argument, how many cache units follow it and what it   *)
(* does to the depth of the stack.                                          *)
(*                                                                          *)
(* A version is its minor number.  The opcodes are the ones a reader can    *)
(* confuse: each kind of argument, each way of packing one, and the jumps.  *)
(*                                                                          *)
(* A byte of an argument has BYTE values instead of 256, so that arguments  *)
(* of several bytes are small.                                              *)
(***************************************************************************)
EXTENDS Integers, Sequences

CONSTANTS BYTE,              \* the values of a byte of an argument
          CHUNK              \* the values of a chunk of a number in a table, 64 in the code

ASSUME ByteAssumption  == BYTE \in Nat \ {0, 1}
ASSUME ChunkAssumption == CHUNK \in Nat \ {0, 1}

NoLine == -1

Versions == 9 .. 14

Constants == {"LOAD_CONST", "KW_NAMES", "RETURN_CONST"}
Named     == {"LOAD_NAME", "LOAD_GLOBAL", "LOAD_ATTR", "LOAD_METHOD", "LOAD_SUPER_ATTR"}
Locals    == {"LOAD_FAST", "STORE_FAST", "LOAD_FAST_LOAD_FAST", "STORE_FAST_LOAD_FAST"}
PAIR_OPS  == {"LOAD_FAST_LOAD_FAST", "STORE_FAST_LOAD_FAST"}
Setups    == {"SETUP_FINALLY"}
Flags     == {"FORMAT_VALUE", "MAKE_FUNCTION", "CONVERT_VALUE", "SET_FUNCTION_ATTRIBUTE", "BINARY_OP", "IS_OP",
              "CONTAINS_OP", "CALL_FUNCTION", "UNPACK_EX", "BUILD_SLICE", "LOAD_SMALL_INT"}

(* The kinds of argument: hasconst, hasname, hasjrel, hasjabs, haslocal,    *)
(* hasfree, hascompare, hasarg.                                             *)
Conditional == {"POP_JUMP_IF_FALSE", "POP_JUMP_FORWARD_IF_FALSE", "POP_JUMP_BACKWARD_IF_FALSE"}

IsAbsolute(v, op) == op = "JUMP_ABSOLUTE" \/ (op = "POP_JUMP_IF_FALSE" /\ v < 11)

IsRelative(v, op) ==
    \/ op \in {"JUMP_FORWARD", "JUMP_BACKWARD", "FOR_ITER", "SEND"} \cup Setups
    \/ op \in Conditional /\ v > 10
    \/ op = "END_ASYNC_FOR" /\ v > 13

IsLocal(v, op) == op \in Locals \/ (op = "LOAD_DEREF" /\ v > 13)
IsFree(v, op)  == op = "LOAD_DEREF" /\ v < 14

(* 3.13 and 3.14 make functions without flags; those are set afterwards.    *)
HasArg(v, op) ==
    \/ op \in Constants \cup Named \cup {"COMPARE_OP", "EXTENDED_ARG"} \cup (Flags \ {"MAKE_FUNCTION"})
    \/ op = "MAKE_FUNCTION" /\ v < 13
    \/ IsLocal(v, op) \/ IsFree(v, op) \/ IsRelative(v, op) \/ IsAbsolute(v, op)

(* The units of inline cache that follow an instruction.                    *)
Caches(v, op) ==
    CASE op = "LOAD_GLOBAL"     -> IF v > 11 THEN 4 ELSE IF v = 11 THEN 5 ELSE 0
      [] op = "LOAD_ATTR"       -> IF v > 11 THEN 9 ELSE IF v = 11 THEN 4 ELSE 0
      [] op = "LOAD_METHOD"     -> IF v > 10 THEN 10 ELSE 0
      [] op = "COMPARE_OP"      -> IF v > 11 THEN 1 ELSE IF v = 11 THEN 2 ELSE 0
      [] op = "BINARY_OP"       -> IF v > 13 THEN 5 ELSE 1
      [] op = "CONTAINS_OP"     -> IF v > 12 THEN 1 ELSE 0
      [] op = "LOAD_SUPER_ATTR" -> 1
      [] op = "FOR_ITER"        -> IF v > 11 THEN 1 ELSE 0
      [] op = "SEND"            -> IF v > 11 THEN 1 ELSE 0
      [] op = "JUMP_BACKWARD"   -> IF v > 12 THEN 1 ELSE 0
      [] op = "POP_JUMP_IF_FALSE" -> IF v > 12 THEN 1 ELSE 0
      [] OTHER                  -> 0

-----------------------------------------------------------------------------
(* dis.stack_effect(opcode, arg, jump=False) of each version, for any       *)
(* argument.  Bits(n) counts the flags that bring an operand of their own.  *)
Bit(n, bit) == (n \div bit) % 2
Bits(n)     == Bit(n, 1) + Bit(n, 2) + Bit(n, 4) + Bit(n, 8)

Effect(v, op, arg) ==
    CASE op \in {"LOAD_CONST", "LOAD_NAME", "LOAD_METHOD", "LOAD_FAST", "LOAD_DEREF", "FOR_ITER", "LOAD_SMALL_INT"} -> 1
      [] op = "LOAD_GLOBAL"         -> IF v > 10 THEN 1 + (arg % 2) ELSE 1
      [] op = "LOAD_ATTR"           -> IF v > 11 THEN arg % 2 ELSE 0
      [] op = "LOAD_SUPER_ATTR"     -> (arg % 2) - 2
      [] op = "LOAD_FAST_LOAD_FAST" -> 2
      [] op \in Conditional \cup {"STORE_FAST", "STORE_NAME", "SET_UPDATE", "POP_JUMP_IF_TRUE",
                                    "COMPARE_OP", "BINARY_OP", "IS_OP", "CONTAINS_OP", "SET_FUNCTION_ATTRIBUTE"} -> -1
      [] op = "MAKE_FUNCTION"       -> IF v > 12 THEN 0 ELSE IF v > 10 THEN -Bits(arg) ELSE -1 - Bits(arg)
      [] op = "FORMAT_VALUE"        -> -Bit(arg, 4)
      [] op \in {"CALL_FUNCTION", "RAISE_VARARGS"} -> -arg
      [] op = "UNPACK_EX"           -> (arg % BYTE) + (arg \div BYTE)
      [] op = "BUILD_SLICE"         -> IF v > 13 THEN 1 - arg ELSE IF arg = 3 THEN -2 ELSE -1
      [] op = "END_ASYNC_FOR"       -> IF v > 10 THEN -2 ELSE -7
      [] OTHER                      -> 0

(* The name that the number of an opcode of 3.9 has on a host: 3.13 changed *)
(* the numbers of all of them.                                              *)
On13 == [LOAD_CONST |-> "POP_JUMP_IF_TRUE", LOAD_NAME |-> "RAISE_VARARGS", LOAD_GLOBAL |-> "UNPACK_EX",
         LOAD_ATTR |-> "SET_FUNCTION_ATTRIBUTE", COMPARE_OP |-> "SET_UPDATE", FOR_ITER |-> "LOAD_SUPER_ATTR",
         JUMP_FORWARD |-> "STORE_FAST", POP_JUMP_IF_FALSE |-> "STORE_NAME"]

NameOn(host, op) ==
    IF host < 11 THEN op
    ELSE IF host < 13 THEN (IF op = "CALL_FUNCTION" THEN "GET_AWAITABLE" ELSE op)
    ELSE IF op \in DOMAIN On13 THEN On13[op] ELSE op

(* The script asks for the effect of every argument of one byte, and keeps  *)
(* it as one number, as a line, or as runs of equal numbers.                *)
Values(v, op) == [a \in 0 .. BYTE - 1 |-> Effect(v, op, a)]

IsLine(values) == \A a \in DOMAIN values : values[a] = values[0] + a * (values[1] - values[0])

RunEnd(values, a) ==
    CHOOSE b \in a .. BYTE - 1 : /\ \A x \in a .. b : values[x] = values[a]
                                 /\ b < BYTE - 1 => values[b + 1] # values[a]

Runs(values) ==
    LET starts == {a \in DOMAIN values : a = 0 \/ values[a - 1] # values[a]}
    IN  [a \in starts |-> [effect |-> values[a], count |-> RunEnd(values, a) - a + 1]]

StackEntry(v, op) ==
    IF ~HasArg(v, op) THEN [kind |-> "c", effect |-> Effect(v, op, 0)]
    ELSE LET values == Values(v, op)
         IN  IF IsLine(values) THEN [kind |-> "lin", slope |-> values[1] - values[0], base |-> values[0]]
             ELSE [kind |-> "rle", runs |-> Runs(values)]

(* A slip: what the runs of one byte say of longer arguments.               *)
StackEffectByRuns(v, op, arg) ==
    LET entry == StackEntry(v, op)
        run   == CHOOSE a \in DOMAIN entry.runs : a <= arg % BYTE /\ arg % BYTE < a + entry.runs[a].count
    IN  CASE entry.kind = "c"   -> entry.effect
          [] entry.kind = "lin" -> entry.slope * arg + entry.base
          [] OTHER              -> entry.runs[run].effect

(* decode.stack_effect(): the same number, read off the table.              *)
StackEffect(v, op, arg) ==
    LET entry == StackEntry(v, op)
        index == arg % BYTE
        run   == CHOOSE a \in DOMAIN entry.runs : a <= index /\ index < a + entry.runs[a].count
    IN  IF entry.kind = "c" THEN entry.effect
        ELSE IF op = "UNPACK_EX" THEN (arg % BYTE) + (arg \div BYTE)
        ELSE IF op = "BUILD_SLICE" /\ v < 14 THEN (IF arg = 3 THEN -2 ELSE -1)
        ELSE IF entry.kind = "lin" THEN entry.slope * arg + entry.base
        ELSE entry.runs[run].effect
==============================================================================
