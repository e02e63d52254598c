------------------------------ MODULE Bytecode ------------------------------
(***************************************************************************)
(* The code objects pycrefine's main pass reads, for the part of Python     *)
(* 3.11 these modules are about: functions made of calls, `if`, `else`,     *)
(* `for`, `break`, `continue` and `return`.                                 *)
(*                                                                          *)
(* An instruction stands for a run of CPython instructions that the main    *)
(* pass handles as one: the loads of a condition and the POP_JUMP_IF_* that *)
(* tests it; a call and the POP_TOP that drops its result; a return value   *)
(* and its RETURN_VALUE; FOR_ITER and the store of its target.  The index   *)
(* of an instruction in its sequence is its offset.                         *)
(*   STMT              id  a call written as a statement                    *)
(*   POP_JUMP_IF_FALSE id  tests the atom id, jumps to target when false    *)
(*   POP_JUMP_IF_TRUE  id  the same, jumping when true                      *)
(*   GET_ITER          id  evaluates the iterable id                        *)
(*   FOR_ITER          id  next item of iterable id, or jump to target      *)
(*   POP_TOP               drops the iterator of the loop being left        *)
(*   JUMP_FORWARD, JUMP_BACKWARD    to target                               *)
(*   RETURN_VALUE      id  an explicit `return id`                          *)
(*   RETURN_NONE           the implicit return at the end of the function   *)
(***************************************************************************)
EXTENDS Naturals, Sequences

Plain == {"STMT", "GET_ITER", "POP_TOP", "RETURN_VALUE", "RETURN_NONE"}
ConditionalJumps == {"POP_JUMP_IF_FALSE", "POP_JUMP_IF_TRUE"}
UnconditionalJumps == {"JUMP_FORWARD", "JUMP_BACKWARD"}
Opcodes == Plain \cup ConditionalJumps \cup UnconditionalJumps \cup {"FOR_ITER"}

(* "JUMP" in the name of the opcode; FOR_ITER has a target but is not one. *)
IsJump(ins) == ins.op \in ConditionalJumps \cup UnconditionalJumps

(* _is_backward_instruction; 3.11 has no JUMP_ABSOLUTE. *)
IsBackward(ins) == ins.op = "JUMP_BACKWARD"

HasTarget(ins) == IsJump(ins) \/ ins.op = "FOR_ITER"

(* Nothing falls through to the instruction after one of these. *)
Leaves(ins) == ins.op \in UnconditionalJumps \cup {"RETURN_VALUE", "RETURN_NONE"}

(* What CPython 3.11 promises of every code object: jumps stay inside the   *)
(* code, only JUMP_BACKWARD goes back, from inside a loop to its FOR_ITER,  *)
(* code nothing reaches has been removed and the last instruction returns.  *)
IsCode(code) ==
    /\ code # << >>
    /\ \A i \in DOMAIN code :
          /\ code[i].op \in Opcodes
          /\ HasTarget(code[i]) => code[i].target \in DOMAIN code
          /\ IsBackward(code[i]) =>
                /\ code[i].target < i
                /\ code[code[i].target].op = "FOR_ITER" /\ i < code[code[i].target].target
          /\ HasTarget(code[i]) /\ ~IsBackward(code[i]) => code[i].target > i
          /\ code[i].op = "RETURN_NONE" => i = Len(code)
          /\ i = Len(code) => code[i].op \in {"RETURN_VALUE", "RETURN_NONE"}
          /\ i > 1 /\ Leaves(code[i - 1]) =>
                \E j \in DOMAIN code : HasTarget(code[j]) /\ code[j].target = i

(* The text of a condition, one token an element; id names an atom. *)
Tokens == [word : {"atom", "not", "and", "or", "(", ")"}, id : Nat]
Word(w) == << [word |-> w, id |-> 0] >>
Atom(ins) == << [word |-> "atom", id |-> ins.id] >>
=============================================================================
