---------------------------- MODULE MC_RoundTrip ----------------------------
(***************************************************************************)
(* The round trip for TLC: compiled functions with branches and loops, and  *)
(* one condition of up to MaxAtoms atoms wherever its jumps go: an `if`, an *)
(* `if`/`else`, the end of a loop's body, a `continue` and a `break`.       *)
(***************************************************************************)
EXTENDS MC_Compiled, RoundTrip

(* Functions with branches and loops.  Three shapes are not read back.      *)
(* A `break` at the end of a loop's body whose jump would go to the next    *)
(* instruction, and so was left out: only the POP_TOP before it remains.    *)
EndsInBreak(c) ==
    \E i, j \in DOMAIN c : c[i].op = "POP_TOP" /\ c[j].op = "FOR_ITER" /\ c[j].target = i + 1

(* An `if` with an `else` whose first branch goes on after the `else` on one *)
(* path (the jump j) and leaves by its last instruction on another.          *)
LeavesBeforeElse(c) ==
    \E i, j \in DOMAIN c :
        LET else == c[i].target
            last == c[else - 1]
        IN  /\ c[i].op \in ConditionalJumps
            /\ i < j /\ j < else - 1 /\ c[j].op \in UnconditionalJumps /\ c[j - 1].op # "POP_TOP"
            /\ c[j].target \notin i .. else
            /\ \/ last.op = "RETURN_VALUE"
               \/ last.op \in UnconditionalJumps /\ last.target # c[j].target

(* Two tests in a row, the first of which jumps to a `break`: they are one   *)
(* condition to the prescan when the `break` goes where the second one does. *)
JumpsToBreak(c) ==
    \E i \in 1 .. Len(c) - 1 :
        c[i].op \in ConditionalJumps /\ c[i + 1].op \in ConditionalJumps
        /\ c[c[i].target].op = "POP_TOP"

-----------------------------------------------------------------------------
(* The code whose text is compared with it: all of Programs, or what is     *)
(* known to be read back.                                                   *)
AnyCode(c) == TRUE
Comparable(c) == ~EndsInBreak(c) /\ ~LeavesBeforeElse(c) /\ (JumpsToBreak(c) => c \in ChainCodes)

MCCompiledAndConditions == CompiledAndConditions
=============================================================================
