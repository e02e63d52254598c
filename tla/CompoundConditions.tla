------------------------- MODULE CompoundConditions -------------------------
(***************************************************************************)
(* _prescan_compound_conds (decompiler/generic.py): the conditional jumps   *)
(* of one condition made of `and`, `or` and `not` are found before the main *)
(* pass, and the text of the whole condition is kept for the last of them   *)
(* (compound_cond_map); the main pass skips the others (compound_suppress). *)
(* The atoms are names or calls: chained comparisons are left out.          *)
(***************************************************************************)
EXTENDS Bytecode, SequencesExt

IsTest(ins) == ins.op \in ConditionalJumps

(* _logical_target: through the dropped iterator and the jump of a `break`. *)
LogicalTarget(code) ==
    LET go[t \in DOMAIN code] ==
            IF code[t].op = "POP_TOP" /\ code[t + 1].op = "JUMP_FORWARD"
            THEN go[code[t + 1].target]
            ELSE t
    IN  go

(* _gather_compound_group: the tests from i on, nothing but their operands  *)
(* between them; the last one.                                              *)
GroupEnd(code, i) ==
    Max({j \in i .. Len(code) : \A k \in i .. j : IsTest(code[k])})

(* Where the tests i .. j may jump to if they are one condition: its body,  *)
(* the end of its body or another of its clauses.                           *)
BodyTarget(code, j) == LogicalTarget(code)[j + 1]
EndTarget(code, j) == LogicalTarget(code)[code[j].target]
JumpsTo(code, k) == LogicalTarget(code)[code[k].target]

IsOneCondition(code, i, j) ==
    \A k \in i .. j :
        JumpsTo(code, k) \in {BodyTarget(code, j), EndTarget(code, j)}
                             \cup {LogicalTarget(code)[c] : c \in i .. j}

(* _trim_compound_group: the longest run of two tests or more from i on     *)
(* that is one condition; 0 when there is none.                             *)
ConditionEnd(code, i) ==
    Max({0} \cup {j \in i + 1 .. GroupEnd(code, i) : IsOneCondition(code, i, j)})

(***************************************************************************)
(* _compound_parts: each clause with its text, whether it is joined to the  *)
(* next one by `or`, where its jump goes and where it starts.               *)
(***************************************************************************)
Part(code, i, j, k) ==
    LET target == JumpsTo(code, k)
        ifTrue == code[k].op = "POP_JUMP_IF_TRUE"
        is_or == \/ target = BodyTarget(code, j)
                 \/ target # EndTarget(code, j) /\ ifTrue
    IN  [cond   |-> IF ifTrue = is_or THEN Atom(code[k]) ELSE Word("not") \o Atom(code[k]),
         is_or  |-> is_or,
         has_or |-> FALSE,
         target |-> target,
         start  |-> k]

Parts(code, i, j) == [n \in 1 .. j - i + 1 |-> Part(code, i, j, i + n - 1)]

(* A slip: no parentheses at all. *)
Bare(cond) == cond

Parenthesised(cond) == Word("(") \o cond \o Word(")")

(* The clauses or groups of clauses in a row, each joined to the one before *)
(* by that one's connector (_join_flat, the second half of                  *)
(* _assemble_compound).                                                     *)
Combine(units) ==
    LET Join(left, right) ==
            IF left.is_or
            THEN [right EXCEPT !.cond = left.cond \o Word("or") \o right.cond, !.has_or = TRUE]
            ELSE [right EXCEPT
                    !.cond = (IF left.has_or THEN Parenthesised(left.cond) ELSE left.cond)
                             \o Word("and")
                             \o (IF right.has_or THEN Parenthesised(right.cond) ELSE right.cond)]
    IN  FoldLeft(Join, Head(units), Tail(units))

RECURSIVE Assemble(_, _), Units(_, _, _)

(* _assemble_compound: clauses that jump short of where the context ends    *)
(* are a condition of their own, in parentheses when they hold an `or`;     *)
(* clauses with one target in a row are joined as they stand.               *)
Units(parts, s, exit) ==
    IF s > Len(parts) THEN << >>
    ELSE LET target == parts[s].target
             nested == target < exit
             end == Min({e \in s .. Len(parts) :
                           \/ e = Len(parts)
                           \/ nested /\ parts[e + 1].start >= target
                           \/ ~nested /\ parts[e + 1].target # target})
             sub == IF nested THEN Assemble(SubSeq(parts, s, end), target)
                    ELSE Combine(SubSeq(parts, s, end))
             unit == IF nested /\ sub.has_or
                     THEN [sub EXCEPT !.cond = Parenthesised(sub.cond), !.has_or = FALSE]
                     ELSE sub
         IN  << unit >> \o Units(parts, end + 1, exit)

Assemble(parts, exit) ==
    IF Len(parts) = 1 THEN parts[1] ELSE Combine(Units(parts, 1, exit))

(***************************************************************************)
(* The scan: a condition found at i is passed over as a whole, a test that  *)
(* starts none is left to the main pass.                                    *)
(***************************************************************************)
RECURSIVE ConditionsFrom(_, _)
ConditionsFrom(code, i) ==
    IF i > Len(code) THEN {}
    ELSE IF ~IsTest(code[i]) \/ ConditionEnd(code, i) = 0
         THEN ConditionsFrom(code, i + 1)
         ELSE {<< i, ConditionEnd(code, i) >>} \cup ConditionsFrom(code, ConditionEnd(code, i) + 1)

ConditionText(code, i, j) == Assemble(Parts(code, i, j), EndTarget(code, j)).cond

Prescanned(code) ==
    LET conditions == ConditionsFrom(code, 1)
        texts == {<< c[2], ConditionText(code, c[1], c[2]) >> : c \in conditions}
    IN  [code     |-> code,
         cond     |-> [k \in DOMAIN code |->
                         IF \E t \in texts : t[1] = k THEN (CHOOSE t \in texts : t[1] = k)[2]
                         ELSE << >>],
         suppress |-> UNION {c[1] .. c[2] - 1 : c \in conditions}]
=============================================================================
