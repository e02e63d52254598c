----------------------------- MODULE MC_Replay -----------------------------
EXTENDS BlockReplay, CompoundConditions

CONSTANT MaxLength

(* The instructions that can follow a prefix of a code object of n           *)
(* instructions: nothing that cannot be reached, no jump out of the code.    *)
Ins(op, id, target) == [op |-> op, id |-> id, target |-> target]
Pieces(prefix, n) ==
    LET i == Len(prefix) + 1
        heads == {h \in 1 .. i - 1 : prefix[h].op = "FOR_ITER" /\ prefix[h].target > i}
    IN  {<< Ins("STMT", i, 0) >>, << Ins("RETURN_VALUE", i, 0) >>}
        \cup {<< Ins(op, i, t) >> : op \in ConditionalJumps, t \in i + 1 .. n}
        \cup {<< Ins("JUMP_FORWARD", 0, t) >> : t \in i + 1 .. n}
        \cup {<< Ins("JUMP_BACKWARD", 0, t) >> : t \in heads}
        \cup {<< Ins("POP_TOP", 0, 0), Ins("JUMP_FORWARD", 0, t) >> : t \in i + 2 .. n}
        \cup {<< Ins("GET_ITER", i, 0), Ins("FOR_ITER", i, t) >> : t \in i + 2 .. n}

IsReached(prefix) ==
    \/ prefix = << >> \/ ~Leaves(Last(prefix))
    \/ \E j \in DOMAIN prefix : prefix[j].target = Len(prefix) + 1

RECURSIVE CodesFrom(_, _)
CodesFrom(prefix, n) ==
    IF Len(prefix) >= n \/ ~IsReached(prefix) THEN {}
    ELSE IF Len(prefix) = n - 1 THEN {Append(prefix, Ins("RETURN_NONE", 0, 0))}
    ELSE UNION {CodesFrom(prefix \o p, n) : p \in Pieces(prefix, n)}

(* Longer code: `continue`, `if`/`else` and an `if` in an `if` at the end of *)
(* a loop's body; and a loop that the end of an `if` falls into, and an `if` *)
(* whose last jump back is taken for a `while`, which no compiler writes and *)
(* pycrefine reads all the same.                                             *)
F(i, t) == Ins("POP_JUMP_IF_FALSE", i, t)
S(i) == Ins("STMT", i, 0)
G(i) == Ins("GET_ITER", i, 0)
I(i, t) == Ins("FOR_ITER", i, t)
J(t) == Ins("JUMP_FORWARD", 0, t)
B(t) == Ins("JUMP_BACKWARD", 0, t)
HandAssembled ==
    {<< G(1), I(1, 7), F(3, 5), B(2), S(5), B(2), Ins("RETURN_NONE", 0, 0) >>,
     << G(1), I(1, 8), F(3, 6), S(4), B(2), S(6), B(2), Ins("RETURN_NONE", 0, 0) >>,
     << G(1), I(1, 8), F(3, 7), F(4, 7), S(5), B(2), B(2), Ins("RETURN_NONE", 0, 0) >>,
     << F(1, 5), G(2), I(2, 6), J(5), S(5), Ins("RETURN_NONE", 0, 0) >>,
     << G(1), I(1, 16), F(3, 12), F(4, 11), G(5), I(5, 11), F(7, 10), Ins("POP_TOP", 0, 0), J(14),
        B(6), B(2), F(12, 14), S(13), S(14), S(15), Ins("RETURN_NONE", 0, 0) >>}

AnyCode == {Prescanned(c) : c \in HandAssembled \cup UNION {CodesFrom(<< >>, n) : n \in 1 .. MaxLength}}
MCPrograms == AnyCode
=============================================================================
