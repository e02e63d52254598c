---------------------------- MODULE MC_Compiled ----------------------------
(***************************************************************************)
(* The main pass on compiled code: every function of at most MaxStatements  *)
(* statements nested at most MaxDepth deep, its conditions single atoms.    *)
(***************************************************************************)
EXTENDS Compile311, CompoundConditions

CONSTANTS MaxStatements, MaxDepth, MaxAtoms

CodeOf(bodies) == {Prescanned(Compile(b)) : b \in bodies}

UpTo(statements, depth) == UNION {Bodies(n, depth, FALSE, {AtomCond}) : n \in 1 .. statements}

(* Branches in a loop, too many statements for the set above: an `if` whose  *)
(* branches are themselves one statement or an `if`, and an                  *)
(* if/elif/elif/else, alone or with more of the loop's body after it.        *)
Leaf == {<< Call >>, << Continue >>, << Break >>}
Branching(then, else) == {<< If(AtomCond, b, e) >> : b \in then, e \in else}
Nested == Leaf \cup Branching(Leaf, Leaf \cup {<< >>})

InLoop(tails) ==
    {<< For(b \o tail, << >>) >> :
        b \in Branching(Nested, Nested) \cup Branching(Leaf, Branching(Leaf, Branching(Leaf, Leaf))),
        tail \in tails}

-----------------------------------------------------------------------------
(* Conditions.                                                              *)
RECURSIVE Conditions(_, _)
Conditions(n, leaves) ==
    IF n = 1 THEN leaves
    ELSE UNION {{And(c, d) : c \in Conditions(k, leaves), d \in Conditions(n - k, leaves)}
                \cup {Or(c, d) : c \in Conditions(k, leaves), d \in Conditions(n - k, leaves)}
                : k \in 1 .. n - 1}

PlainConditions(most) == UNION {Conditions(n, {AtomCond}) : n \in 2 .. most}
NegatedConditions(most) == UNION {Conditions(n, {AtomCond, Not(AtomCond)}) : n \in 2 .. most}

(* How often `and` and `or` alternate on the way down to an atom.           *)
RECURSIVE Alternation(_)
Alternation(c) ==
    IF c.kind \in {"atom", "not"} THEN 0
    ELSE LET below(d) == IF d.kind = c.kind THEN Alternation(d) ELSE Alternation(d) + 1
         IN  IF below(c.left) > below(c.right) THEN below(c.left) ELSE below(c.right)

Branched(c) ==
    {<< If(c, << Call >>, << >>) >>,
     << If(c, << Call >>, << Call >>) >>,
     << For(<< If(c, << Call >>, << >>) >>, << >>) >>,
     << For(<< If(c, << Continue >>, << >>), Call >>, << >>) >>}

Broken(c) == << For(<< If(c, << Break >>, << >>), Call >>, << >>) >>

(* What is read back: an `and` of `or`s or an `or` of `and`s, in any branch; *)
(* one chain of `and` or of `or` with negated clauses; a chain before a      *)
(* `break`.                                                                  *)
ChainsBeforeBreak == {Broken(c) : c \in {d \in PlainConditions(MaxAtoms) : Alternation(d) <= 1}}
ChainCodes == {p.code : p \in CodeOf(ChainsBeforeBreak)}
ReadBackConditions(most) ==
    UNION {Branched(c) : c \in {d \in PlainConditions(most) : Alternation(d) <= 2}}
    \cup UNION {Branched(c) : c \in {d \in NegatedConditions(most) : Alternation(d) <= 1}}
    \cup ChainsBeforeBreak

CompiledAndConditions ==
    CodeOf(UpTo(MaxStatements, MaxDepth) \cup InLoop({<< >>, << Call >>}) \cup ReadBackConditions(MaxAtoms))
=============================================================================
