--------------------------- MODULE TextSemantics ---------------------------
(***************************************************************************)
(* What the reconstructed lines mean to Python: which call, test or item is *)
(* evaluated next from a place in the text.  A place is a line about to be  *)
(* run, a loop about to ask for its next item, or a condition some of whose *)
(* atoms are known.  Nothing here is pycrefine's code: it is the reader of  *)
(* its output.                                                              *)
(***************************************************************************)
EXTENDS Naturals, Sequences, FiniteSets, SequencesExt

Place(kind, line, known) == [kind |-> kind, line |-> line, known |-> known]
AtLine(k) == Place("line", k, {})
AtNext(k) == Place("next", k, {})
AtCond(k, known) == Place("cond", k, known)
AtEnd == Place("end", 0, {})
Malformed == Place("malformed", 0, {})

(***************************************************************************)
(* Blocks by indentation.                                                   *)
(***************************************************************************)
HeaderOf(lines, k) == Max({0} \cup {h \in 1 .. k - 1 : lines[h].indent < lines[k].indent})

(* The line after the block that starts at k, in the block k is in or in an *)
(* outer one.                                                               *)
LineAfter(lines, k) ==
    Min({Len(lines) + 1} \cup {j \in k + 1 .. Len(lines) : lines[j].indent <= lines[k].indent})

HasSibling(lines, k) ==
    LineAfter(lines, k) <= Len(lines) /\ lines[LineAfter(lines, k)].indent = lines[k].indent

HasElse(lines, k) == HasSibling(lines, k) /\ lines[LineAfter(lines, k)].word = "else"

(* The place after the statement at k, its `else` included. *)
RECURSIVE After(_, _)
After(lines, k) ==
    IF HasElse(lines, k) THEN After(lines, LineAfter(lines, k))
    ELSE IF HasSibling(lines, k) THEN AtLine(LineAfter(lines, k))
    ELSE LET h == HeaderOf(lines, k)
         IN  IF h = 0 THEN AtEnd
             ELSE CASE lines[h].word = "for" -> AtNext(h)
                    [] lines[h].word = "while" -> AtCond(h, {})
                    [] lines[h].word \in {"if", "else"} -> After(lines, h)
                    [] OTHER -> Malformed

(* The body of the header at k, which Python requires to be there. *)
Enter(lines, k) ==
    IF k < Len(lines) /\ lines[k + 1].indent > lines[k].indent THEN AtLine(k + 1) ELSE Malformed

(* Where an `if` whose condition is false or a loop that has run out goes.  *)
ToElse(lines, k) ==
    IF HasElse(lines, k) THEN Enter(lines, LineAfter(lines, k)) ELSE After(lines, k)

RECURSIVE LoopOf(_, _)
LoopOf(lines, k) ==
    LET h == HeaderOf(lines, k)
    IN  IF h = 0 \/ lines[h].word \in {"for", "while"} THEN h ELSE LoopOf(lines, h)

(***************************************************************************)
(* Conditions: known is the set of atoms with their values so far.          *)
(***************************************************************************)
Depth(cond, i) ==
    Cardinality({j \in 1 .. i : cond[j].word = "("}) - Cardinality({j \in 1 .. i : cond[j].word = ")"})

(* The first operator of this kind outside any parentheses; 0 if none. *)
Outer(cond, word) ==
    LET S == {i \in DOMAIN cond : cond[i].word = word /\ Depth(cond, i) = 0}
    IN  IF S = {} THEN 0 ELSE Min(S)

Value(v) == [known |-> TRUE, value |-> v, atom |-> 0]
Needs(a) == [known |-> FALSE, value |-> FALSE, atom |-> a]

RECURSIVE Evaluate(_, _)
Evaluate(cond, known) ==
    LET or == Outer(cond, "or")
        and == Outer(cond, "and")
        op == IF or # 0 THEN or ELSE and
        left == Evaluate(SubSeq(cond, 1, op - 1), known)
    IN  IF op # 0
        THEN IF left.known /\ left.value = (op = and)
             THEN Evaluate(SubSeq(cond, op + 1, Len(cond)), known)
             ELSE left
        ELSE CASE cond[1].word = "not" ->
                    LET v == Evaluate(Tail(cond), known)
                    IN  IF v.known THEN Value(~v.value) ELSE v
               [] cond[1].word = "(" -> Evaluate(SubSeq(cond, 2, Len(cond) - 1), known)
               [] OTHER ->
                    IF \E v \in BOOLEAN : << cond[1].id, v >> \in known
                    THEN Value(<< cond[1].id, TRUE >> \in known)
                    ELSE Needs(cond[1].id)

(***************************************************************************)
(* Running the text: from a place to the next thing that can be observed,   *)
(* and on from there with its outcome.                                      *)
(***************************************************************************)
Event(what, id) == [what |-> what, id |-> id]

RECURSIVE Settled(_, _)
Settled(lines, p) ==
    LET k == p.line
        word == lines[k].word
        loop == LoopOf(lines, k)
        v == Evaluate(lines[k].cond, p.known)
    IN  CASE p.kind = "line" /\ word \in {"if", "while"} -> Settled(lines, AtCond(k, {}))
          [] p.kind = "line" /\ word = "pass" -> Settled(lines, After(lines, k))
          [] p.kind = "line" /\ word = "break" ->
               IF loop = 0 THEN Malformed ELSE Settled(lines, After(lines, loop))
          [] p.kind = "line" /\ word = "continue" ->
               IF loop = 0 THEN Malformed
               ELSE IF lines[loop].word = "for" THEN AtNext(loop)
               ELSE Settled(lines, AtCond(loop, {}))
          [] p.kind = "line" /\ word = "else" -> Malformed
          [] p.kind = "cond" ->
               IF ~v.known THEN p
               ELSE Settled(lines, IF v.value THEN Enter(lines, k) ELSE ToElse(lines, k))
          [] OTHER -> p

TextEvent(lines, p) ==
    CASE p.kind = "line" ->
           Event(IF lines[p.line].word = "for" THEN "iter" ELSE lines[p.line].word, lines[p.line].id)
      [] p.kind = "next" -> Event("next", lines[p.line].id)
      [] p.kind = "cond" -> Event("test", Evaluate(lines[p.line].cond, p.known).atom)
      [] OTHER -> Event(p.kind, 0)

TextStart(lines) == Settled(lines, AtLine(1))

TextStep(lines, p, outcome) ==
    LET k == p.line
    IN  CASE p.kind = "line" /\ lines[k].word = "return" -> AtEnd
          [] p.kind = "line" /\ lines[k].word = "for" -> AtNext(k)
          [] p.kind = "line" /\ lines[k].word = "stmt" -> Settled(lines, After(lines, k))
          [] p.kind = "next" ->
               Settled(lines, IF outcome THEN Enter(lines, k) ELSE ToElse(lines, k))
          [] p.kind = "cond" ->
               Settled(lines, AtCond(k, p.known \cup {<< TextEvent(lines, p).id, outcome >>}))
=============================================================================
