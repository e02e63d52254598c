--------------------------- MODULE BlockHandlers ---------------------------
(***************************************************************************)
(* decompiler/block_handlers.py: 3.10's handlers (SETUP_FINALLY, POP_BLOCK,*)
(* three values) written as 3.11's (PUSH_EXC_INFO, CHECK_EXC_MATCH, an     *)
(* exception table).  The rewriter walks the instructions once, one rule a *)
(* step, and remembers where each old instruction went; what follows, the  *)
(* moved else clauses, the added cleanups and the table, is one last step. *)
(*                                                                         *)
(* Instructions are Compile310's, `to` an index into the same sequence (0: *)
(* none).  Left out: async with and async for, the depth and lasti columns *)
(* of the table, and the lines of the result.  A new instruction is paired *)
(* with the index of the old one it stands for (0: None).                  *)
(***************************************************************************)
EXTENDS Integers, SequencesExt, FiniteSets

CONSTANTS Codes     \* the instruction lists to rewrite

VARIABLES code,     \* self.instructions
          handlers, cleanups, nextClause,   \* the sets of that name
          copies,   \* self.copies: where a copied exit starts -> [target, length]
          hoisted,  \* self.hoisted: a shared exit that moves -> its length
          hoistAt,  \* self.hoist_at: where exits move to -> the exits
          out, firstNew,
          i,        \* the instruction run() is at
          placing,  \* the exits _place_hoisted still has to write before it
          k, base,  \* where it is in the first of them (0: not begun) and where that one started in out
          stage,    \* what comes next: "run", "else clauses", "cleanups", "table", "done"
          position, \* where each old instruction is in out, once it is moved
          regions,  \* the code of each handler and its cleanup, [start, end, cleanup]
          result, table   \* the rewritten code, and for each of its instructions the handler that covers it (0: none)
rewriterVars == <<code, handlers, cleanups, nextClause, copies, hoisted, hoistAt, out, firstNew, i, placing, k, base, stage, position, regions, result, table>>

SETUP_OPS == {"SETUP_FINALLY", "SETUP_WITH"}
TERMINATORS == {"RETURN_VALUE", "RAISE_VARARGS", "RERAISE", "JUMP_FORWARD", "JUMP_ABSOLUTE"}
END_OF_PATH == {"RETURN_VALUE", "RERAISE", "RAISE_VARARGS"}
TEST_OPS == {"DUP_TOP", "LOAD_GLOBAL", "LOAD_CONST"}
EXIT_PRECEDERS == {"POP_EXCEPT", "POP_TOP", "DELETE_FAST", "POP_BLOCK"}
CONDITIONAL == {"POP_JUMP_IF_FALSE", "POP_JUMP_IF_TRUE", "POP_JUMP_FORWARD_IF_FALSE"}
MAX_COPY == 40

OpAt(c, x) == IF x \in DOMAIN c THEN c[x].op ELSE "none"
\* The opnames from `first` on are these.
Reads(c, first, ops) == \A x \in DOMAIN ops : OpAt(c, first + x - 1) = ops[x]
ThreePops(c, x) == Reads(c, x, <<"POP_TOP", "POP_TOP", "POP_TOP">>)
MinOr(S, default) == IF S = {} THEN default ELSE Min(S)

----------------------------------------------------------------------------
(* _cover: the handler of the innermost block around each instruction.  A block on the stack is its handler's
   index, a handler being run is 0.                                                                           *)

RECURSIVE Walk(_, _)
Walk(c, w) ==
    LET ins == c[w.at]
        inner == SelectSeq(w.stack, LAMBDA b : b # 0)
        covered == IF inner = <<>> \/ w.at \in DOMAIN w.covered THEN w.covered ELSE (w.at :> Last(inner)) @@ w.covered
        stack == IF ins.op \in SETUP_OPS THEN Append(w.stack, ins.to)
                 ELSE IF ins.op \in {"POP_BLOCK", "POP_EXCEPT"} /\ w.stack # <<>> THEN Front(w.stack) ELSE w.stack
        work == IF ins.op \in SETUP_OPS THEN Append(w.work, <<ins.to, Append(w.stack, 0)>>)
                ELSE IF ins.to # 0 THEN Append(w.work, <<ins.to, stack>>) ELSE w.work
        stopped == w.at \notin DOMAIN c \/ <<w.at, w.stack>> \in w.seen
    IN  IF stopped \/ w.ended
        THEN IF w.work = <<>> THEN w.covered
             ELSE Walk(c, [w EXCEPT !.at = Last(w.work)[1], !.stack = Last(w.work)[2], !.work = Front(@), !.ended = FALSE])
        ELSE Walk(c, [at |-> w.at + 1, stack |-> stack, work |-> work, seen |-> w.seen \cup {<<w.at, w.stack>>},
                      covered |-> covered, ended |-> ins.op \in TERMINATORS])
Cover(c) == Walk(c, [at |-> 1, stack |-> <<>>, work |-> <<>>, seen |-> {}, covered |-> <<>>, ended |-> FALSE])

----------------------------------------------------------------------------
(* _copied_exits: runs of straight code that end the path, with the same instructions on the same lines. *)

IsWithExitCall(c, x) == Reads(c, x, <<"LOAD_CONST", "DUP_TOP", "DUP_TOP", "CALL_FUNCTION">>) /\ c[x].id = 0 /\ c[x + 3].n = 3
FollowsWithExitCall(c, x) == x > 2 /\ OpAt(c, x - 1) = "POP_TOP" /\ c[x - 2].op = "CALL_FUNCTION" /\ c[x - 2].n = 3
IsWithSuppress(c, x) == Reads(c, x, <<"POP_TOP", "POP_TOP", "POP_TOP", "POP_EXCEPT", "POP_TOP">>)

StartsCopy(c, s) ==
    \/ c[s - 1].op \in TERMINATORS \cup {"POP_EXCEPT", "POP_BLOCK", "DELETE_FAST"}
    \/ s > 2 /\ c[s - 1].op = "POP_TOP" /\ c[s - 2].op = "POP_EXCEPT"
    \/ FollowsWithExitCall(c, s)
\* The length of the run at s, 0 where there is none.
StraightTail(c, s) ==
    LET end == MinOr({x \in s..Len(c) : c[x].op \in END_OF_PATH}, 0)
        broken == \E x \in s..end : \/ x > s /\ c[x].lands
                                    \/ c[x].to # 0
                                    \/ c[x].op \in {"POP_BLOCK", "POP_EXCEPT"}
    IN  IF end - s < 1 \/ end - s >= MAX_COPY \/ broken THEN 0 ELSE end - s + 1
SameExit(c, s, r) ==
    /\ StraightTail(c, s) = StraightTail(c, r)
    /\ \A x \in 0..StraightTail(c, s) - 1 :
         /\ c[s + x].op = c[r + x].op /\ c[s + x].id = c[r + x].id /\ c[s + x].line = c[r + x].line
         /\ c[s + x].op \in {"RERAISE", "RAISE_VARARGS"} => c[s + x].n = c[r + x].n
CopiedExits(c) ==
    LET starts == SelectSeq([x \in 1..Len(c) |-> x], LAMBDA x : x > 1 /\ StartsCopy(c, x) /\ StraightTail(c, x) > 0)
        spans(s) == s..s + StraightTail(c, s) - 1
        first(s) == ~\E r \in Range(starts) : r < s /\ SameExit(c, r, s)
        longest == SortSeq(SelectSeq(starts, first), LAMBDA s, r : StraightTail(c, s) > StraightTail(c, r)
                                                                 \/ (StraightTail(c, s) = StraightTail(c, r) /\ s < r))
        Share(acc, s) ==
          LET free == SelectSeq(starts, LAMBDA r : SameExit(c, r, s) /\ spans(r) \cap acc.covered = {})
              others == Front(free)
              target(p) == IF FollowsWithExitCall(c, free[p]) THEN free[p + 1] ELSE Last(free)
              found == [r \in Range(others) |-> [target |-> target(CHOOSE p \in DOMAIN others : others[p] = r), length |-> StraightTail(c, r)]]
          IN  IF Len(free) < 2 \/ c[free[1]].line = 0 THEN acc
              ELSE [copies |-> found @@ acc.copies, covered |-> acc.covered \cup UNION {spans(r) : r \in Range(free)}]
    IN  FoldLeft(Share, [copies |-> <<>>, covered |-> {}], longest).copies

----------------------------------------------------------------------------
(* The sets the rewriter is made with. *)

Targets(c, ops) == {c[x].to : x \in {y \in DOMAIN c : c[y].op \in ops}}
IsCleanupStart(c, h) == Reads(c, h, <<"LOAD_CONST", "STORE_FAST", "DELETE_FAST">>) /\ c[h].id = 0

\* The first jump or exit past every forward jump from `start` on; 0 where there is none.
BareClauseEnd(c, start) ==
    LET furthest(x) == Max({start} \cup {c[y].to : y \in {z \in start..x : c[z].to > z}})
        ends == {x \in start..Len(c) : /\ c[x].op \in TERMINATORS
                                       /\ x >= furthest(x) - (IF c[x].op = "JUMP_FORWARD" THEN 1 ELSE 0)}
    IN  MinOr(ends, 0)
\* The RERAISE that ends the typed clauses of the handler at h; 0 where there is none.
RECURSIVE ClauseChainEnd(_, _)
ClauseChainEnd(c, h) ==
    LET test == MinOr({x \in h..Len(c) : c[x].op \notin TEST_OPS}, Len(c) + 1)
        next == c[test].to
    IN  IF OpAt(c, test) # "JUMP_IF_NOT_EXC_MATCH" THEN IF ThreePops(c, h) THEN BareClauseEnd(c, h) ELSE 0
        ELSE IF c[next].op = "RERAISE" THEN next ELSE ClauseChainEnd(c, next)

\* _hoist_shared_exits: shared exits inside the clauses of a handler, and the handler's end.
Hoists(c, starts, shared) ==
    LET chained(m) == {h \in starts : h < m /\ ClauseChainEnd(c, h) > m}
        moved == {m \in {e.target : e \in Range(shared)} : ~FollowsWithExitCall(c, m) /\ chained(m) # {}}
    IN  [m \in moved |-> ClauseChainEnd(c, Min(chained(m))) + 1]
\* The exits that move to one place do so in the order of a set.
HoistOrders(to) ==
    LET at(p) == {m \in DOMAIN to : to[m] = p}
        orders(p) == {s \in [1..Cardinality(at(p)) -> at(p)] : Range(s) = at(p)}
    IN  {f \in [Range(to) -> UNION {orders(p) : p \in Range(to)}] : \A p \in Range(to) : f[p] \in orders(p)}

MovedTo(at, p) == IF p \in DOMAIN at THEN at[p] ELSE <<>>
\* normalise_block_handlers up to run().
Init ==
    /\ code \in Codes
    /\ cleanups = {h \in Targets(code, SETUP_OPS) : IsCleanupStart(code, h)}
    /\ handlers = Targets(code, SETUP_OPS) \ cleanups
    /\ nextClause = Targets(code, {"JUMP_IF_NOT_EXC_MATCH"})
    /\ copies = CopiedExits(code)
    /\ LET to == Hoists(code, handlers, copies)
       IN  /\ hoistAt \in HoistOrders(to)
           /\ hoisted = [m \in DOMAIN to |-> (CHOOSE e \in Range(copies) : e.target = m).length]
    /\ out = <<>> /\ firstNew = <<>>
    /\ i = 1 /\ placing = <<>> /\ k = 0 /\ base = 0
    /\ stage = "run" /\ position = <<>> /\ regions = <<>>
    /\ result = <<>> /\ table = <<>>

----------------------------------------------------------------------------
(* The rules.  `at` is the instruction to write next; a rule writes `new` for it, notes in `marks` where other
   old instructions went, and goes on at `following`.                                                          *)

at == IF k # 0 THEN k ELSE i
Exit == Head(placing)
ExitEnd == Exit + (CHOOSE e \in Range(copies) : e.target = Exit).length
Pos == Len(out) + 1
New(ins, old) == [ins |-> ins, old |-> old]
As(ins, op) == [ins EXCEPT !.op = op, !.id = 0, !.n = 0, !.to = 0]
JumpTo(ins, target) == [As(ins, "JUMP_FORWARD") EXCEPT !.to = target]

\* The rules of _step, in the order they are tried.
Rule(x) ==
    LET op == code[x].op
    IN  CASE x \in DOMAIN hoisted /\ ~(k # 0 /\ x = Exit) -> "hoisted"
          [] op \in SETUP_OPS \cup {"POP_BLOCK"} -> "setup"
          [] op = "LOAD_CONST" /\ IsWithExitCall(code, x) -> "exit call"
          [] op = "ROT_TWO" /\ (IsWithExitCall(code, x + 1) \/ FollowsWithExitCall(code, x)) -> "swap"
          [] op = "RERAISE" /\ x > 2 /\ OpAt(code, x - 2) = "WITH_EXCEPT_START" -> "with reraise"
          [] op = "POP_TOP" /\ IsWithSuppress(code, x) -> "suppress"
          [] x \in DOMAIN copies -> "copy"
          [] x \in handlers /\ (op \notin {"POP_TOP", "DUP_TOP"} \/ op = "DUP_TOP" \/ ThreePops(code, x)) -> "handler"
          [] x \in nextClause /\ (op = "DUP_TOP" \/ ThreePops(code, x)) -> "next clause"
          [] op = "JUMP_IF_NOT_EXC_MATCH" -> "match"
          [] OTHER -> "keep"

\* _step, and the line of run() or _place_hoisted that notes where `at` went.
Write(new, marks, following) ==
    /\ out' = out \o new
    /\ firstNew' = marks @@ (at :> Pos) @@ firstNew
    /\ IF k # 0 THEN k' = following /\ UNCHANGED <<i, placing>>
       ELSE i' = following /\ placing' = MovedTo(hoistAt, following) /\ UNCHANGED k
    /\ UNCHANGED <<code, handlers, cleanups, nextClause, copies, hoisted, hoistAt, base, stage, position, regions, result, table>>
Rewriting(rule) ==
    /\ stage = "run"
    /\ at <= Len(code)
    /\ IF k # 0 THEN k < ExitEnd ELSE placing = <<>>
    /\ Rule(at) = rule
Folded(first, last, pos) == [x \in first..last |-> pos]

\* The exit itself moves; the path that fell into it jumps to it.
LeaveHoisted == Rewriting("hoisted") /\ Write(<<New(JumpTo(code[at], at), at)>>, <<>>, at + hoisted[at])

OpensExceptClause(x) == LET h == code[x].to IN code[h].op = "DUP_TOP" \/ ThreePops(code, h)
\* The NOP of a `try`: not for the cleanup of `except ... as name`, and one for try, except and finally together.
Setup ==
    LET x == at
        afterSetup == OpAt(code, x - 1) = "SETUP_FINALLY" /\ ~OpensExceptClause(x - 1)
        new == CASE code[x].op = "SETUP_FINALLY" /\ code[x].to \notin cleanups /\ ~afterSetup -> <<"NOP">>
                 [] code[x].op = "SETUP_WITH" -> <<"BEFORE_WITH">>
                 [] code[x].op = "POP_BLOCK" /\ OpAt(code, x - 1) = "POP_BLOCK" -> <<"NOP">>
                 [] OTHER -> <<>>
    IN  Rewriting("setup") /\ Write([n \in DOMAIN new |-> New(As(code[x], new[n]), x)], <<>>, x + 1)

ExitCall ==
    LET x == at
        call(op) == New([As(code[x + 3], op) EXCEPT !.n = 2], x + 3)
    IN  Rewriting("exit call")
        /\ Write(<<New(code[x], x), New(code[x], x), New(code[x], x), call("PRECALL"), call("CALL")>>,
                 [y \in x + 1..x + 3 |-> Pos + y - x], x + 4)
\* A `return` that leaves a `with`: the value goes under the exit function and back.
Swap == Rewriting("swap") /\ Write(<<New([As(code[at], "SWAP") EXCEPT !.n = 2], at)>>, <<>>, at + 1)
WithReraise == Rewriting("with reraise") /\ Write(<<New([code[at] EXCEPT !.n = 2], at)>>, <<>>, at + 1)
Suppress ==
    LET x == at
        written == <<x, x + 3, x + 4, x + 1>>
    IN  Rewriting("suppress") /\ Write([n \in 1..4 |-> New(code[written[n]], written[n])], [y \in x + 1..x + 4 |-> Pos + y - x], x + 5)

Copy ==
    LET x == at
    IN  Rewriting("copy") /\ Write(<<New(JumpTo(code[x], copies[x].target), x)>>,
                                   Folded(x + 1, x + copies[x].length, Pos + 1), x + copies[x].length)

\* Slip: the bare clause's handler pushes nothing.
HandlerStartOfTyped ==
    LET x == at
        push == New(As(code[x], "PUSH_EXC_INFO"), x)
    IN  /\ Rewriting("handler")
        /\ CASE code[x].op = "DUP_TOP" -> Write(<<push>>, <<>>, x + 1)
             [] ThreePops(code, x) -> Write(<<New(code[x], x)>>, Folded(x + 1, x + 2, Pos + 1), x + 3)
             [] OTHER -> Write(<<push, New(code[x], x)>>, <<>>, x + 1)
\* A handler pushes the old state: before DUP_TOP's test, one of the three values a bare clause pops, or a finally body.
HandlerStart ==
    LET x == at
        push == New(As(code[x], "PUSH_EXC_INFO"), x)
    IN  /\ Rewriting("handler")
        /\ CASE code[x].op = "DUP_TOP" -> Write(<<push>>, <<>>, x + 1)
             [] ThreePops(code, x) -> Write(<<push, New(code[x], x)>>, Folded(x + 1, x + 2, Pos + 2), x + 3)
             [] OTHER -> Write(<<push, New(code[x], x)>>, <<>>, x + 1)
NextClause ==
    LET x == at
    IN  /\ Rewriting("next clause")
        /\ IF code[x].op = "DUP_TOP" THEN Write(<<>>, <<>>, x + 1)
           ELSE Write(<<New(code[x], x)>>, Folded(x + 1, x + 2, Pos + 1), x + 3)
\* The three values the match leaves, as one.
Match ==
    LET x == at
        test == <<New(As(code[x], "CHECK_EXC_MATCH"), x), New([code[x] EXCEPT !.op = "POP_JUMP_FORWARD_IF_FALSE"], x)>>
        kept == IF code[x + 2].op = "POP_TOP" THEN x + 1 ELSE x + 2
    IN  /\ Rewriting("match")
        /\ IF OpAt(code, x + 1) = "POP_TOP" /\ OpAt(code, x + 3) = "POP_TOP" /\ OpAt(code, x + 2) \in {"POP_TOP", "STORE_FAST"}
           THEN Write(Append(test, New(code[kept], kept)), Folded(x + 1, x + 3, Pos + 2), x + 4)
           ELSE Write(test, Folded(x + 1, x + 3, Pos + 2), x + 1)
Keep == Rewriting("keep") /\ Write(<<New(code[at], at)>>, <<>>, at + 1)

\* _place_hoisted: the exits that move to index i, one after the other.
BeginExit ==
    /\ placing # <<>> /\ k = 0
    /\ k' = Exit /\ base' = Pos
    /\ UNCHANGED <<code, handlers, cleanups, nextClause, copies, hoisted, hoistAt, out, firstNew, i, placing, stage, position, regions, result, table>>
EndExit ==
    /\ k # 0 /\ k >= ExitEnd
    /\ firstNew' = (Exit :> base) @@ firstNew @@ [x \in Exit..ExitEnd - 1 |-> base]
    /\ placing' = Tail(placing) /\ k' = 0
    /\ UNCHANGED <<code, handlers, cleanups, nextClause, copies, hoisted, hoistAt, out, i, base, stage, position, regions, result, table>>

----------------------------------------------------------------------------
(* What normalise_block_handlers does with the rewritten code. *)

Unchanged == UNCHANGED <<code, handlers, cleanups, nextClause, copies, hoisted, hoistAt, i, placing, k, base>>

\* run()'s end: an old index that was dropped continues at the next kept one.
EndRun ==
    LET kept(x) == {y \in x..Len(code) : y \in DOMAIN firstNew}
    IN  /\ stage = "run" /\ i > Len(code) /\ placing = <<>>
        /\ firstNew' = [x \in 1..Len(code) + 1 |-> IF kept(x) = {} THEN Pos ELSE firstNew[Min(kept(x))]]
        /\ stage' = "else clauses"
        /\ UNCHANGED <<out, position, regions, result, table>> /\ Unchanged

\* _move_else_clauses: entries are [ins, old, key], the key being the position in `out` (0: an added jump).
KeyAt(entries, key) == {x \in DOMAIN entries : entries[x].key = key}
EndsExcept(e) == e.ins.op = "JUMP_FORWARD" /\ e.old > 1 /\ code[e.old - 1].op \in EXIT_PRECEDERS
Count(s, P(_)) == Len(SelectSeq(s, P))
LeavesBody(e) == e.ins.op = "JUMP_FORWARD" /\ e.old > 1 /\ code[e.old - 1].op = "POP_BLOCK"
\* The exit most handlers between `key` and `a` jump to; 0 where there is none.
Join(entries, key, a) ==
    LET exits == SelectSeq(entries, LAMBDA e : e.key > key /\ e.key < a /\ EndsExcept(e))
        often(v) == Count(exits, LAMBDA e : e.ins.to = v)
        joins == {e.ins.to : e \in Range(exits)}
    IN  IF joins = {} THEN 0 ELSE CHOOSE v \in joins : \A w \in joins : often(v) > often(w) \/ (often(v) = often(w) /\ v >= w)
\* The code of the else clause at `a`, up to the join.
ElseBlock(entries, a, join) ==
    SubSeq(entries, Min(KeyAt(entries, a)), MinOr(KeyAt(entries, firstNew[join]), Len(entries) + 1) - 1)
IsElse(block, body) ==
    /\ Count(block, LAMBDA e : e.ins.op = "PRECALL") <= Count(block, LAMBDA e : e.ins.op = "BEFORE_WITH")
    /\ \A e \in Range(block) : e.ins.to = 0 \/ e.ins.to >= body.to
\* The jump at `key` leads over handlers to an else clause, which moves into its place.
MoveElse(acc, key) ==
    LET q == out[key]
        a == firstNew[q.ins.to]
        entries == acc.entries
        join == Join(entries, key, a)
        block == ElseBlock(entries, a, join)
        q0 == Min(KeyAt(entries, key))
        a0 == Min(KeyAt(entries, a))
        jump == IF block # <<>> /\ Last(block).ins.op \in TERMINATORS \ {"JUMP_ABSOLUTE"} THEN <<>>
                ELSE <<[ins |-> [q.ins EXCEPT !.to = join], old |-> 0, key |-> 0]>>
        moves == /\ a > key /\ join # 0 /\ firstNew[join] > a
                 /\ KeyAt(entries, a) # {} /\ IsElse(block, q.ins)
    IN  IF ~moves THEN acc
        ELSE [entries |-> SubSeq(entries, 1, q0 - 1) \o block \o jump \o SubSeq(entries, q0 + 1, a0 - 1)
                            \o SubSeq(entries, MinOr(KeyAt(entries, firstNew[join]), Len(entries) + 1), Len(entries)),
              removed |-> (key :> q0) @@ acc.removed]
\* A removed jump stands where the clause it led to now begins.
MoveElseClauses ==
    LET keyed == [p \in DOMAIN out |-> [ins |-> out[p].ins, old |-> out[p].old, key |-> p]]
        moved == FoldLeft(MoveElse, [entries |-> keyed, removed |-> <<>>],
                          SelectSeq([p \in DOMAIN out |-> p], LAMBDA p : LeavesBody(out[p])))
        at0(key) == IF key \in DOMAIN moved.removed THEN moved.removed[key]
                    ELSE IF key > Len(out) THEN Len(moved.entries) + 1 ELSE Max(KeyAt(moved.entries, key))
    IN  /\ stage = "else clauses"
        /\ out' = [p \in DOMAIN moved.entries |-> New(moved.entries[p].ins, moved.entries[p].old)]
        /\ position' = [x \in 1..Len(code) + 1 |-> at0(firstNew[x])]
        /\ stage' = "cleanups"
        /\ UNCHANGED <<firstNew, regions, result, table>> /\ Unchanged

\* Slip: the first jump or exit, whatever the tests before it lead past.
FirstEnd(h) ==
    LET ends == {y \in position[h]..Len(out) : out[y].ins.op \in TERMINATORS}
    IN  IF ends = {} THEN Len(out) + 1 ELSE Min(ends) + 1
\* The end of the code of the handler at h, and where its cleanup goes: in a `with` handler before the suppressing path.
HandlerEnd(h) ==
    LET start == position[h]
        tests(x) == {y \in start..x : out[y].ins.op \in CONDITIONAL}
        furthest(x) == Max({start} \cup {position[out[y].ins.to] : y \in tests(x)})
        ends == {y \in start..Len(out) : out[y].ins.op \in TERMINATORS /\ y + 1 > furthest(y)}
    IN  IF ends = {} THEN Len(out) + 1 ELSE Min(ends) + 1
CleanupPlace(h) ==
    LET suppress == {x \in position[h]..HandlerEnd(h) - 1 : out[x].ins.op = "POP_JUMP_IF_TRUE"}
    IN  IF out[position[h] + 1].ins.op = "WITH_EXCEPT_START" /\ suppress # {} THEN position[out[Min(suppress)].ins.to] ELSE HandlerEnd(h)
CLEANUP == <<[op |-> "COPY", n |-> 3], [op |-> "POP_EXCEPT", n |-> 0], [op |-> "RERAISE", n |-> 1]>>
\* _add_cleanups: of the handlers whose cleanup goes to the same place, the last one has it.
AddCleanups ==
    LET place == [h \in handlers |-> CleanupPlace(h)]
        places == Range(place)
        before(p) == 3 * Cardinality({x \in places : x <= p})
        cleanup(ins) == [x \in 1..3 |-> New([As(ins, CLEANUP[x].op) EXCEPT !.n = CLEANUP[x].n], 0)]
        region(p) ==
          LET h == Max({x \in DOMAIN place : place[x] = p})
              end == HandlerEnd(h)
          IN  [start |-> position[h] + before(position[h]), cleanup |-> p + before(p) - 3,
               end |-> end + before(end) - (IF end \in places THEN 3 ELSE 0)]
        inOrder == SelectSeq([p \in 1..Len(out) + 1 |-> p], LAMBDA p : p \in places)
    IN  /\ stage = "cleanups"
        /\ out' = FlattenSeq([p \in 1..Len(out) + 1 |-> (IF p \in places THEN cleanup(out[Min({p, Len(out)})].ins) ELSE <<>>)
                                                         \o SubSeq(out, p, Min({p, Len(out)}))])
        /\ position' = [x \in DOMAIN code |-> position[x] + before(position[x])]
        /\ regions' = [x \in DOMAIN inOrder |-> region(inOrder[x])]
        /\ stage' = "table"
        /\ UNCHANGED <<firstNew, result, table>> /\ Unchanged

\* The rest of a handler's code is covered by its cleanup: not what follows a POP_EXCEPT, up to where the path ends.
CoverRegion(target, r) ==
    LET row(x) == out[x].old # 0
        left(pos) == \E x \in r.start..pos : /\ row(x) /\ out[x].ins.op = "POP_EXCEPT"
                                             /\ ~\E y \in x..pos - 1 : row(y) /\ out[y].ins.op \in TERMINATORS
        inside(pos) == target[pos] >= r.start /\ target[pos] < r.end
    IN  [pos \in DOMAIN target |-> IF pos \in r.start..r.end - 1 /\ row(pos) /\ ~left(pos) /\ ~inside(pos) THEN r.cleanup ELSE target[pos]]
\* _table, and the jumps of the result.
Finish ==
    LET covered == Cover(code)
        bodies == [p \in DOMAIN out |-> IF out[p].old \in DOMAIN covered THEN position[covered[out[p].old]] ELSE 0]
    IN  /\ stage = "table"
        /\ table' = FoldLeft(CoverRegion, bodies, regions)
        /\ result' = [p \in DOMAIN out |-> IF out[p].ins.to # 0 THEN [out[p].ins EXCEPT !.to = position[@]] ELSE out[p].ins]
        /\ stage' = "done"
        /\ UNCHANGED <<out, firstNew, position, regions>> /\ Unchanged

Rewrite ==
    \/ LeaveHoisted \/ Setup \/ ExitCall \/ Swap \/ WithReraise \/ Suppress \/ Copy
    \/ HandlerStart \/ NextClause \/ Match \/ Keep \/ BeginExit \/ EndExit
    \/ EndRun \/ MoveElseClauses \/ AddCleanups \/ Finish
=============================================================================
