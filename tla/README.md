# pycrefine in TLA+

pycrefine reads a `.pyc` file of CPython 3.9 to 3.14 and writes Python source for it. The decompiler is
sequential. What makes it hard is that one pass over a list of instructions rebuilds a tree: a block
is known only by the offset it ends at, the compiler moves jumps around, and each handler decides from
what is open at that moment what an instruction meant, writes lines, and cannot go back. Around it
are a reader of untrusted files, a rewriter of one version's code into another's, a cleaner of the finished
text, and gates that do run concurrently with something: a child process that hangs and dies, and
pull requests that race to one branch.

The specifications here are about that: the state the steps share, what each may do to it, and whether
what comes out still means what went in. TLC checks them on small instances; TLAPS proves the invariants
that matter most for every value of the constants.

All paths below are under `src/pycrefine/` of the repository unless they begin with `quality/`, `docs/`,
`.github/` or a file of the root.

## 1. Inventory

| component | state | operations | hard behaviour | correct when |
|---|---|---|---|---|
| **main pass** `decompiler/generic.py` (`decompile`, `_decompile_step`, `_close_blocks`, `_op_jump`, `_op_conditional_jump`, `_op_for_iter`) | `pc`, `blocks` (end, type), `indent_level`, `reconstructed`, `stack` | one handler per opcode; close blocks before each instruction and at the end | lines are appended, rewritten and popped; blocks and indentation change in a dozen places; an `else` is found only by the jump in front of it | indentation follows the blocks, blocks nest, every statement is written once and in order, the text parses and behaves like the code, the pass ends |
| **prescans** `generic.py` (`_prescan_compound_conds`, `_prescan_while_loops`, `_find_inner_back_jumps`, `_prescan_try_structure`, `_prescan_ternaries`, …), `decompiler/state.py` | `PrescanState`: maps and sets of offsets | scan all instructions once, mark offsets as hidden, as guards, as merge labels | the order of the scans and of the checks on their results (`SUPPRESSION_ORDER`); an offset claimed by two scans | each instruction is hidden at most where its text is written elsewhere |
| **value expressions** `generic.py`, `base.py`, `expr.py`, `instructions.py`, `decompiler/py311.py` | the stack of texts, the chains of targets, the batch of a tuple assignment, the lines | one handler per opcode | text is glued, not trees; several instructions are read as one statement over a window of the code | each line parses, is evaluated in the order of the code, and one value is pushed where the interpreter pushes one |
| **block stack of 3.10** `decompiler/block_handlers.py` | `copies`, `hoisted`, `hoist_at`, the output and where each instruction went | follow every edge; rewrite handlers to the form of 3.11; move shared exits; insert clean-ups; make an exception table | exits are copied or shared by the compiler; positions move while instructions are inserted | the rewritten code does the same, exceptions included |
| **3.9 backend** `decompiler/py39.py` | its own decoded instructions and prescans | handlers for SETUP_FINALLY code | as the main pass | as the main pass |
| **backends of 3.11 to 3.14** `decompiler/py311.py`, `py314.py` | the value stack | handlers of renamed and merged opcodes | superinstructions | as value expressions |
| **loader** `loader.py`, `versions.py`, `codeobj.py` | `MarshalParser`: `offset`, `refs`; the version row | read a header, try header sizes with two readers, pick a backend | a place in `refs` is taken before its object is complete; a truncated file | the object that was written comes back, or an error |
| **decoder** `opcodes/decode.py`, `opcodes/py39.py`, `analysis/exception_table.py`, `analysis/superinstructions.py` | `extended`, `skip`, the line and the offset reached | unpack instructions, find targets, read line and exception tables, look effects up | arguments of several bytes, cache units, flags in the lowest bits, numbers cut short, opcodes that moved between versions | decoding is the inverse of the assembler |
| **post-processing** `postprocess.py` | the text and the strings taken out of it | a pipeline of transforms, in one order | regular expressions over text that holds strings and rows that belong together | the text stays Python and the same program |
| **diagnostics** `diagnostics.py`, `base.py:_report`, and **command line** `cli.py` | the list of diagnostics, shared by nested decompilers | report or, in strict mode, raise; write to a file or to stdout; exit status | where in the sequence a failure happens | a guess is never silent, the status is true |
| **quality gates** `quality/*.py`, `.github/scripts`, `.github/workflows` | baselines in JSON, a child process, the main branch | run over a corpus, compare, rewrite the baseline | a child that hangs, dies or answers late; baselines written at another time; checks that are stale when their branch is merged | a regression fails, nothing else does |

The components of the decompiler are called in one order: the loader makes a code object and picks a backend,
the backend decodes the instructions (and rewrites those of 3.10), the prescans mark offsets, the main
pass writes lines, and the post-processing rewrites them. They share `PrescanState` and the code object; a nested
code object is decompiled by a new decompiler that shares only the diagnostics. The gates call the
decompiler in processes of their own and compare what comes back with files of the repository.

## 2. Plan

Done: the main pass for `if`, `else`, `for`, `break`, `continue`, `return` and compound conditions, with
what it promises of statements and of behaviour; the marshal reader; the command line; value expressions of
straight-line code; the block stack of 3.10; the decoder with its tables; the post-processing; the child process of
the correctness gate, both baselines, and pull requests; and the proofs of section 6.

Left, in this order:

1. `WhileLoops`: `_prescan_while_loops` and the guards, composed with `BlockReplay`.
2. `TryMerge`: the merge labels of `try`, `SUPPRESSION_ORDER` and the deferred handlers, each emitted once.
3. `LoadPyc`: the header, the attempts of `get_decompiler`, the choice of a backend, on top of `MarshalReader`.
4. And/or and conditional values wherever they can stand, comprehensions, the backend of 3.9.
5. Proofs about the decoder (section 6, what is not proved).

The abstract specifications are `StatementStream` (refined by the main pass), `ReadBack` (refined by the marshal reader
on what Python wrote) and the source itself wherever a compiler or an assembler stands in front of the code:
`Compile311`, `Compile310`, `StraightCode` and `Assembler` are external modules, and what they made is
compared with what was read back by running both (`RoundTrip`, `BlockMachines`, `Expressions`) or by naming
every part (`DecodeRoundTrip`).

## 3. Modules

| module | models | state and actions |
|---|---|---|
| `Bytecode` | the instructions the main pass sees, for the constructs above | one instruction stands for a run that the pass handles as one: the loads of a condition and its `POP_JUMP_FORWARD_IF_*`, a call and its `POP_TOP`. Offsets are indexes. `IsCode` is what CPython 3.11 promises of a code object |
| `BlockReplay` | `decompile()` from the first instruction on | `pc`, `blocks`, `indent_level` and `reconstructed` are the attributes of the same names. One action for each way through a handler: `CloseBlock` and `CloseIntoElse` are one turn of the loop in `_close_blocks`; `OpenIf`, `JoinCondition` and `BreakWhen` are `_op_conditional_jump`; `WriteBreak`, `OpenElse`, `StopAtLoop` and `IgnoreForwardJump` are `_forward_jump`; `WriteContinue`, `OpenElseAtBackJump` and `IgnoreBackJump` are `_emit_inner_back_jump`; `ContinueAtLastBackJump`, `RewriteIfAsWhile` and `CloseLoop` the rest of `_op_jump`; `Finish` is what follows the loop in `decompile` |
| `CompoundConditions` | `_prescan_compound_conds` | operators: which tests are one condition, and its text as a sequence of tokens |
| `StatementStream` | the promise about statements | `WriteNext`, `Return`; refined by `BlockReplay` |
| `Compile311`, `TextSemantics` | CPython 3.11's compiler with its jump threading, and what Python makes of the lines (external) | operators from bodies to code objects, and from a place in the text to the next thing evaluated |
| `RoundTrip` | nothing of its own: it runs the code and the text side by side | `Replay`, then `Compare`, then `Run` with the same outcome for both |
| `Expressions` | the handlers of straight-line code on 3.11 | `self` holds the attributes: the stack of texts, the rows, the chains of targets, the batch of a tuple assignment. One action per handler; a handler may move `pc` past instructions it has used |
| `PythonText`, `StraightCode` | Python's parser for lines of tokens, and the compiler and the interpreter of straight-line code (external) | both ends of the comparison are compiled and run by `StraightCode`, so it knows nothing of what the decompiler prints |
| `BlockHandlers` | `normalise_block_handlers()`: the cover, the rules of `run()`, hoisted exits, else clauses, clean-ups, the table | one rule a step; `copies`, `hoisted`, `hoist_at` and the positions are the attributes |
| `Compile310`, `BlockMachines` | CPython 3.10's compiler for `try`, `with` and `for`, and the interpreters of 3.10 and of 3.11 (external) | the machines run side by side to their next event |
| `OpcodeTables` | `opcodes/tables.py`, its generator's encoding of stack effects, `decode.stack_effect()` | operators; the opcodes are those that can be confused: each kind of argument, each way of packing one, the jumps |
| `Decode` | `decode_instructions()`, `_disassemble()` of 3.9, the line tables of each version, `parse_exception_table()`, `split_superinstructions()`, `_stack_effect()` | `unit`, `skip`, `extended`, `at`, `line`, `addr`: one action for each unit, entry of a line table or entry of an exception table |
| `Assembler`, `DecodeRoundTrip` | the assemblers of 3.9 to 3.14 (external), and what was read back against the source | |
| `MarshalReader` | `MarshalParser` of `loader.py`, and the tables of names that `decode._Resolver` builds from the code object it returns | `data`, `offset` and `refs` are the attributes; `frames` is Python's stack of open `load()` calls, `heap` the objects made. `OpenContainer` is a call up to its first inner call, with the place it reserves; `CloseContainer` is its return; `LoadAtom`, `LoadSingleton`, `LoadReference` are calls without inner calls; `EndOfData`, `UnknownType`, `UnknownReference`, `RefuseParts` are the exceptions |
| `ReadBack` | the promise of a reader: complete data give the object, anything less an exception, and it ends | `ReturnObject`, `RaiseException`; `written` says whether the data are whole, cut short or nobody's |
| `MarshalRoundTrip` | CPython's `marshal.c` (external) in front of `MarshalReader` | the writer is a function of the number of its steps (`Writer`, `WriteStep`): the calls of `w_object` that are open, the data, the places given out. An object of a graph (`IsGraph`) is a node with a mark that says whether anything else refers to it; `read` says which object was read for which node |
| `CommandLine` | `main()` of `cli.py`, `_report()`, `_eval_comp_slice` as far as it reports | `diagnostics` is the attribute, `apart` that of the slice's decompiler; `file` and `stdout` are what is left there. One action for each call of `main()` that can fail and one for its failure |
| `CleanUp` | `post_process_source()` of `postprocess.py` | the text is a sequence of tokens; one action per transform, and `Again` for a second pass over the result |
| `DecompileRunner` | `_DecompileRunner` of `quality/check_correctness.py` and its child | `entry` and `stage` are where `check_pyc()` is, `process` is `_process`; `requests` and `replies` the two directions of each child's pipe. `Gate` is the gate's one thread, `Child(c)` a process of which nothing is assumed |
| `CorrectnessGate` | the ids of units, the comparison with the baseline, `--update-baseline` of `check_correctness.py` | `corpus`, `outcome`: what there is and what it comes to; `baseline`; `verdict`. Edits of the corpus and of the decompiler, runs, and refusals to run |
| `DifferentialGate` | the rungs of `check_entry()`, the baselines of each Python, runs of some entries in `check_differential.py` | `manifest`, `trial`, `baselines`, `result` |
| `PullRequests` | `check_version_bump.py`, the baseline of `check_lint.py`, and merges | `main`, and of each pull request `branch`, `base` and the main it was `checked` against. `Edit`, `Bump`, `Record`, `Catch` (bring the branch up to date), `Check`, `Land` |
| `*_proof` | | the theorems about `BlockReplay`, the marshal reader alone and behind a writer (`Marshal_proof`), the exception table of the decoder (`DecodeRoundTrip_proof`), `CommandLine`, `DecompileRunner`, both gates (`Gates_proof`), `PullRequests` |
| `Induction` | | lemmas: induction on the natural numbers, iterated functions |
| `MC_*` | | the inputs of the runs |

Lines of the main pass are records (indent, word, id of the statement, tokens of the condition): blanks, names and
the wording of expressions are left out, since no decision of the modelled handlers looks at them. The expression
stack is left out of it for the same reason, with one exception kept by hand: the `POP_TOP` that drops a loop's
iterator finds the stack empty, because `_op_for_iter` has taken the iterator off, and writes nothing (`Quiet`). Return
values are names, not constants, so `_canonical_return_blocks` merges nothing and `is_compiler_generated_return`
holds of the last `return None` only.

The data of the marshal reader are tokens: a type byte with what `load()` reads in one go after it. Numbers and
strings are atoms with some bytes. An object is its place in `heap`, so "the same object" can be said; whether an
object has a hash is kept, since a set or a dict of an object without one raises. Items of sets and dicts stay
in the order of the data and are not merged when equal. Sizes are not negative. The parser's `TypeError` and
`ValueError` for a code object with wrong parts are one outcome, as `get_decompiler` catches both.

In `CommandLine` the decompilation is the guesses it makes and how it ends. One slice is tried at a time; a slice
inside a slice reports to the outer one, which is then not strict. Writing to standard error does not fail.

In `Decode` a byte of an argument has `BYTE` values and a chunk of a number `CHUNK`, so that arguments of several
bytes are small. In `CleanUp` a triple quote is one token, and a string on one row an atom: transforms that look
into such a string (section 5) are outside the model, as are expressions `PythonText` cannot read, and a dict display
on a row it shares with a string of several rows is not in the inputs. The module was compared with
`postprocess.py` on the inputs of its run. In `BlockHandlers` the depth and lasti columns of the table, async
statements and the lines of the result are left out. In `BlockMachines` an exception goes where the computed table says,
and leaves the function where it says nothing.

In the gates, what a file, a statement or an entry comes to is an arbitrary value that any edit may change. A statement
has an identity beside its label, so that the properties can say what became of it. git is what the scripts see of
it: the test merge of a branch with main, which does not exist while both have changed the version or one count of
the baseline.

Definitions whose comment begins with "A slip" (or "Slips") are wrong on purpose: each is what a plausible mistake
would make of the definition after it, and shows that a property would notice.

## 4. Runs

| run | inputs | shows |
|---|---|---|
| `replay_any_code` | every code object of at most `MaxLength` = 5 instructions that `IsCode` allows, and five longer ones written by hand | no code, compiler-made or not, makes the pass lose a statement, misplace a line, write text that does not parse, or run for ever |
| `round_trip` | compiled functions of at most 5 statements, 3 deep, and every pair of nested branches in a loop with and without a tail, without three shapes that come out wrong (section 5); one condition of up to 4 atoms in five places | blocks nest, which holds only of compiled code; the pass refines `StatementStream`, liveness included; the text behaves like the code for all outcomes of tests and loops |
| `marshal_round_trip` | what the writer makes of every graph of one or two containers over `None` and an atom, of some towers of three tuples, and of functions with a function inside, laid out as before 3.11 and since, whatever else refers to an object, each cut short at every token; every sequence of at most 4 tokens of an alphabet of 12, and code objects with constants of each wrong type | the reader refines `ReadBack`: the same graph, shared objects included, or an exception; places nest and a complete object keeps its place whatever the data; the decoder's tables of names are the compiler's |
| `command_line` | two places, at most `MaxGuesses` = 4 guesses, every option and every failure | a strict run that succeeds has guessed nothing; a guess is in the warnings and in the header; the status is 0 exactly when the whole text is where it was asked for |
| `expressions` | every kind of expression in every context of another one, and in every kind of statement, for callers with and without `fast` locals | every line parses; running what was written does the same operations on the same values in the same order; the stack is as deep as the interpreter's after every handler |
| `block_stack` | functions of one to three nested statements: `try` with typed, named and bare clauses, `else` and `finally`, in and around `for`, `if` and `with`, left by every kind of exit | the code of 3.10 and what it was rewritten to do the same to the outside, with an exception at any place that can raise one, and handle the same exceptions, until one leaves the handlers of a statement inside another (section 5) |
| `clean_up` | texts with prints, imports, chains of `else` and `if`, displays, parentheses and strings over several rows, at each level | a step that says it preserves the tree does; the whole pipeline leaves the same program, and Python; a second pass changes nothing |
| `decode` | for each version from 3.9 to 3.14 every kind of instruction with short and long arguments, jumps that make each other longer, changes of lines of every size, exception tables whole and cut | instructions, operands, targets, lines, handlers and stack effects are those of the source |
| `foreign_effects` | 3.9's code on a host from 3.11 on | violation: the effects are those of other instructions (section 5) |
| `runner` | four files, a time limit, and children that are slow, hang, die or answer garbage at any moment | each file gets its own answer; only a fault of its own time is held against it; no child is left; the run ends |
| `gates` | one source file with up to three statements, two of one label, and one binary; two entries and two Pythons; any two edits of corpus, decompiler or manifest, and updates, checks and partial checks in any order | a check that passes has nothing worse in it, one that fails has |
| `pull_requests` | two pull requests, two keys, one edit each, "up to date before merging" on | versions stay unique and in step, main stays within its lint baseline, and the baseline is raised on purpose only |

Bounds. Five instructions are enough for a loop with an `else`, a jump over a jump and two blocks ending at one
offset; the hand-written programs reach `StopAtLoop`, `BreakWhen` and `RewriteIfAsWhile` where they need more. Five
statements three deep give every pair of constructs one inside the other and one after the other. Conditions of four
atoms are the smallest whose `and` and `or` alternate three deep. Four tokens hold two nested containers with a
reference inside and one after them, which is where a place can be wrong; two containers over shared leaves, and towers of
three, let a reference point into an object that is complete inside one that is not; none of these graphs takes the writer more than
`MaxSteps` = 60 steps, which `SomethingWritten` requires of whatever is read as complete. Two places let a slice repeat a place
that is listed and add one that is not; four guesses do that twice. An expression inside an expression inside a
statement is as far as a handler looks, and chains and unpackings have up to three targets. Three nested
statements put an exit of 3.10 through two protected ones, which is where copies and shared exits arise. With `BYTE` = 16 and
`CHUNK` = 4 an argument of two bytes, a jump that grows because another grew, and a number of three chunks need a
dozen instructions; 16 is the smallest size at which the flags of `MAKE_FUNCTION` fit a byte. Four files let a child answer late,
die between two files and be replaced twice. Two edits between a recorded baseline and a check can undo, hide or
move what the other did. Two pull requests are the smallest race, and three would only be two of them with the third
at rest, since a merge concerns one branch and main.

Fairness. `Spec` of `BlockReplay` has `WF_vars(Next)`: `decompile()` is a loop that nothing suspends, so a step that can
be taken is taken. `RoundSpec` and `TripSpec` (and `MarshalReader`) have it for the same reason. `DecompileRunner` has
`WF_vars(Gate)`: the gate is one thread and its polls run out by the clock; of a child nothing is assumed, so that one
that loops for ever is a behaviour. The other modules state no liveness and need no fairness: that they end is seen from
the finite runs. `CHECK_DEADLOCK FALSE` is set where a run of the program ends.

The configurations split one set of inputs between what works and what does not by predicates with names
(`EndsInBreak`, `LosesItsGrouping`, …), and one property has a named exception (`LeftFromInnerCleanup`); both are
listed next, with what was found outside the inputs.

## 5. What was found

`foreign_effects` is the one run that expects a violation: the docstring at `decompiler/base.py:188` promises the effect
of an instruction "under the version that wrote it", but 3.9 has no table, and its opcode numbers are looked up in
the host's `dis`. On 3.13 the number of `LOAD_CONST` is that of `POP_JUMP_IF_TRUE`.

The rest are known defects. Each was found by a run's property on inputs that are now outside its set, and, where the
table gives a source, confirmed by compiling it and decompiling it. The sets in parentheses give the counterexample when
the run's inputs are set to them.

One row is about behaviours and not about inputs: `LeftFromInnerCleanup` is a condition on the state that `SameRun`
excepts. The programs stay in the run, since everything they do up to there is compared, and there the exception that
leaves has to be the one that 3.10 goes on with. Without the exception `SameRun` is violated by a `try` inside a `try`. The
row was confirmed by giving the 3.10 instructions of its first source to `normalise_block_handlers()`: its table has the
handler of the inner `try` covered by its clean-up, and the clean-up by nothing. What the backend then makes of such a table was not
examined.

| where | source | what comes back |
|---|---|---|
| main pass (`EndsInBreak`) | `for x in a:` / `if c: s` / `else: break` | no `break`: the compiler leaves out the jump, and the `POP_TOP` before it is all that remains |
| (`LeavesBeforeElse`) | `if a: (if b: s` / `else: return)` / `else: y`, then more code | `y` after the `if` instead of in an `else` |
| (`JumpsToBreak`) | `for x in a: if a: (if b: break)` / `else: break`, then `s` | `if not a or b: break`, then an unconditional `break` |
| conditions | `if (not c1 and c2) or c3: return` (or `break`, `continue`) | `if (c1 or c2) or c3`; with a body that goes on, `if c1 or not c2` around `if c3` |
| | `for x in a: if c1 and (c2 or c3): break` | the parentheses are lost |
| | `if c1 or (c2 and (c3 or c4)): return` | `if ((c1 or c2) and c3 or c4)` |
| expressions (`LosesItsGrouping`) | `(a < b) + b`, `(a < b).y = b`, `(-1)(b)` | no parentheses |
| (`Bared`) | `f(*b, (yield a))`, `f(**(w := a))` | no parentheses: a syntax error |
| (`WrittenTwice`) | `x = y = {**a}`; `x, y = (yield a), b` | evaluated twice; evaluated in another order |
| (`StarredSets`) | `{a, *b}`, `{*a, *b}` | `b`: `_op_set_update` drops the set it adds to (`generic.py:10154`) |
| (`SharedUnpackings`) | `y = x, a.y = e` | the temporary stays bound, though "they must not stay visible" (`generic.py:6404`): `TemporariesAreReleased` |
| block stack (`ProtectedInHandler`) | `except: (try …)`, `finally: (with …)` | where the inner handler ends is taken too early (`block_handlers.py:525`), clean-ups with one position are lost (`:533`), a handler that begins with `SETUP_FINALLY` is not marked as one |
| | `finally: …; raise`, `finally: break` in a loop | taken for the exit of a `with`, or for a copy of the shared exit (`:164`) |
| (`LeftFromInnerCleanup`) | `try: (try: f()` / `except A: g())` / `except B: h()`, where `f()` raises no `A`, or `g()` raises; `try`, `except` and `finally` in one statement; a `with` in a `try` | the table covers no clean-up: `_table` leaves out what has no old instruction (`block_handlers.py:558-566`), so the exception leaves the function where 3.10 runs the outer handler, though the table is said to be "the matching exception table" (`:6`); 3.11's own covers the clean-up by that handler |
| post-processing | `print(())` | `print()`: `_unwrap_print_argument` says that it keeps tuples, and its result says that it preserves the tree |
| (`KeywordTuples`) | `x = ('func', 1)`, a program's own tuple; the same in a string on one row; `f(k=('func', a))` | `x = None`; another string; no Python ("the output stays valid Python", `postprocess.py:671`) |
| command line (`NothingGivesOne`) | an empty module with `-o` | status 0, where `docs/usage.md:69` says 1 |
| decoder (`StartsAtPrefix`) | 3.9, an instruction with a prefix at the start of a line, or that a jump leads to | the line, and the mark of the target, are lost with the prefix |
| correctness gate (`Unnumbered`, section 6) | a statement whose first line ends in `#2` | taken for the second one of another label (`check_correctness.py:542`, which drops the suffix that repeated ids get, `docs/correctness.md:44`): a new statement can fail the check, and a lost one pass it |

Behaviour of the gates worth knowing, not contradicted by any document: `--update-baseline` with paths drops the records of all
other files (`check_correctness.py:795`); two runs that both take too long are equivalent whatever they have printed
(`check_differential.py:426`); with several `--python`, the status is the largest of theirs (`check_differential.py:744`), and that of a
run killed by a signal is negative, so it is lost behind a 0. In the model every run ends with a status of its own.

Of a run of imports the model compares which modules are loaded and what each name is bound to in the end, not the order of
loading: `import a as x; import c as x; import a as x` comes back as `import c as x; import a as x`, which binds `x`
to the same module and loads `c` first.

`TextParses` is stated for code whose loops are entered at their heads only. Without that it is false: in code of 13
instructions that jumps from outside into the body of a loop, `_rewrite_if_as_while` takes an `if` begun outside the loop for a `while`, and
a `break` is written outside any loop. No compiler writes such code (every program of `round_trip` satisfies
`LoopsEnteredAtHeads`), and the run on any code is too short to hold it.

## 6. Proofs

No theorem is about a bounded instance: each holds for every value of the constants that satisfies the named assumptions
of its module.

**The main pass.** `BlockReplay_proof`, for every set of programs, every base indentation and
every length:

- `TypesHold`: `Spec => []TypeOK`;
- `IndentationHolds`: every line is indented by the number of open blocks (`IndentMatchesBlocks`);
- `StatementsHold`: the text holds the statements before `pc`, each once and in order (`StatementsKept`);
- `ImplementsStream`: `BlockReplay` implements the initial states and the steps of `StatementStream` under the refinement
  mapping (`written` is the set of offsets the lines were read from);
- `TextHolds`: the finished text is Python (`TextParses`).

The assumptions are `ProgramsAssumption` (code objects satisfy `IsCode`, the prescan hides conditional jumps only) and
`BaseAssumption`. The invariant of the first four is `IInv`, the conjunction of the three properties. The type
invariant is needed by the others because the handlers index `code` with the ends of blocks and with `pc`; that a
block ends inside the code is part of it and is what `LoopEscapes` and the clipped ends have to preserve. `StatementsKept`
speaks of the instruction each line was read from (`at`), so that a handler that rewrites a line in place has to leave
that alone; each handler needs one of four lemmas: a line that is no statement is appended, the next statement is
appended, a header is rewritten, the next instruction is no statement.

`TextParses` is far from inductive: it speaks of the end. `TInv` says what is true on the way. Its first half (`Text`) ties
lines and blocks: every open block was opened by a line that is still there, one level to the left of everything
after it (`Opened`), and the last line allows what comes next at the present level (`Fits`). With that an `else` finds
the line of the block it replaces. The second half (`Control`) is about the code: the body of a loop is walked with the loop's block
open, an `if` ends where its test jumps to and never inside a loop it was opened outside of, and a `while` block is
inside a `for`, so that `break` and `continue` are. The last two need `LoopsEnteredAtHeads`; the failure of the
proof without it is how the defect at the end of section 5 was found. TLC checked `TInv` on ten thousand random code objects
of 7 to 14 instructions before it was proved.

**The marshal reader.** The first part of `Marshal_proof`, for all data, both layouts of code objects and all hosts
(`DataAssumption`, `VersionAssumption`):

- `TypeCorrect`: `Spec => []TypeOK`. It says more than types: the parts of an object were made before it, so no object
  contains itself, and a reference or a place never leads out of what exists;
- `PlacesNest`: `Spec => []SlotsNest`;
- `FinishedObjectsStay`: `Spec => FinishedStay`, an action property.

The three rest on each other in this order: that `CloseContainer` fills the place of its own call and no other needs
the places of the open calls to be different (`SlotsNest`), which needs every open place to be inside `refs` (`TypeOK`),
so that the next one, at the end, is larger than all.

The second part puts the writer in front, for every set of graphs, however deep and however shared, every prefix
of what is written of them, and every other data (`GraphsAssumption`, `ForeignAssumption`, `StepsAssumption`;
for the last theorem also `LayoutAssumption`):

- `ReadIsWhatWasWritten`: `TripSpec => []AsWritten`. Of data that a writer made, what `load()` returns is the whole graph,
  shared objects included, and an exception is raised only where the data were cut short;
- `ReaderKeepsPromise`: the reader implements the initial states and the steps of `ReadBack`;
- `ReaderIsSound`: the three theorems above hold of data from a writer, too;
- `NamesArePutBack`: `TripSpec => []NamesInPlace`. For any number of variables, in either layout, the tables of names that
  `_Resolver` puts together for a code object count the variables as the compiler counted them for `LOAD_FAST` and
  `LOAD_DEREF`.

The argument is a simulation, from the reader to the writer. `InStep` says that after each step of the reader there is a number
of steps of the writer (`Linked`) at which the data read so far are the data written so far, the open `load()` calls are the
open calls of `w_object`, one for one and with as many parts to go (`Simulates`), and the places in `refs` are the places the writer has given
out, in order. `what` maps the objects of the heap to the nodes they were read for; it is a witness under a quantifier,
so that TLC checks the parts of the invariant, not the invariant (`ReadsBack` is what it sees of it). That an object nothing else refers to
is met once, and so never needs a place, is `OwnersFit`: once read, it is behind the call of an object that holds it, or
inside a complete one, and by `IsGraph` there is no second part to meet it at. The writer is a recursive function, and what
holds after any number of its steps needs an induction: the lemmas `Least`, `Inductive` and `Iterated` of `Induction` state
it with sets instead of an operator, from the theorem that the order of the naturals is well-founded.

`NamesArePutBack` adds what CPython promises of `localsplusnames` (`LayoutAssumption`, from `compute_localsplus_info`; TLC
evaluates it on the graphs of the run): first the locals, some of them cells, then the cells that are no locals,
then the free variables. The reader splits this table by kind, which takes a cell that is an argument twice, and the
decoder drops the second one by its name; that this gives back the table is `TableIsVariables`, and needs that the
chosen places end in a whole segment (`ChosenTail`) and that no other cell has the name of a local.

**The exception table.** `DecodeRoundTrip_proof`, for any code objects, any table of handlers with numbers of any size, any width
of a byte and of a chunk, and any number of bytes cut off (`ByteAssumption`, `ChunkAssumption`; `CodesAssumption` says that the
table is the assembler's, and TLC evaluates it on the codes of the run):

- `HandlersAreReadBack`: `Spec => []HandlersAreTheSources`.

The invariant `HandlersInv` says that there is a number of handlers whose bytes are those read so far and whose entries are those found
so far. A step needs that a number is read as it was written: the assembler finds the chunks of a number by dividing
(`Shifted`, `Length`), the reader looks for the first chunk that says that none follows (`NumberFound`) and multiplies its way back (`NumberRead`); and
that a cut inside any of the four numbers of an entry leaves one without such a chunk (`NumberCut`, `EntryCut`), though what is
left of it may look like a shorter table. The chunks before are not touched by the ones after (`TablesGrow`), so a cut
table still begins with the entries of the first handlers. `MostIs` then says that the number of the invariant is the one
the property chooses.

**The command line.** `CommandLine_proof`, for any places and any number of guesses (`MaxGuessesAssumption`):

- `StrictRunsDoNotGuess`: `Spec => []StrictGuessesNothing`;
- `GuessesAreNamed`: `Spec => []NeverSilent`;
- `StatusIsTrue`: `Spec => []StatusTellsTheTruth`;
- `TypesHold`: `Spec => []TypeOK`, no list of guesses naming a place twice included.

The invariant `Inv` of the first two adds what each step relies on: a guess that is kept is in `diagnostics`
(`KeptIsListed`; it is what merging a slice has to preserve), the names are out once the warnings are (`Warned`), and a
status means that `main()` has stopped (`Stopped`). One lemma, `Reported`, says what `_report()` does to all of
this. `StatusIsTrue` needs a different one, `Written`: nothing has been written at any stage before the file is opened, so an early end,
whatever its status, leaves everything as it was.

**The child of the correctness gate.** `DecompileRunner_proof`, for any number of files, with and without a time limit
(`EntriesAssumption`, `TimedAssumption`), whatever the children do:

- `AnswersAreOwn`, `FaultsStay`, `NobodyIsLeftBehind`: the three invariants of the run;
- `AllAreJudgedAtTheEnd`: a run that ends has judged every file (that it ends is checked by TLC, with a limit);
- `TypesHold`.

The pipe carries no identities, so nothing in a reply says whose it is. The inductive invariant is that the pipe is in
step (`Place`, `InStep`): where `check_pyc()` is determines what both directions hold and what the child can be
doing, except that it may have died at any of these points; all other children are dead with empty pipes
(`OthersAreQuiet`). `Marked` ties a death or an unreadable reply to the file being checked, and `Judged` ties the results to
the files before this one.

**The gates.** `Gates_proof`, for any corpus, any outcomes, any number of edits, updates
and runs (`OutcomesAssumption`, `StartsAssumption`; `TrialsAssumption`, `CorporaAssumption`):

- of the correctness gate `PassingIsSafe` (`PassMeansNoneWorse`) and `FailingHasAReason` (`FailMeansSomethingWorse`);
- of the differential gate `PassingRunIsSafe` (`PassMeansAllRecorded`), `FailingRunHasAReason` (`FailMeansWorse`) and
  `NamedRunsAgree` (`SomeAgreeWithAll`).

The invariants say that a baseline is what was found when it was written, as a function of the corpus of that time
(`BaselineIsRecord`, `BaselinesAreRecords`), and that a verdict is that of the present corpus (`VerdictIsCurrent`,
`ResultIsCurrent`). The rest is not about steps but about comparing two corpora: that ids within a file are
different, that the comparison by id and then by label misses no unit that is worse, and finds none where nothing is. For that
the theorems about the first gate assume `Unnumbered`: no statement's label looks like the numbered id of another. The
assumption is needed (TLC finds both properties violated without it) and is what `_label_counts()` takes for granted.

**Pull requests.** `PullRequests_proof`, for any number of pull requests, keys, findings and edits:

- `DebtIsRaisedOnPurpose`: `Spec => DebtGrowsOnPurpose`, an action property, whether or not branches must be up to date;
- `VersionsAreUnique` and `MainStaysWithinItsBaseline`, assuming `Protected`, the setting "Require branches to be up to
  date before merging" that `CONTRIBUTING.md:218` asks for. Without it both are false, as the document says;
- `TypesHold`.

`Inv` says that main is the end of its history and that a check made against the present main still holds of what would be merged
(`CheckStands`: every edit of the branch drops the check, and every merge moves main past it), and that a branch whose
baseline is above that of the main it started from has used `--allow-increase` (`RaisedOnPurpose`), which a three-way
merge does not break.

**Model-checked only.**

- Liveness and what rests on fairness: `Terminates`, `EveryEntryIsJudged`, and the liveness halves of `WritesStatements` and
  `ReadsBack`.
- What recursive definitions compute for every input. The modules with `RECURSIVE` operators (`BlockHandlers`, `CleanUp`,
  `Compile310`, `Compile311`, `CompoundConditions`, `Expressions`, `PythonText`, `RoundTrip`, `StraightCode`,
  `TextSemantics`) are beyond the SMT backend, and with them `SameBehaviour` of both runs, `SameRun`, `SameHandled`,
  `EveryLineParses`, `StackIsTheInterpreters`, `SameProgram`, `StaysPython`, `Idempotent` and `PreservesAst`.
- `BlocksNest`, which is true of compiled code only, and so needs an induction over the compiler.
- Three of the four properties of `decode`, on instructions, lines and effects: they need an induction over the
  instructions the assembler laid out, whose sizes come of growing the jumps until they reach.

## 7. Not modelled

`while` (the prescans of `_prescan_while_loops`), the structure of `try` and `with` in the main pass
(`_prescan_try_structure`, `analysis/handlers.py`), `match`, comprehensions, definitions, f-strings, and/or values and
conditional values other than those `MC_Expressions` names; chained comparisons; the 3.9 backend; the opcodes of 3.12 to
3.14 that rename what the generic handlers do; `get_decompiler` (the header and its attempts) and `versions.py`;
`collapse_chained_comparisons` and f-strings in the post-processing; parsing the arguments of the command line; what
`quality/check_coherency.py` counts in a text; the part of the table generator that finds interpreters and writes a
file. Negative sizes in marshal data and the exact exceptions are left out of the reader. `PROJECT.json` gives the reason for each.
