-------------------------- MODULE CorrectnessGate --------------------------
(***************************************************************************)
(* The gate of quality/check_correctness.py.  Every file of the corpus and *)
(* every unit of a source file (a statement of the module or of a class)   *)
(* is put on a ladder; the statuses are compared with those of a baseline, *)
(* and the run fails when a record of the baseline is on a lower rung or   *)
(* can no longer be compared.                                              *)
(*                                                                         *)
(* A unit is known to the baseline by its label, the text of its first     *)
(* line, and by a number among the units of the same label.  Here a        *)
(* statement also has an identity, so that the properties can say what     *)
(* became of it.                                                           *)
(***************************************************************************)
EXTENDS Naturals, Sequences, FiniteSets, SequencesExt

CONSTANTS Sources, Binaries,   \* paths of the corpus: .py and .pyc files
          Statements,          \* the statements a source file may hold
          LabelOf,             \* the label of each: a name, and a number if the text ends in # and digits
          Kinds,               \* kinds of diagnostics
          Outcomes,            \* what a check may come to: a status, and how often each kind was reported
          Starts,              \* the corpora to start from
          MaxEdits             \* bound on the changes since then

SOURCE_ERROR == "source_error"
LEVELS == <<"decompile_error", "syntax_error", "compile_error", "compiles">>

ASSUME OutcomesAssumption ==
    \A o \in Outcomes : /\ o.status \in {LEVELS[i] : i \in 1..4} \cup {SOURCE_ERROR}
                        /\ o.noise \in [Kinds -> Nat]
ASSUME StartsAssumption ==
    \A s \in Starts : /\ DOMAIN s.corpus \subseteq Sources \cup Binaries
                      /\ \A f \in DOMAIN s.corpus : /\ s.corpus[f] \in [own : Outcomes, units : Seq(Statements)]
                                                    /\ f \notin Sources => s.corpus[f].units = <<>>
                      /\ s.outcome \in [Statements -> Outcomes]

VARIABLES corpus,    \* the files there are; of each what its own check comes to, and its statements in order
          outcome,   \* what the check of each statement comes to
          baseline,  \* the baseline file
          recorded,  \* corpus and outcome when it was written (of use to the properties only)
          verdict,   \* the exit code of the last run, if nothing has changed since
          edits

cvars == <<corpus, outcome, baseline, recorded, verdict, edits>>

Paths == Sources \cup Binaries
\* A slip: a file or unit that is not in the baseline fails the run, as it does in check_differential.py.
FailingWhenNew == {"regressed", "missing", "lost", "ambiguous", "noisier", "new"}

FAILING_CHANGES == {"regressed", "missing", "lost", "ambiguous", "noisier"}

LevelOf(status) == CHOOSE i \in 1..Len(LEVELS) : LEVELS[i] = status
Scored(status) == status # SOURCE_ERROR

Commands == {"check", "update", "measure", "foreign", "bad path"}
NoVerdict == [code |-> 0, command |-> "none", whole |-> FALSE]

TypeOK == /\ DOMAIN corpus \subseteq Paths
          /\ \A f \in DOMAIN corpus : /\ corpus[f].own \in Outcomes
                                      /\ corpus[f].units \in Seq(Statements)
          /\ outcome \in [Statements -> Outcomes]
          /\ \A f \in DOMAIN baseline : DOMAIN baseline[f].noises = DOMAIN baseline[f].units
          /\ DOMAIN recorded = DOMAIN baseline
          /\ verdict \in [code : 0..2, command : Commands \cup {"none"}, whole : BOOLEAN]
          /\ edits \in 0..MaxEdits

-----------------------------------------------------------------------------
(* What a run finds *)

\* extract_units(): the label, and a number from the second unit of the same label on.
Nth(units, i) == Cardinality({j \in 1..i : LabelOf[units[j]] = LabelOf[units[i]]})
UnitId(units, i) ==
    IF Nth(units, i) = 1 THEN LabelOf[units[i]] ELSE Append(LabelOf[units[i]], Nth(units, i))

\* check_entry(): a file that does not compile has no units; a later unit of the same id takes the place of
\* an earlier one.
HasUnits(f) == f \in Sources /\ Scored(corpus[f].own.status)
UnitsOf(f) ==
    LET units == corpus[f].units
        ids == IF HasUnits(f) THEN {UnitId(units, i) : i \in DOMAIN units} ELSE {}
    IN  [id \in ids |-> outcome[units[CHOOSE i \in DOMAIN units :
                                        /\ UnitId(units, i) = id
                                        /\ \A j \in DOMAIN units : UnitId(units, j) = id => j <= i]]]

\* to_baseline()
RecordOf(f) == [status |-> corpus[f].own.status,
                noise |-> corpus[f].own.noise,
                units |-> [id \in DOMAIN UnitsOf(f) |-> UnitsOf(f)[id].status],
                noises |-> [id \in DOMAIN UnitsOf(f) |-> UnitsOf(f)[id].noise]]

-----------------------------------------------------------------------------
(* compare() *)

\* _change()
Change(before, after) ==
    IF before = after THEN {}
    ELSE IF Scored(before) /\ ~Scored(after) THEN {"lost"}
    ELSE IF ~Scored(before) THEN {"unscorable"}
    ELSE IF LevelOf(after) < LevelOf(before) THEN {"regressed"} ELSE {"improved"}

\* _more_kinds()
MoreKinds(now, before) == \E k \in Kinds : now[k] > before[k]

\* _label_counts(): a number at the end of an id is taken for the number of a repeated label.
Folded(id) == IF Len(id) > 1 THEN Front(id) ELSE id

\* A slip: units are counted by their ids.
LabelCountById(ids, label) == Cardinality({id \in ids : id = label})

LabelCount(ids, label) == Cardinality({id \in ids : Folded(id) = label})

\* The changes of one file that both the run and the baseline have.
FileChanges(f) ==
    LET b == baseline[f]
        units == UnitsOf(f)
        now == DOMAIN units
        before == DOMAIN b.units
        both == {Folded(id) : id \in now} \cap {Folded(id) : id \in before}
        If(condition, change) == IF condition THEN {change} ELSE {}
    IN  Change(b.status, corpus[f].own.status)
        \cup If(\E label \in both : LabelCount(now, label) # LabelCount(before, label), "ambiguous")
        \cup If(~(now \subseteq before), "new")
        \cup (UNION {Change(b.units[id], units[id].status) : id \in now \cap before})
        \cup If(Scored(corpus[f].own.status) /\ ~(before \subseteq now), "missing")
        \cup If(\/ MoreKinds(corpus[f].own.noise, b.noise)
                \/ \E id \in now \cap before : MoreKinds(units[id].noise, b.noises[id]), "noisier")

Changes(files) ==
    (UNION {FileChanges(f) : f \in files \cap DOMAIN baseline})
    \cup (IF files \subseteq DOMAIN baseline THEN {} ELSE {"new"})
    \cup (IF DOMAIN baseline \subseteq files THEN {} ELSE {"missing"})

ExitCode(files) == IF Changes(files) \cap FAILING_CHANGES # {} THEN 1 ELSE 0

-----------------------------------------------------------------------------
\* The repository starts with a baseline of what it then comes to.
CInit == /\ \E s \in Starts : corpus = s.corpus /\ outcome = s.outcome
         /\ baseline = [f \in DOMAIN corpus |-> RecordOf(f)]
         /\ recorded = [f \in DOMAIN corpus |-> [own |-> corpus[f].own, units |-> corpus[f].units, outcome |-> outcome]]
         /\ verdict = NoVerdict
         /\ edits = 0

Edited == /\ edits < MaxEdits
          /\ edits' = edits + 1
          /\ verdict' = NoVerdict
          /\ UNCHANGED <<baseline, recorded>>

SetUnits(f, units) == /\ corpus' = [corpus EXCEPT ![f].units = units]
                      /\ UNCHANGED outcome
                      /\ Edited

InsertStatement(f) == \E s \in Statements, i \in 1..(Len(corpus[f].units) + 1) :
                         /\ \A g \in DOMAIN corpus : s \notin Range(corpus[g].units)
                         /\ SetUnits(f, InsertAt(corpus[f].units, i, s))

RemoveStatement(f) == \E i \in DOMAIN corpus[f].units : SetUnits(f, RemoveAt(corpus[f].units, i))

MoveStatement(f) == \E i \in DOMAIN corpus[f].units, j \in DOMAIN corpus[f].units :
                       /\ i # j
                       /\ SetUnits(f, InsertAt(RemoveAt(corpus[f].units, i), j, corpus[f].units[i]))

\* A change of the decompiler, or of the text of a statement after its first line.
ChangeStatement == \E s \in Statements, o \in Outcomes : /\ o # outcome[s]
                                                         /\ outcome' = [outcome EXCEPT ![s] = o]
                                                         /\ UNCHANGED corpus
                                                         /\ Edited

ChangeFile(f) == \E o \in Outcomes : /\ o # corpus[f].own
                                     /\ corpus' = [corpus EXCEPT ![f].own = o]
                                     /\ UNCHANGED outcome
                                     /\ Edited

AddFile(f) == /\ f \notin DOMAIN corpus
              /\ \E o \in Outcomes :
                    corpus' = [g \in DOMAIN corpus \cup {f} |->
                                  IF g = f THEN [own |-> o, units |-> <<>>] ELSE corpus[g]]
              /\ UNCHANGED outcome
              /\ Edited

RemoveFile(f) == /\ corpus' = [g \in DOMAIN corpus \ {f} |-> corpus[g]]
                 /\ UNCHANGED outcome
                 /\ Edited

-----------------------------------------------------------------------------
(* main() *)

Exit(code, command, files) == /\ verdict' = [code |-> code, command |-> command, whole |-> files = DOMAIN corpus]
                              /\ UNCHANGED <<corpus, outcome, edits>>

RunGate(files) == /\ Exit(ExitCode(files), "check", files)
                  /\ UNCHANGED <<baseline, recorded>>

\* --no-baseline
Measure(files) == /\ Exit(0, "measure", files)
                  /\ UNCHANGED <<baseline, recorded>>

\* A path that is not there, no baseline, or one of another Python version or schema.
RefuseToRun(why) == /\ Exit(2, why, {})
                    /\ UNCHANGED <<baseline, recorded>>

\* --update-baseline: the file holds what this run has found, and nothing else; the run is then compared with it.
UpdateBaseline(files) ==
    /\ baseline' = [f \in files |-> RecordOf(f)]
    /\ recorded' = [f \in files |-> [own |-> corpus[f].own, units |-> corpus[f].units, outcome |-> outcome]]
    /\ Exit(0, "update", files)

CEdit == \/ \E f \in DOMAIN corpus : RemoveFile(f) \/ ChangeFile(f)
         \/ \E f \in DOMAIN corpus \cap Sources : InsertStatement(f) \/ RemoveStatement(f) \/ MoveStatement(f)
         \/ \E f \in Paths : AddFile(f)
         \/ ChangeStatement

CRun == \E files \in (SUBSET DOMAIN corpus) \ {{}} :
           RunGate(files) \/ Measure(files) \/ UpdateBaseline(files)

CNext == CEdit \/ CRun \/ \E why \in {"foreign", "bad path"} : RefuseToRun(why)

CSpec == CInit /\ [][CNext]_cvars

-----------------------------------------------------------------------------
(* What it is for *)

Worse(now, before) == /\ Scored(before.status)
                      /\ \/ ~Scored(now.status)
                         \/ LevelOf(now.status) < LevelOf(before.status)
                         \/ MoreKinds(now.noise, before.noise)

\* The statements of one label, each with its place among them.
Twins(units, label) == {<<Nth(units, i), units[i]>> : i \in {j \in DOMAIN units : LabelOf[units[j]] = label}}

\* As many statements of one label as there were, and not the same ones in the same order.
Shuffled(f, label) ==
    LET before == Twins(recorded[f].units, label)  now == Twins(corpus[f].units, label)
    IN  now # before /\ Cardinality(now) = Cardinality(before)

StatementWorse(f, s) == \/ s \notin Range(corpus[f].units)
                        \/ HasUnits(f) /\ Worse(outcome[s], recorded[f].outcome[s])

WholeCheck(code) == verdict.command = "check" /\ verdict.whole /\ verdict.code = code

RecordedUnits(f) == IF Scored(recorded[f].own.status) THEN Range(recorded[f].units) ELSE {}

\* "Any file or unit that drops to a lower rung than its baseline is a regression and fails the run; so does any
\* change that stops a baseline record from being compared": when the gate passes, every file and every statement
\* the baseline was written for is still there and no worse, wherever it has moved to, as long as statements
\* with one label keep their order.
PassMeansNoneWorse ==
    WholeCheck(0) =>
        \A f \in DOMAIN recorded :
            /\ f \in DOMAIN corpus
            /\ ~Worse(corpus[f].own, recorded[f].own)
            /\ \A s \in RecordedUnits(f) : Shuffled(f, LabelOf[s]) \/ ~StatementWorse(f, s)

\* "Improvements never break CI", and neither do new files, new statements and moves: when the gate fails,
\* something recorded has gone or is worse, or the statements of one label have changed.
FailMeansSomethingWorse ==
    WholeCheck(1) =>
        \E f \in DOMAIN recorded :
            \/ f \notin DOMAIN corpus
            \/ Worse(corpus[f].own, recorded[f].own)
            \/ MoreKinds(corpus[f].own.noise, recorded[f].own.noise)
            \/ \E s \in RecordedUnits(f) : \/ StatementWorse(f, s)
                                           \/ MoreKinds(outcome[s].noise, recorded[f].outcome[s].noise)
                                           \/ Twins(corpus[f].units, LabelOf[s]) # Twins(recorded[f].units, LabelOf[s])

\* "Ids never contain line numbers, so moving a statement keeps its identity" (docs/correctness.md): a gate that
\* passes has compared every statement that is still there with what was recorded of it.
MovingKeepsIdentity ==
    WholeCheck(0) =>
        \A f \in DOMAIN recorded \cap DOMAIN corpus :
            \A s \in RecordedUnits(f) \cap Range(corpus[f].units) :
                HasUnits(f) => ~Worse(outcome[s], recorded[f].outcome[s])

=============================================================================
