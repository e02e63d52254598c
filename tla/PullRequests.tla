---------------------------- MODULE PullRequests ----------------------------
(***************************************************************************)
(* The two gates that compare a pull request with the main branch:         *)
(* .github/scripts/check_version_bump.py, against the version on main, and *)
(* quality/check_lint.py, against the baseline that is itself a file of    *)
(* the repository.  Several pull requests are open at a time and main      *)
(* moves under them; a check is not run again when it does.                *)
(*                                                                         *)
(* git and GitHub are modelled by what the two scripts see of them: the    *)
(* test merge of a branch with main, which does not exist while a file has *)
(* been changed in both.                                                   *)
(***************************************************************************)
EXTENDS Integers, Sequences, FiniteSets

CONSTANTS Pulls,        \* the pull requests
          Keys,         \* finding_key: what lint findings are counted under
          MaxFindings,  \* bound on the findings of one key at the start
          MaxPart,      \* bound on a part of a version
          MaxEdits,     \* bound on the changes of findings in one pull request
          Protected     \* "Require branches to be up to date before merging"

ASSUME PullsAssumption == IsFiniteSet(Pulls)
ASSUME KeysAssumption == IsFiniteSet(Keys)
ASSUME BoundsAssumption == /\ MaxFindings \in Nat
                           /\ MaxPart \in Nat
                           /\ MaxEdits \in Nat
ASSUME ProtectedAssumption == Protected \in BOOLEAN

VARIABLES main,      \* version, findings and baseline on the main branch
          history,   \* the versions main has had
          branch,    \* what each pull request has made of the main it started from
          base,      \* that main, and its place in the history
          checked,   \* the place in the history each was last checked against, 0 if it has changed since
          edits,     \* changes of findings so far
          granted    \* a pull request that has used --allow-increase

vars == <<main, history, branch, base, checked, edits, granted>>

Part == 0..MaxPart
Versions == Part \X Part \X Part
Counts == [Keys -> Nat]
Tree == [version : Versions, findings : Counts, baseline : Counts]

TypeOK == /\ main \in Tree
          /\ history \in Seq(Versions)
          /\ branch \in [Pulls -> Tree]
          /\ base \in [Pulls -> [tree : Tree, at : Nat]]
          /\ checked \in [Pulls -> Nat \cup {-1}]
          /\ edits \in [Pulls -> 0..MaxEdits]
          /\ granted \subseteq Pulls

Unchecked == 0
Landed == -1

\* The pull requests start at one main, whose findings are those its baseline allows.
Init == /\ main \in {[version |-> <<0, 0, 0>>, findings |-> c, baseline |-> c] : c \in [Keys -> 0..MaxFindings]}
        /\ history = <<main.version>>
        /\ branch = [p \in Pulls |-> main]
        /\ base = [p \in Pulls |-> [tree |-> main, at |-> 1]]
        /\ checked = [p \in Pulls |-> Unchecked]
        /\ edits = [p \in Pulls |-> 0]
        /\ granted = {}

-----------------------------------------------------------------------------
(* git *)

\* A line that only one side has changed is that side's; one that both have changed alike is that.
Merge3(old, ours, theirs) == IF theirs = old THEN ours ELSE theirs
Conflict(old, ours, theirs) == ours # old /\ theirs # old /\ ours # theirs

Conflicts(p) ==
    LET old == base[p].tree  new == branch[p]
    IN  \/ Conflict(old.version, main.version, new.version)
        \/ \E k \in Keys : Conflict(old.baseline[k], main.baseline[k], new.baseline[k])

\* Findings are in code: those a branch has added or removed are added to main's, or removed.
Merged(p) ==
    LET old == base[p].tree  new == branch[p]
        Sum(k) == main.findings[k] + new.findings[k] - old.findings[k]
    IN  [version |-> Merge3(old.version, main.version, new.version),
         findings |-> [k \in Keys |-> IF Sum(k) < 0 THEN 0 ELSE Sum(k)],
         baseline |-> [k \in Keys |-> Merge3(old.baseline[k], main.baseline[k], new.baseline[k])]]

-----------------------------------------------------------------------------
(* The two scripts *)

NextVersions(v) == {<<v[1], v[2], v[3] + 1>>, <<v[1], v[2] + 1, 0>>, <<v[1] + 1, 0, 0>>}

\* A slip: only the keys the baseline has are looked at.
IncreasedOfThoseKnown(t) == {k \in Keys : t.baseline[k] > 0 /\ t.findings[k] > t.baseline[k]}

\* compare(): the keys with more findings than the baseline allows.
Increased(t) == {k \in Keys : t.findings[k] > t.baseline[k]}

\* A slip: any other version will do.
VersionChanged(old, t) == t.version # old.version

\* check_version_bump.main(), with main's version taken from the first parent of the test merge.
VersionBumped(old, t) == t.version \in NextVersions(old.version)

\* check_lint.main() without --update-baseline.
LintPasses(t) == Increased(t) = {}

-----------------------------------------------------------------------------
Open(p) == checked[p] # Landed

Edit(p) ==
    /\ Open(p)
    /\ edits[p] < MaxEdits
    /\ \E k \in Keys, n \in {-1, 1} :
          /\ branch[p].findings[k] + n >= 0
          /\ branch' = [branch EXCEPT ![p].findings[k] = @ + n]
    /\ edits' = [edits EXCEPT ![p] = @ + 1]
    /\ checked' = [checked EXCEPT ![p] = Unchecked]
    /\ UNCHANGED <<main, history, base, granted>>

\* The author writes some version, the right one or not.
Bump(p) ==
    /\ Open(p)
    /\ \E v \in Versions :
          /\ v # branch[p].version
          /\ branch' = [branch EXCEPT ![p].version = v]
    /\ checked' = [checked EXCEPT ![p] = Unchecked]
    /\ UNCHANGED <<main, history, base, edits, granted>>

\* A slip: the baseline is written before the command refuses.
RecordThenRefuse(p, allow) ==
    /\ Open(p)
    /\ branch[p].baseline # branch[p].findings
    /\ branch' = [branch EXCEPT ![p].baseline = branch[p].findings]
    /\ granted' = IF allow /\ Increased(branch[p]) # {} THEN granted \cup {p} ELSE granted
    /\ checked' = [checked EXCEPT ![p] = Unchecked]
    /\ UNCHANGED <<main, history, base, edits>>

\* check_lint.py --update-baseline: refuses to raise a count, unless --allow-increase is given.
Record(p, allow) ==
    /\ Open(p)
    /\ allow \/ Increased(branch[p]) = {}
    /\ branch[p].baseline # branch[p].findings
    /\ branch' = [branch EXCEPT ![p].baseline = branch[p].findings]
    /\ granted' = IF allow /\ Increased(branch[p]) # {} THEN granted \cup {p} ELSE granted
    /\ checked' = [checked EXCEPT ![p] = Unchecked]
    /\ UNCHANGED <<main, history, base, edits>>

\* main is merged into the branch; where both have changed a line, the author takes main's.
Catch(p) ==
    LET old == base[p].tree  new == branch[p]
        Take(o, m, n) == IF Conflict(o, m, n) THEN m ELSE Merge3(o, m, n)
    IN  /\ Open(p)
        /\ base[p].at < Len(history)
        /\ branch' = [branch EXCEPT ![p] =
                         [version |-> Take(old.version, main.version, new.version),
                          findings |-> Merged(p).findings,
                          baseline |-> [k \in Keys |-> Take(old.baseline[k], main.baseline[k], new.baseline[k])]]]
        /\ base' = [base EXCEPT ![p] = [tree |-> main, at |-> Len(history)]]
        /\ checked' = [checked EXCEPT ![p] = Unchecked]
        /\ UNCHANGED <<main, history, edits, granted>>

\* The workflows Version and Lint run on the test merge of the branch with main as it is then.
Check(p) ==
    /\ Open(p)
    /\ checked[p] # Len(history)
    /\ ~Conflicts(p)
    /\ VersionBumped(main, Merged(p))
    /\ LintPasses(Merged(p))
    /\ checked' = [checked EXCEPT ![p] = Len(history)]
    /\ UNCHANGED <<main, history, branch, base, edits, granted>>

\* A pull request whose checks have passed is merged.
Land(p) ==
    /\ checked[p] > 0
    /\ ~Conflicts(p)
    /\ Protected => checked[p] = Len(history)
    /\ main' = Merged(p)
    /\ history' = Append(history, Merged(p).version)
    /\ checked' = [checked EXCEPT ![p] = Landed]
    /\ UNCHANGED <<branch, base, edits, granted>>

Next == \E p \in Pulls : \/ Edit(p) \/ Bump(p) \/ Catch(p)
                         \/ \E allow \in BOOLEAN : Record(p, allow)
                         \/ Check(p) \/ Land(p)

Spec == Init /\ [][Next]_vars

-----------------------------------------------------------------------------
\* "every merged pull request gets its own version" (CONTRIBUTING.md), one step after the one before,
\* whichever pull request main has taken in between.
EveryMergeHasItsOwnVersion ==
    \A i \in 1..(Len(history) - 1) : history[i + 1] \in NextVersions(history[i])

\* main passes its own lint check, so that no pull request fails for the findings of another.
MainIsWithinItsBaseline == \A k \in Keys : main.findings[k] <= main.baseline[k]

\* Debt cannot grow: what main allows is raised only by a pull request that said so.
DebtGrowsOnPurpose ==
    [][(\E k \in Keys : main'.baseline[k] > main.baseline[k])
          => \E p \in granted : checked[p] # Landed /\ checked'[p] = Landed]_main

=============================================================================
