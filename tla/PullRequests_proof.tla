------------------------ MODULE PullRequests_proof ------------------------
(***************************************************************************)
(* Proofs about the version and lint gates (PullRequests.tla), for any     *)
(* number of pull requests and keys and any bounds.                        *)
(***************************************************************************)
EXTENDS PullRequests, SequenceTheorems, TLAPS

\* The end of the history is the main branch, and no check is from the future.
Current == /\ Len(history) > 0
           /\ history[Len(history)] = main.version
           /\ \A p \in Pulls : checked[p] <= Len(history)

\* A check made against the present main still says what would be merged: neither side has changed since.
CheckStands ==
    \A p \in Pulls : checked[p] = Len(history) => VersionBumped(main, Merged(p)) /\ LintPasses(Merged(p))

\* A branch allows more than the main it started from only if its author said so.
RaisedOnPurpose ==
    \A p \in Pulls, k \in Keys : branch[p].baseline[k] > base[p].tree.baseline[k] => p \in granted

\* What holds whether or not the branches must be up to date ...
Inv == TypeOK /\ Current /\ CheckStands /\ RaisedOnPurpose

\* ... and what only that makes true.
ProtectedInv == Inv /\ EveryMergeHasItsOwnVersion /\ MainIsWithinItsBaseline
-----------------------------------------------------------------------------
LEMMA Bounds == MaxFindings \in Nat /\ MaxPart \in Nat /\ MaxEdits \in Nat
  BY BoundsAssumption

\* A merge keeps to one of the three sides, version and baseline apart; no count falls below 0.
LEMMA MergedIsATree ==
    ASSUME TypeOK, NEW p \in Pulls
    PROVE  /\ Merged(p) \in Tree
           /\ Merged(p).baseline \in [Keys -> Nat]
           /\ Merged(p).version = Merge3(base[p].tree.version, main.version, branch[p].version)
           /\ \A k \in Keys : Merged(p).baseline[k] =
                  Merge3(base[p].tree.baseline[k], main.baseline[k], branch[p].baseline[k])
<1> DEFINE old == base[p].tree
           new == branch[p]
<1>1. main \in Tree /\ old \in Tree /\ new \in Tree
  BY DEF TypeOK
<1>2. Merge3(old.version, main.version, new.version) \in Versions
  BY <1>1 DEF Tree, Merge3
<1>3. [k \in Keys |-> Merge3(old.baseline[k], main.baseline[k], new.baseline[k])] \in Counts
  BY <1>1 DEF Tree, Counts, Merge3
<1>4. ASSUME NEW k \in Keys
      PROVE  main.findings[k] \in Nat /\ new.findings[k] \in Nat /\ old.findings[k] \in Nat
  BY <1>1 DEF Tree, Counts
<1>5. [k \in Keys |-> IF main.findings[k] + new.findings[k] - old.findings[k] < 0 THEN 0
                      ELSE main.findings[k] + new.findings[k] - old.findings[k]] \in Counts
  BY <1>4 DEF Counts
<1> HIDE DEF old, new
<1>6. /\ Merged(p) = [version |-> Merge3(old.version, main.version, new.version),
                      findings |-> [k \in Keys |-> IF main.findings[k] + new.findings[k] - old.findings[k] < 0 THEN 0
                                                   ELSE main.findings[k] + new.findings[k] - old.findings[k]],
                      baseline |-> [k \in Keys |-> Merge3(old.baseline[k], main.baseline[k], new.baseline[k])]]
  BY DEF Merged, old, new
<1>7. Merged(p) \in Tree
  BY <1>2, <1>3, <1>5, <1>6 DEF Tree
<1> QED
  BY <1>3, <1>6, <1>7 DEF old, new, Counts

LEMMA InvInit == Init => ProtectedInv
<1> SUFFICES ASSUME Init PROVE ProtectedInv
  OBVIOUS
<1>1. PICK c \in [Keys -> 0..MaxFindings] : main = [version |-> <<0, 0, 0>>, findings |-> c, baseline |-> c]
  BY DEF Init
<1>2. main \in Tree
  BY <1>1, Bounds DEF Tree, Versions, Part, Counts
<1>3. history = <<main.version>> /\ history \in Seq(Versions) /\ Len(history) = 1 /\ history[1] = main.version
  BY <1>2 DEF Init, Tree
<1>4. TypeOK
  BY <1>2, <1>3, Bounds DEF Init, TypeOK, Unchecked
<1>5. Current /\ CheckStands
  BY <1>3 DEF Init, Current, CheckStands, Unchecked
<1>6. RaisedOnPurpose
  BY <1>2 DEF Init, RaisedOnPurpose, Tree, Counts
<1>7. EveryMergeHasItsOwnVersion
  BY <1>3 DEF EveryMergeHasItsOwnVersion
<1>8. MainIsWithinItsBaseline
  BY <1>1 DEF MainIsWithinItsBaseline
<1> QED
  BY <1>4, <1>5, <1>6, <1>7, <1>8 DEF Inv, ProtectedInv

\* What every change of a branch has in common: its check is void, and main is as it was.
LEMMA Worked ==
    ASSUME Inv, NEW p \in Pulls,
           UNCHANGED <<main, history>>,
           checked' = [checked EXCEPT ![p] = Unchecked],
           NEW tree \in Tree, branch' = [branch EXCEPT ![p] = tree],
           NEW from \in [tree : Tree, at : Nat], base' = [base EXCEPT ![p] = from],
           edits' \in [Pulls -> 0..MaxEdits],
           granted' \in {granted, granted \cup {p}},
           \A k \in Keys : tree.baseline[k] > from.tree.baseline[k] => p \in granted'
    PROVE  Inv'
<1>1. TypeOK'
  BY DEF Inv, TypeOK, Unchecked
<1>2. Current'
  BY DEF Inv, TypeOK, Current, Unchecked
<1>3. CheckStands'
  <2> SUFFICES ASSUME NEW q \in Pulls, checked'[q] = Len(history')
               PROVE  VersionBumped(main, Merged(q))' /\ LintPasses(Merged(q))'
    BY DEF CheckStands
  <2>1. q # p
    BY DEF Inv, TypeOK, Current, Unchecked
  <2>2. branch'[q] = branch[q] /\ base'[q] = base[q] /\ checked'[q] = checked[q]
    BY <2>1 DEF Inv, TypeOK
  <2>3. Merged(q)' = Merged(q)
    BY <2>2 DEF Merged
  <2> QED
    BY <2>2, <2>3 DEF Inv, CheckStands, VersionBumped, LintPasses, Increased
<1>4. RaisedOnPurpose'
  <2> SUFFICES ASSUME NEW q \in Pulls, NEW k \in Keys, branch'[q].baseline[k] > base'[q].tree.baseline[k]
               PROVE  q \in granted'
    BY DEF RaisedOnPurpose
  <2>1. CASE q = p
    BY <2>1 DEF Inv, TypeOK
  <2>2. CASE q # p
    BY <2>2 DEF Inv, TypeOK, RaisedOnPurpose
  <2> QED
    BY <2>1, <2>2
<1> QED
  BY <1>1, <1>2, <1>3, <1>4 DEF Inv

\* The four ways an author changes a branch.
LEMMA WorkStep ==
    ASSUME Inv, NEW p \in Pulls,
           Edit(p) \/ Bump(p) \/ Catch(p) \/ \E allow \in BOOLEAN : Record(p, allow)
    PROVE  Inv' /\ UNCHANGED <<main, history>>
<1> USE Bounds
<1> SUFFICES Inv'
  BY DEF Edit, Bump, Catch, Record
<1>1. branch[p] \in Tree /\ base[p] \in [tree : Tree, at : Nat] /\ base = [base EXCEPT ![p] = base[p]]
  BY DEF Inv, TypeOK
<1>2. CASE Edit(p)
  <2>1. PICK k \in Keys, n \in {-1, 1} : /\ branch[p].findings[k] + n >= 0
                                         /\ branch' = [branch EXCEPT ![p].findings[k] = @ + n]
    BY <1>2 DEF Edit
  <2> DEFINE tree == [branch[p] EXCEPT !.findings = [branch[p].findings EXCEPT ![k] = branch[p].findings[k] + n]]
  <2>2. branch' = [branch EXCEPT ![p] = tree]
    BY <2>1 DEF Inv, TypeOK
  <2>3. tree \in Tree /\ tree.baseline = branch[p].baseline
    BY <1>1, <2>1 DEF Tree, Counts
  <2>4. edits' \in [Pulls -> 0..MaxEdits]
    BY <1>2 DEF Edit, Inv, TypeOK
  <2> HIDE DEF tree
  <2>5. UNCHANGED <<main, history, base, granted>> /\ checked' = [checked EXCEPT ![p] = Unchecked]
    BY <1>2 DEF Edit
  <2>6. \A q \in Keys : tree.baseline[q] > base[p].tree.baseline[q] => p \in granted'
    BY <2>3, <2>5 DEF Inv, RaisedOnPurpose
  <2> QED
    BY <1>1, <2>2, <2>3, <2>4, <2>5, <2>6, Worked
<1>3. CASE Bump(p)
  <2>1. PICK v \in Versions : branch' = [branch EXCEPT ![p].version = v]
    BY <1>3 DEF Bump
  <2> DEFINE tree == [branch[p] EXCEPT !.version = v]
  <2>2. branch' = [branch EXCEPT ![p] = tree]
    BY <2>1 DEF Inv, TypeOK
  <2>3. tree \in Tree /\ tree.baseline = branch[p].baseline
    BY <1>1 DEF Tree
  <2> HIDE DEF tree
  <2>4. UNCHANGED <<main, history, base, edits, granted>> /\ checked' = [checked EXCEPT ![p] = Unchecked]
    BY <1>3 DEF Bump
  <2>5. \A k \in Keys : tree.baseline[k] > base[p].tree.baseline[k] => p \in granted'
    BY <2>3, <2>4 DEF Inv, RaisedOnPurpose
  <2>6. edits' \in [Pulls -> 0..MaxEdits] /\ granted' \in {granted, granted \cup {p}}
    BY <2>4 DEF Inv, TypeOK
  <2> QED
    BY <1>1, <2>2, <2>3, <2>4, <2>5, <2>6, Worked
<1>4. CASE Catch(p)
  <2> DEFINE old == base[p].tree
             new == branch[p]
             Take(o, m, n) == IF Conflict(o, m, n) THEN m ELSE Merge3(o, m, n)
             tree == [version |-> Take(old.version, main.version, new.version),
                      findings |-> Merged(p).findings,
                      baseline |-> [k \in Keys |-> Take(old.baseline[k], main.baseline[k], new.baseline[k])]]
             from == [tree |-> main, at |-> Len(history)]
  <2>1. /\ branch' = [branch EXCEPT ![p] = tree]
        /\ base' = [base EXCEPT ![p] = from]
        /\ checked' = [checked EXCEPT ![p] = Unchecked]
        /\ UNCHANGED <<main, history, edits, granted>>
    BY <1>4 DEF Catch
  <2>2. main \in Tree /\ old \in Tree /\ new \in Tree /\ Merged(p) \in Tree
    BY MergedIsATree DEF Inv, TypeOK
  <2>3. Take(old.version, main.version, new.version) \in Versions
    BY <2>2 DEF Tree, Merge3
  <2>4. ASSUME NEW k \in Keys
        PROVE  /\ Take(old.baseline[k], main.baseline[k], new.baseline[k]) \in Nat
               /\ tree.baseline[k] > main.baseline[k] => new.baseline[k] > old.baseline[k]
    BY <2>2 DEF Tree, Counts, Merge3, Conflict
  <2>5. tree \in Tree
    <3>1. [k \in Keys |-> Take(old.baseline[k], main.baseline[k], new.baseline[k])] \in Counts
      BY <2>4 DEF Counts
    <3> HIDE DEF Take
    <3> QED
      BY <2>2, <2>3, <3>1 DEF Tree
  <2>6. from \in [tree : Tree, at : Nat]
    BY <2>2 DEF Inv, TypeOK
  <2>7. \A k \in Keys : tree.baseline[k] > from.tree.baseline[k] => p \in granted
    BY <2>4 DEF Inv, RaisedOnPurpose
  <2> HIDE DEF tree, from
  <2> QED
    BY <2>1, <2>5, <2>6, <2>7, Worked DEF Inv, TypeOK
<1>5. CASE \E allow \in BOOLEAN : Record(p, allow)
  <2>1. PICK allow \in BOOLEAN : Record(p, allow)
    BY <1>5
  <2> DEFINE tree == [branch[p] EXCEPT !.baseline = branch[p].findings]
  <2>2. /\ branch' = [branch EXCEPT ![p] = tree]
        /\ checked' = [checked EXCEPT ![p] = Unchecked]
        /\ UNCHANGED <<main, history, base, edits>>
        /\ allow \/ Increased(branch[p]) = {}
        /\ granted' = IF allow /\ Increased(branch[p]) # {} THEN granted \cup {p} ELSE granted
    BY <2>1 DEF Record, Inv, TypeOK
  <2>3. tree \in Tree /\ tree.baseline = branch[p].findings
    BY <1>1 DEF Tree
  <2>4. ASSUME NEW k \in Keys, tree.baseline[k] > base[p].tree.baseline[k] PROVE p \in granted'
    <3>1. CASE Increased(branch[p]) # {}
      BY <2>2, <3>1
    <3>2. CASE Increased(branch[p]) = {}
      <4>1. /\ branch[p].findings[k] \in Nat /\ branch[p].baseline[k] \in Nat
            /\ base[p].tree.baseline[k] \in Nat
        BY <1>1 DEF Tree, Counts
      <4>2. branch[p].findings[k] <= branch[p].baseline[k]
        BY <3>2, <4>1 DEF Increased
      <4>3. branch[p].baseline[k] > base[p].tree.baseline[k]
        BY <2>3, <2>4, <4>1, <4>2
      <4> QED
        BY <2>2, <4>3 DEF Inv, RaisedOnPurpose
    <3> QED
      BY <3>1, <3>2
  <2> HIDE DEF tree
  <2> QED
    BY <1>1, <2>2, <2>3, <2>4, Worked DEF Inv, TypeOK
<1> QED
  BY <1>2, <1>3, <1>4, <1>5

LEMMA CheckStep ==
    ASSUME Inv, NEW p \in Pulls, Check(p)
    PROVE  Inv' /\ UNCHANGED <<main, history>>
<1>1. /\ checked' = [checked EXCEPT ![p] = Len(history)]
      /\ VersionBumped(main, Merged(p)) /\ LintPasses(Merged(p))
      /\ UNCHANGED <<main, history, branch, base, edits, granted>>
  BY DEF Check
<1>2. TypeOK' /\ Current' /\ RaisedOnPurpose'
  BY <1>1 DEF Inv, TypeOK, Current, RaisedOnPurpose
<1>3. CheckStands'
  <2> SUFFICES ASSUME NEW q \in Pulls, checked'[q] = Len(history')
               PROVE  VersionBumped(main, Merged(q))' /\ LintPasses(Merged(q))'
    BY DEF CheckStands
  <2>1. Merged(q)' = Merged(q) /\ main' = main
    BY <1>1 DEF Merged
  <2>2. VersionBumped(main, Merged(q)) /\ LintPasses(Merged(q))
    BY <1>1 DEF Inv, TypeOK, CheckStands
  <2> QED
    BY <2>1, <2>2 DEF VersionBumped, LintPasses, Increased
<1> QED
  BY <1>1, <1>2, <1>3 DEF Inv

LEMMA LandStep ==
    ASSUME Inv, NEW p \in Pulls, Land(p)
    PROVE  /\ Inv'
           /\ main' = Merged(p)
           /\ history' \in Seq(Versions) /\ Len(history') = Len(history) + 1
           /\ \A i \in 1..Len(history) : history'[i] = history[i]
           /\ history'[Len(history) + 1] = main'.version
<1>1. /\ checked[p] > 0 /\ ~Conflicts(p)
      /\ main' = Merged(p)
      /\ history' = Append(history, Merged(p).version)
      /\ checked' = [checked EXCEPT ![p] = Landed]
      /\ UNCHANGED <<branch, base, edits, granted>>
  BY DEF Land
<1>2. Merged(p) \in Tree /\ Merged(p).version \in Versions
  BY MergedIsATree DEF Inv, Tree
<1>3. /\ history' \in Seq(Versions) /\ Len(history') = Len(history) + 1 /\ Len(history) \in Nat
      /\ \A i \in 1..Len(history) : history'[i] = history[i]
      /\ history'[Len(history) + 1] = Merged(p).version
  BY <1>1, <1>2, AppendProperties, LenProperties DEF Inv, TypeOK
<1>4. TypeOK' /\ RaisedOnPurpose'
  BY <1>1, <1>2, <1>3 DEF Inv, TypeOK, RaisedOnPurpose, Landed
<1>5. Current' /\ CheckStands'
  BY <1>1, <1>3 DEF Inv, TypeOK, Current, CheckStands, Landed
<1> QED
  BY <1>1, <1>3, <1>4, <1>5 DEF Inv

LEMMA InvStep ==
    ASSUME Inv, [Next]_vars
    PROVE  Inv'
<1>1. CASE UNCHANGED vars
  BY <1>1, ZenonT(60) DEF vars, Inv, TypeOK, Current, CheckStands, RaisedOnPurpose, Merged, VersionBumped, LintPasses, Increased
<1>2. CASE Next
  BY <1>2, WorkStep, CheckStep, LandStep DEF Next
<1> QED
  BY <1>1, <1>2

LEMMA InvAlways == Spec => []Inv
<1>1. Init => Inv
  BY InvInit DEF ProtectedInv
<1> QED
  BY <1>1, InvStep, PTL DEF Spec

-----------------------------------------------------------------------------
(* Debt: nothing is asked of the branches *)

(* Versions, baselines and findings stay what they are, for any number of    *)
(* pull requests and of keys.                                               *)
THEOREM TypesHold == Spec => []TypeOK
<1>1. Inv => TypeOK
  BY DEF Inv
<1> QED
  BY <1>1, InvAlways, PTL

(* main allows more findings only after a pull request that has used        *)
(* --allow-increase is merged, whatever main has taken in since it started, *)
(* and whether or not branches must be up to date: a count that both sides  *)
(* have changed is a conflict, and any other is the branch's own.           *)
THEOREM DebtIsRaisedOnPurpose == Spec => DebtGrowsOnPurpose
<1> DEFINE Grown == \E k \in Keys : main'.baseline[k] > main.baseline[k]
           Purposely == \E p \in granted : checked[p] # Landed /\ checked'[p] = Landed
<1>1. ASSUME Inv, [Next]_vars
      PROVE  [Grown => Purposely]_main
  <2>1. CASE UNCHANGED main
    BY <2>1
  <2>2. CASE main' # main
    <3>1. PICK p \in Pulls : Land(p)
      BY <1>1, <2>2, WorkStep, CheckStep DEF Next, vars
    <3>2. /\ main' = Merged(p) /\ ~Conflicts(p)
          /\ checked[p] # Landed /\ checked'[p] = Landed
      BY <1>1, <3>1 DEF Land, Inv, TypeOK, Landed
    <3>3. ASSUME NEW k \in Keys, main'.baseline[k] > main.baseline[k]
          PROVE  p \in granted
      <4> DEFINE old == base[p].tree.baseline[k]
                 ours == main.baseline[k]
                 theirs == branch[p].baseline[k]
      <4>1. main'.baseline[k] = Merge3(old, ours, theirs)
        BY <1>1, <3>2, MergedIsATree DEF Inv
      <4>2. ~Conflict(old, ours, theirs)
        BY <3>2 DEF Conflicts
      <4>3. old \in Nat /\ ours \in Nat /\ theirs \in Nat
        BY <1>1 DEF Inv, TypeOK, Tree, Counts
      <4>4. theirs > old
        <5> HIDE DEF old, ours, theirs
        <5> QED
          BY <3>3, <4>1, <4>2, <4>3 DEF Merge3, Conflict, ours
      <4> QED
        BY <1>1, <4>4 DEF Inv, RaisedOnPurpose
    <3> QED
      BY <3>2, <3>3
  <2> QED
    BY <2>1, <2>2
<1> QED
  BY <1>1, InvAlways, PTL DEF Spec, DebtGrowsOnPurpose

-----------------------------------------------------------------------------
(* Versions and findings: branches must be up to date to be merged *)

LEMMA ProtectedInvStep ==
    ASSUME Protected, ProtectedInv, [Next]_vars
    PROVE  ProtectedInv'
<1>1. Inv'
  BY InvStep DEF ProtectedInv
<1>2. CASE UNCHANGED <<main, history>>
  BY <1>1, <1>2 DEF ProtectedInv, EveryMergeHasItsOwnVersion, MainIsWithinItsBaseline
<1>3. ASSUME NEW p \in Pulls, Land(p)
      PROVE  EveryMergeHasItsOwnVersion' /\ MainIsWithinItsBaseline'
  <2>1. VersionBumped(main, Merged(p)) /\ LintPasses(Merged(p))
    BY <1>3 DEF Land, ProtectedInv, Inv, CheckStands
  <2>2. /\ main' = Merged(p) /\ Len(history') = Len(history) + 1
        /\ \A i \in 1..Len(history) : history'[i] = history[i]
        /\ history'[Len(history) + 1] = main'.version
    BY <1>3, LandStep DEF ProtectedInv
  <2>3. Len(history) \in Nat /\ Len(history) > 0 /\ history[Len(history)] = main.version
    BY LenProperties DEF ProtectedInv, Inv, TypeOK, Current
  <2>4. EveryMergeHasItsOwnVersion'
    <3> SUFFICES ASSUME NEW i \in 1..(Len(history') - 1)
                 PROVE  history'[i + 1] \in NextVersions(history'[i])
      BY DEF EveryMergeHasItsOwnVersion, NextVersions
    <3>1. CASE i < Len(history)
      BY <2>2, <2>3, <3>1 DEF ProtectedInv, EveryMergeHasItsOwnVersion
    <3>2. CASE i = Len(history)
      BY <2>1, <2>2, <2>3, <3>2 DEF VersionBumped
    <3> QED
      BY <2>2, <2>3, <3>1, <3>2
  <2>5. MainIsWithinItsBaseline'
    <3> SUFFICES ASSUME NEW k \in Keys PROVE main'.findings[k] <= main'.baseline[k]
      BY DEF MainIsWithinItsBaseline
    <3>1. main'.findings[k] \in Nat /\ main'.baseline[k] \in Nat
      BY <1>1 DEF Inv, TypeOK, Tree, Counts
    <3> QED
      BY <2>1, <2>2, <3>1 DEF LintPasses, Increased
  <2> QED
    BY <2>4, <2>5
<1> QED
  BY <1>1, <1>2, <1>3, WorkStep, CheckStep DEF Next, vars, ProtectedInv

LEMMA ProtectedInvAlways == ASSUME Protected PROVE Spec => []ProtectedInv
<1>1. ProtectedInv /\ [Next]_vars => ProtectedInv'
  BY ProtectedInvStep
<1> QED
  BY <1>1, InvInit, PTL DEF Spec

(* With "Require branches to be up to date before merging" the version of   *)
(* main goes up by one step with every merge: two pull requests that were   *)
(* both checked against one main are never both merged.                     *)
THEOREM VersionsAreUnique == ASSUME Protected PROVE Spec => []EveryMergeHasItsOwnVersion
<1>1. ProtectedInv => EveryMergeHasItsOwnVersion
  BY DEF ProtectedInv
<1> QED
  BY <1>1, ProtectedInvAlways, PTL

(* Under the same rule main always passes its own lint check: the findings  *)
(* two branches add under one key are counted together before the second    *)
(* is merged.                                                               *)
THEOREM MainStaysWithinItsBaseline == ASSUME Protected PROVE Spec => []MainIsWithinItsBaseline
<1>1. ProtectedInv => MainIsWithinItsBaseline
  BY DEF ProtectedInv
<1> QED
  BY <1>1, ProtectedInvAlways, PTL

=============================================================================
