---------------------------- MODULE Gates_proof ----------------------------
(***************************************************************************)
(* Proofs about the two gates that compare with a baseline, for any corpus *)
(* and whatever the checks come to: the correctness gate                   *)
(* (CorrectnessGate.tla) and the differential gate (DifferentialGate.tla). *)
(***************************************************************************)
EXTENDS CorrectnessGate, DifferentialGate, FiniteSetTheorems, SequenceTheorems, TLAPS

-----------------------------------------------------------------------------
(* The correctness gate.                                                    *)

(* No first line of a statement ends in # and a number.  Such a line is     *)
(* taken for the numbered id of another statement by _label_counts(), which *)
(* makes the gate fail for a statement that is only new.                    *)
Unnumbered == \A s \in Statements : LabelOf[s] = <<LabelOf[s][1]>>

(* A file as it is, or as it was when the baseline was written.             *)
File(own, units, results) == [own |-> own, units |-> units, outcome |-> results]
IsFile(f, file) == /\ file.own \in Outcomes /\ file.units \in Seq(Statements)
                   /\ f \notin Sources => file.units = <<>>
                   /\ file.outcome \in [Statements -> Outcomes]
Now(f) == File(corpus[f].own, corpus[f].units, outcome)

Places(units, label) == {i \in DOMAIN units : LabelOf[units[i]] = label}

\* The ids of a file's units, and what each came to.
IdsOf(f, file) == IF f \in Sources /\ Scored(file.own.status) THEN {UnitId(file.units, i) : i \in DOMAIN file.units}
                                                               ELSE {}
ResultOf(file, id) == file.outcome[file.units[CHOOSE i \in DOMAIN file.units :
                                                 /\ UnitId(file.units, i) = id
                                                 /\ \A j \in DOMAIN file.units : UnitId(file.units, j) = id => j <= i]]
RecordThen(f, file) == [status |-> file.own.status,
                        noise |-> file.own.noise,
                        units |-> [id \in IdsOf(f, file) |-> ResultOf(file, id).status],
                        noises |-> [id \in IdsOf(f, file) |-> ResultOf(file, id).noise]]

CorpusIsSound == DOMAIN corpus \subseteq Paths /\ \A f \in DOMAIN corpus : IsFile(f, Now(f))

\* The baseline says what was found when it was written, and nothing that has changed since.
BaselineIsRecord ==
    /\ DOMAIN baseline = DOMAIN recorded
    /\ \A f \in DOMAIN recorded : IsFile(f, recorded[f]) /\ baseline[f] = RecordThen(f, recorded[f])

\* The verdict on the whole corpus is that of the corpus and the decompiler as they are.
VerdictIsCurrent ==
    verdict.command = "check" /\ verdict.whole => verdict.code = ExitCode(DOMAIN corpus)

CInv == /\ outcome \in [Statements -> Outcomes]
        /\ CorpusIsSound
        /\ BaselineIsRecord
        /\ VerdictIsCurrent
-----------------------------------------------------------------------------
(* Ids: a label and a number *)

LEMMA NthMeans ==
    ASSUME NEW units \in Seq(Statements), NEW i \in DOMAIN units
    PROVE  /\ Nth(units, i) \in 1..Cardinality(Places(units, LabelOf[units[i]]))
           /\ \A k \in Places(units, LabelOf[units[i]]) : k < i => Nth(units, k) < Nth(units, i)
<1> DEFINE label == LabelOf[units[i]]
           upTo(k) == {j \in 1..k : LabelOf[units[j]] = label}
<1>1. /\ DOMAIN units = 1..Len(units) /\ Len(units) \in Nat /\ i \in 1..Len(units)
      /\ IsFiniteSet(1..Len(units))
  BY FS_Interval
<1>2. ASSUME NEW k \in 1..Len(units)
      PROVE  /\ IsFiniteSet(upTo(k)) /\ Cardinality(upTo(k)) \in Nat
             /\ upTo(k) \subseteq Places(units, label)
  <2>1. upTo(k) \in SUBSET (1..Len(units))
    BY <1>1, <1>2
  <2> QED
    BY <1>1, <2>1, FS_Subset, FS_CardinalityType DEF Places
<1>3. IsFiniteSet(Places(units, label))
  <2>1. Places(units, label) \in SUBSET (1..Len(units))
    BY <1>1 DEF Places
  <2> QED
    BY <1>1, <2>1, FS_Subset
<1>4. Nth(units, i) = Cardinality(upTo(i))
  BY DEF Nth
<1>5. Nth(units, i) \in 1..Cardinality(Places(units, label))
  <2> DEFINE all == Cardinality(Places(units, label))
             some == Cardinality(upTo(i))
  <2>1. i \in upTo(i)
    BY <1>1
  <2>2. IsFiniteSet(upTo(i)) /\ some \in Nat /\ upTo(i) \in SUBSET Places(units, label)
    BY <1>1, <1>2
  <2>3. some # 0
    BY <2>1, <2>2, FS_EmptySet
  <2>4. some <= all /\ all \in Nat
    BY <1>3, <2>2, FS_Subset, FS_CardinalityType
  <2>5. Nth(units, i) = some
    BY <1>4
  <2> HIDE DEF some, all
  <2>6. Nth(units, i) \in 1..all
    BY <2>2, <2>3, <2>4, <2>5
  <2> QED
    BY <2>6 DEF all
<1>6. ASSUME NEW k \in Places(units, label), k < i PROVE Nth(units, k) < Nth(units, i)
  <2>1. k \in 1..Len(units) /\ LabelOf[units[k]] = label
    BY <1>1, <1>6 DEF Places
  <2>2. Nth(units, k) = Cardinality(upTo(k))
    BY <2>1 DEF Nth
  <2>3. upTo(k) \in SUBSET upTo(i) /\ i \in upTo(i) /\ i \notin upTo(k)
    BY <1>1, <1>6, <2>1
  <2>4. Cardinality(upTo(k)) <= Cardinality(upTo(i)) /\ Cardinality(upTo(k)) # Cardinality(upTo(i))
    BY <1>1, <1>2, <2>3, FS_Subset
  <2>5. Cardinality(upTo(k)) \in Nat /\ Cardinality(upTo(i)) \in Nat
    BY <1>1, <1>2, <2>1
  <2> HIDE DEF upTo
  <2> QED
    BY <1>4, <2>2, <2>4, <2>5
<1> QED
  BY <1>5, <1>6

\* The units of one label are numbered 1, 2, 3 ... in their order.
LEMMA Numbers ==
    ASSUME NEW units \in Seq(Statements), NEW label
    PROVE  LET n == Cardinality(Places(units, label))
               nth == [i \in Places(units, label) |-> Nth(units, i)]
           IN  /\ IsFiniteSet(Places(units, label)) /\ n \in Nat
               /\ nth \in Bijection(Places(units, label), 1..n)
<1> DEFINE places == Places(units, label)
           n == Cardinality(places)
           nth == [i \in places |-> Nth(units, i)]
<1>1. /\ DOMAIN units = 1..Len(units) /\ Len(units) \in Nat /\ places \subseteq 1..Len(units)
      /\ \A i \in places : LabelOf[units[i]] = label
  BY DEF Places
<1>2. IsFiniteSet(places) /\ n \in Nat
  <2>1. IsFiniteSet(1..Len(units)) /\ places \in SUBSET (1..Len(units))
    BY <1>1, FS_Interval
  <2>2. IsFiniteSet(places)
    BY <2>1, FS_Subset
  <2> QED
    BY <2>2, FS_CardinalityType
<1>3. \A i \in places : /\ Nth(units, i) \in 1..n
                        /\ \A k \in places : k < i => Nth(units, k) < Nth(units, i)
  BY <1>1, NthMeans
<1> HIDE DEF places, n
<1>4. nth \in [places -> 1..n] /\ \A i, k \in places : nth[i] = nth[k] => i = k
  <2>1. nth \in [places -> 1..n]
    BY <1>3
  <2>2. ASSUME NEW i \in places, NEW k \in places, i # k PROVE nth[i] # nth[k]
    <3>1. i \in Nat /\ k \in Nat /\ nth[i] = Nth(units, i) /\ nth[k] = Nth(units, k) /\ nth[i] \in Nat /\ nth[k] \in Nat
      BY <1>1, <1>2, <2>1
    <3>2. CASE i < k
      BY <1>3, <3>1, <3>2
    <3>3. CASE k < i
      BY <1>3, <3>1, <3>3
    <3> QED
      BY <2>2, <3>1, <3>2, <3>3
  <2> QED
    BY <2>1, <2>2
<1>5. nth \in Injection(places, 1..n)
  BY <1>4 DEF Injection, IsInjective
<1>6. IsFiniteSet(1..n) /\ Cardinality(1..n) = n
  BY <1>2, FS_Interval
<1>7. nth \in Surjection(places, 1..n)
  BY <1>2, <1>5, <1>6, FS_Injection DEF n
<1> QED
  BY <1>2, <1>5, <1>7 DEF Bijection, places, n

LEMMA Pairs == ASSUME NEW a, NEW b PROVE Append(<<a>>, b) = <<a, b>> /\ Front(<<a, b>>) = <<a>>
<1> DEFINE S == {a, b}
<1>1. <<a>> \in Seq(S) /\ <<a, b>> \in Seq(S) /\ Len(<<a>>) = 1 /\ Len(<<a, b>>) = 2 /\ b \in S
  OBVIOUS
<1>2. Append(<<a>>, b) = <<a, b>>
  <2>1. /\ Append(<<a>>, b) \in Seq(S) /\ Len(Append(<<a>>, b)) = 2
        /\ Append(<<a>>, b)[1] = a /\ Append(<<a>>, b)[2] = b
    BY <1>1, AppendProperties
  <2>2. \A s \in Seq(S) : Len(s) = 2 /\ s[1] = a /\ s[2] = b => s = <<a, b>>
    BY <1>1, SeqEqual
  <2> QED
    BY <2>1, <2>2
<1>3. SubSeq(<<a, b>>, 1, 1) = <<a>>
  <2>1. \A i \in 1..1 : <<a, b>>[i] \in S
    OBVIOUS
  <2>2. /\ SubSeq(<<a, b>>, 1, 1) \in Seq(S) /\ Len(SubSeq(<<a, b>>, 1, 1)) = 1
        /\ SubSeq(<<a, b>>, 1, 1)[1] = a
    BY <2>1, SubSeqProperties
  <2>3. \A s \in Seq(S) : Len(s) = 1 /\ s[1] = a => s = <<a>>
    BY <1>1, SeqEqual
  <2> QED
    BY <2>2, <2>3
<1> QED
  BY <1>1, <1>2, <1>3 DEF Front

\* An id is the label and the number, and the label can be had from it.
LEMMA IdMeans ==
    ASSUME Unnumbered, NEW u \in Seq(Statements), NEW v \in Seq(Statements), NEW i \in DOMAIN u, NEW k \in DOMAIN v
    PROVE  /\ UnitId(u, i) = UnitId(v, k) <=> LabelOf[u[i]] = LabelOf[v[k]] /\ Nth(u, i) = Nth(v, k)
           /\ Folded(UnitId(u, i)) = LabelOf[u[i]]
<1>1. u[i] \in Statements /\ v[k] \in Statements
  OBVIOUS
<1>2. PICK a, b : LabelOf[u[i]] = <<a>> /\ LabelOf[v[k]] = <<b>>
  BY <1>1 DEF Unnumbered
<1>3. /\ UnitId(u, i) = IF Nth(u, i) = 1 THEN <<a>> ELSE <<a, Nth(u, i)>>
      /\ UnitId(v, k) = IF Nth(v, k) = 1 THEN <<b>> ELSE <<b, Nth(v, k)>>
  BY <1>2, Pairs DEF UnitId
<1>4. Front(<<a, Nth(u, i)>>) = <<a>>
  BY Pairs
<1>5. Folded(UnitId(u, i)) = <<a>>
  <2>1. Len(<<a>>) = 1 /\ Len(<<a, Nth(u, i)>>) = 2
    OBVIOUS
  <2>2. Folded(<<a>>) = <<a>> /\ Folded(<<a, Nth(u, i)>>) = <<a>>
    BY <1>4, <2>1 DEF Folded
  <2> QED
    BY <1>3, <2>2
<1> QED
  BY <1>2, <1>3, <1>5

\* As many ids fold to a label as there are units of it.
LEMMA CountMeans ==
    ASSUME Unnumbered, NEW u \in Seq(Statements), NEW label
    PROVE  LET ids == {UnitId(u, i) : i \in DOMAIN u}
           IN  /\ LabelCount(ids, label) = Cardinality(Places(u, label))
               /\ label \in {Folded(id) : id \in ids} <=> Places(u, label) # {}
<1> DEFINE ids == {UnitId(u, i) : i \in DOMAIN u}
           folded == {id \in ids : Folded(id) = label}
           places == Places(u, label)
           g == [i \in places |-> UnitId(u, i)]
<1>1. \A i \in DOMAIN u : Folded(UnitId(u, i)) = LabelOf[u[i]]
  BY IdMeans
<1>2. \A i \in places : i \in DOMAIN u /\ LabelOf[u[i]] = label
  BY DEF Places
<1>3. g \in Surjection(places, folded)
  <2>1. \A i \in places : UnitId(u, i) \in folded
    BY <1>1, <1>2
  <2>2. ASSUME NEW id \in folded PROVE \E i \in places : g[i] = id
    <3>1. PICK i \in DOMAIN u : UnitId(u, i) = id
      OBVIOUS
    <3>2. i \in places
      BY <1>1, <3>1 DEF Places
    <3> QED
      BY <3>1, <3>2
  <2> QED
    BY <2>1, <2>2 DEF Surjection
<1>4. g \in Injection(places, folded)
  <2>1. ASSUME NEW i \in places, NEW k \in places, g[i] = g[k] PROVE i = k
    <3>1. Nth(u, i) = Nth(u, k)
      BY <1>2, <2>1, IdMeans
    <3> QED
      BY <2>1, <3>1, Numbers DEF Bijection, Injection, IsInjective
  <2> QED
    BY <1>3, <2>1 DEF Surjection, Injection, IsInjective
<1>5. Cardinality(folded) = Cardinality(places)
  <2>1. ExistsBijection(places, folded) /\ IsFiniteSet(places)
    BY <1>3, <1>4, Numbers DEF Bijection, ExistsBijection
  <2> QED
    BY <2>1, FS_Bijection
<1>6. label \in {Folded(id) : id \in ids} <=> places # {}
  BY <1>1, <1>2 DEF Places
<1> QED
  BY <1>5, <1>6 DEF LabelCount

\* So many twins there are, too.
LEMMA TwinsMean ==
    ASSUME NEW u \in Seq(Statements), NEW label
    PROVE  Cardinality(Twins(u, label)) = Cardinality(Places(u, label))
<1> DEFINE places == Places(u, label)
           g == [i \in places |-> <<Nth(u, i), u[i]>>]
<1>1. Twins(u, label) = {<<Nth(u, i), u[i]>> : i \in places}
  BY DEF Twins, Places
<1>2. g \in Surjection(places, Twins(u, label))
  BY <1>1 DEF Surjection
<1>3. ASSUME NEW i \in places, NEW k \in places, g[i] = g[k] PROVE i = k
  <2>1. Nth(u, i) = Nth(u, k)
    BY <1>3
  <2> QED
    BY <2>1, Numbers DEF Bijection, Injection, IsInjective
<1>4. g \in Bijection(places, Twins(u, label))
  BY <1>2, <1>3 DEF Bijection, Surjection, Injection, IsInjective
<1> QED
  BY <1>4, FS_Bijection, Numbers DEF ExistsBijection

\* Where the twins are the same, every one of them has kept its id.
LEMMA TwinsKeepIds ==
    ASSUME Unnumbered, NEW u \in Seq(Statements), NEW v \in Seq(Statements), NEW i \in DOMAIN u,
           Twins(v, LabelOf[u[i]]) = Twins(u, LabelOf[u[i]])
    PROVE  \E k \in DOMAIN v : v[k] = u[i] /\ UnitId(v, k) = UnitId(u, i)
<1>1. <<Nth(u, i), u[i]>> \in Twins(v, LabelOf[u[i]])
  BY DEF Twins
<1>2. PICK k \in DOMAIN v : LabelOf[v[k]] = LabelOf[u[i]] /\ <<Nth(v, k), v[k]>> = <<Nth(u, i), u[i]>>
  BY <1>1 DEF Twins
<1>3. v[k] = u[i] /\ Nth(v, k) = Nth(u, i)
  BY <1>2
<1> QED
  BY <1>2, <1>3, IdMeans

\* The units of a file keep the results of their statements: no unit takes the id of another.
LEMMA ResultMeans ==
    ASSUME Unnumbered, NEW file, file.units \in Seq(Statements), NEW i \in DOMAIN file.units
    PROVE  ResultOf(file, UnitId(file.units, i)) = file.outcome[file.units[i]]
<1> DEFINE units == file.units
           IsLast(k) == /\ UnitId(units, k) = UnitId(units, i)
                        /\ \A j \in DOMAIN units : UnitId(units, j) = UnitId(units, i) => j <= k
<1>1. ASSUME NEW k \in DOMAIN units, UnitId(units, k) = UnitId(units, i) PROVE k = i
  <2>1. LabelOf[units[k]] = LabelOf[units[i]] /\ Nth(units, k) = Nth(units, i)
    BY <1>1, IdMeans
  <2>2. k \in Places(units, LabelOf[units[i]]) /\ i \in Places(units, LabelOf[units[i]])
    BY <2>1 DEF Places
  <2> QED
    BY <2>1, <2>2, Numbers DEF Bijection, Injection, IsInjective
<1>2. i \in Nat
  BY LenProperties
<1>3. \A k \in DOMAIN units : IsLast(k) <=> k = i
  BY <1>1, <1>2
<1>4. (CHOOSE k \in DOMAIN units : IsLast(k)) = i
  BY <1>3
<1> QED
  BY <1>4 DEF ResultOf

\* What the checks find of a file is a matter of the file as it is now.
LEMMA UnitsNow ==
    ASSUME NEW f
    PROVE  /\ DOMAIN UnitsOf(f) = IdsOf(f, Now(f))
           /\ \A id \in IdsOf(f, Now(f)) : UnitsOf(f)[id] = ResultOf(Now(f), id)
           /\ RecordOf(f) = RecordThen(f, Now(f))
<1>1. Now(f).own = corpus[f].own /\ Now(f).units = corpus[f].units /\ Now(f).outcome = outcome
  BY DEF Now, File
<1>2. UnitsOf(f) = [id \in IdsOf(f, Now(f)) |-> ResultOf(Now(f), id)]
  BY <1>1 DEF UnitsOf, IdsOf, ResultOf, HasUnits
<1>3. DOMAIN UnitsOf(f) = IdsOf(f, Now(f)) /\ \A id \in IdsOf(f, Now(f)) : UnitsOf(f)[id] = ResultOf(Now(f), id)
  BY <1>2
<1>4. /\ [id \in DOMAIN UnitsOf(f) |-> UnitsOf(f)[id].status] = [id \in IdsOf(f, Now(f)) |-> ResultOf(Now(f), id).status]
      /\ [id \in DOMAIN UnitsOf(f) |-> UnitsOf(f)[id].noise] = [id \in IdsOf(f, Now(f)) |-> ResultOf(Now(f), id).noise]
  BY <1>3
<1> QED
  BY <1>1, <1>3, <1>4 DEF RecordOf, RecordThen

-----------------------------------------------------------------------------
(* The invariant *)

LEMMA CInvInit == CInit => CInv
<1> SUFFICES ASSUME CInit PROVE CInv
  OBVIOUS
<1>1. PICK s \in Starts : corpus = s.corpus /\ outcome = s.outcome
  BY DEF CInit
<1>2. outcome \in [Statements -> Outcomes] /\ DOMAIN corpus \subseteq Paths
  BY <1>1, StartsAssumption DEF Paths
<1>3. ASSUME NEW f \in DOMAIN corpus PROVE IsFile(f, Now(f))
  <2>1. corpus[f] \in [own : Outcomes, units : Seq(Statements)] /\ (f \notin Sources => corpus[f].units = <<>>)
    BY <1>1, StartsAssumption
  <2> QED
    BY <1>2, <2>1 DEF IsFile, Now, File
<1>4. recorded = [f \in DOMAIN corpus |-> Now(f)] /\ baseline = [f \in DOMAIN corpus |-> RecordOf(f)]
  BY DEF CInit, Now, File
<1>5. BaselineIsRecord
  BY <1>3, <1>4, UnitsNow DEF BaselineIsRecord
<1>6. VerdictIsCurrent
  BY DEF CInit, NoVerdict, VerdictIsCurrent
<1> QED
  BY <1>2, <1>3, <1>5, <1>6 DEF CInv, CorpusIsSound

\* What every change of the repository has in common.
LEMMA EditedStep ==
    ASSUME CInv, Edited, outcome' \in [Statements -> Outcomes], DOMAIN corpus' \subseteq Paths,
           \A f \in DOMAIN corpus' : /\ corpus'[f].own \in Outcomes /\ corpus'[f].units \in Seq(Statements)
                                     /\ f \notin Sources => corpus'[f].units = <<>>
    PROVE  CInv'
<1>1. UNCHANGED <<baseline, recorded>> /\ verdict' = NoVerdict
  BY DEF Edited
<1>2. CorpusIsSound'
  BY DEF CorpusIsSound, IsFile, Now, File
<1>3. BaselineIsRecord'
  BY <1>1 DEF CInv, BaselineIsRecord
<1>4. VerdictIsCurrent'
  BY <1>1 DEF VerdictIsCurrent, NoVerdict
<1> QED
  BY <1>2, <1>3, <1>4 DEF CInv

LEMMA FilesMean ==
    ASSUME CInv
    PROVE  /\ outcome \in [Statements -> Outcomes] /\ DOMAIN corpus \subseteq Paths
           /\ \A f \in DOMAIN corpus : /\ corpus[f].own \in Outcomes /\ corpus[f].units \in Seq(Statements)
                                       /\ f \notin Sources => corpus[f].units = <<>>
  BY DEF CInv, CorpusIsSound, IsFile, Now, File

\* Statements of a source file are put in, taken out and moved; the file stays a sequence of statements.
LEMMA Inserted ==
    ASSUME NEW units \in Seq(Statements), NEW i \in 1..(Len(units) + 1), NEW s \in Statements
    PROVE  InsertAt(units, i, s) \in Seq(Statements)
<1>1. SubSeq(units, 1, i - 1) \in Seq(Statements) /\ SubSeq(units, i, Len(units)) \in Seq(Statements)
  BY SubSeqProperties
<1>2. <<s>> \in Seq(Statements)
  OBVIOUS
<1>3. SubSeq(units, 1, i - 1) \o <<s>> \in Seq(Statements)
  BY <1>1, <1>2, ConcatProperties
<1> QED
  BY <1>1, <1>3, ConcatProperties DEF InsertAt

LEMMA Removed ==
    ASSUME NEW units \in Seq(Statements), NEW i \in DOMAIN units
    PROVE  RemoveAt(units, i) \in Seq(Statements) /\ Len(RemoveAt(units, i)) = Len(units) - 1
<1>1. i \in 1..Len(units) /\ Len(units) \in Nat
  OBVIOUS
<1> DEFINE before == SubSeq(units, 1, i - 1)
           after == SubSeq(units, i + 1, Len(units))
<1>2. before \in Seq(Statements) /\ Len(before) = i - 1
  BY <1>1, SubSeqProperties
<1>3. after \in Seq(Statements) /\ Len(after) = Len(units) - i
  BY <1>1, SubSeqProperties
<1>4. RemoveAt(units, i) = before \o after
  BY DEF RemoveAt
<1> HIDE DEF before, after
<1>5. before \o after \in Seq(Statements) /\ Len(before \o after) = Len(before) + Len(after)
  BY <1>2, <1>3, ConcatProperties
<1> QED
  BY <1>1, <1>2, <1>3, <1>4, <1>5

LEMMA EditStep ==
    ASSUME CInv, CEdit
    PROVE  CInv'
<1>1. ASSUME NEW f \in DOMAIN corpus \cap Sources, NEW units \in Seq(Statements), SetUnits(f, units) PROVE CInv'
  <2>1. corpus' = [corpus EXCEPT ![f].units = units] /\ outcome' = outcome /\ Edited
    BY <1>1 DEF SetUnits
  <2>2. \A g \in DOMAIN corpus : /\ corpus'[g].own = corpus[g].own
                                 /\ corpus'[g].units = IF g = f THEN units ELSE corpus[g].units
    BY <2>1, FilesMean
  <2> QED
    BY <2>1, <2>2, FilesMean, EditedStep
<1>2. ASSUME NEW f \in DOMAIN corpus \cap Sources, InsertStatement(f) PROVE CInv'
  BY <1>1, <1>2, FilesMean, Inserted DEF InsertStatement
<1>3. ASSUME NEW f \in DOMAIN corpus \cap Sources, RemoveStatement(f) PROVE CInv'
  BY <1>1, <1>3, FilesMean, Removed DEF RemoveStatement
<1>4. ASSUME NEW f \in DOMAIN corpus \cap Sources, MoveStatement(f) PROVE CInv'
  <2>1. PICK i \in DOMAIN corpus[f].units, j \in DOMAIN corpus[f].units :
           SetUnits(f, InsertAt(RemoveAt(corpus[f].units, i), j, corpus[f].units[i]))
    BY <1>4 DEF MoveStatement
  <2>2. corpus[f].units \in Seq(Statements)
    BY FilesMean
  <2>3. /\ RemoveAt(corpus[f].units, i) \in Seq(Statements) /\ j \in 1..(Len(RemoveAt(corpus[f].units, i)) + 1)
        /\ corpus[f].units[i] \in Statements
    BY <2>2, Removed
  <2> QED
    BY <1>1, <2>1, <2>3, Inserted
<1>5. ASSUME ChangeStatement PROVE CInv'
  <2>1. PICK s \in Statements, o \in Outcomes :
           outcome' = [outcome EXCEPT ![s] = o] /\ UNCHANGED corpus /\ Edited
    BY <1>5 DEF ChangeStatement
  <2> QED
    BY <2>1, FilesMean, EditedStep
<1>6. ASSUME NEW f \in DOMAIN corpus, ChangeFile(f) PROVE CInv'
  <2>1. PICK o \in Outcomes : corpus' = [corpus EXCEPT ![f].own = o] /\ outcome' = outcome /\ Edited
    BY <1>6 DEF ChangeFile
  <2>2. \A g \in DOMAIN corpus : /\ corpus'[g].own = IF g = f THEN o ELSE corpus[g].own
                                 /\ corpus'[g].units = corpus[g].units
    BY <2>1, FilesMean
  <2> QED
    BY <2>1, <2>2, FilesMean, EditedStep
<1>7. ASSUME NEW f \in Paths, AddFile(f) PROVE CInv'
  <2>1. PICK o \in Outcomes : /\ corpus' = [g \in DOMAIN corpus \cup {f} |->
                                               IF g = f THEN [own |-> o, units |-> <<>>] ELSE corpus[g]]
                              /\ outcome' = outcome /\ Edited
    BY <1>7 DEF AddFile
  <2> QED
    BY <2>1, FilesMean, EditedStep, EmptySeq
<1>8. ASSUME NEW f \in DOMAIN corpus, RemoveFile(f) PROVE CInv'
  BY <1>8, FilesMean, EditedStep DEF RemoveFile
<1> QED
  BY <1>2, <1>3, <1>4, <1>5, <1>6, <1>7, <1>8 DEF CEdit

LEMMA ExitCodeIsOfState ==
    ASSUME UNCHANGED <<corpus, outcome, baseline>>
    PROVE  \A files : ExitCode(files)' = ExitCode(files)
  BY DEF ExitCode, Changes, FileChanges, UnitsOf, HasUnits

LEMMA CInvAlways == CSpec => []CInv
<1>1. ASSUME CInv, CRun \/ \E why \in {"foreign", "bad path"} : RefuseToRun(why) PROVE CInv'
  <2>1. UNCHANGED <<corpus, outcome>> /\ (outcome \in [Statements -> Outcomes])' /\ CorpusIsSound'
    <3>1. UNCHANGED <<corpus, outcome>>
      BY <1>1 DEF CRun, RunGate, Measure, UpdateBaseline, RefuseToRun, Exit
    <3> QED
      BY <1>1, <3>1 DEF CInv, CorpusIsSound, IsFile, Now, File
  <2>2. ASSUME NEW files \in (SUBSET DOMAIN corpus) \ {{}}, RunGate(files) PROVE CInv'
    <3>1. /\ verdict' = [code |-> ExitCode(files), command |-> "check", whole |-> files = DOMAIN corpus]
          /\ UNCHANGED <<baseline, recorded>>
      BY <2>2 DEF RunGate, Exit
    <3>2. VerdictIsCurrent'
      BY <2>1, <3>1, ExitCodeIsOfState DEF VerdictIsCurrent
    <3> QED
      BY <1>1, <2>1, <3>1, <3>2 DEF CInv, BaselineIsRecord
  <2>3. ASSUME NEW files \in (SUBSET DOMAIN corpus) \ {{}}, Measure(files) PROVE CInv'
    <3>1. verdict'.command = "measure" /\ UNCHANGED <<baseline, recorded>>
      BY <2>3 DEF Measure, Exit
    <3> QED
      BY <1>1, <2>1, <3>1 DEF CInv, BaselineIsRecord, VerdictIsCurrent
  <2>4. ASSUME NEW files \in (SUBSET DOMAIN corpus) \ {{}}, UpdateBaseline(files) PROVE CInv'
    <3>1. /\ verdict'.command = "update"
          /\ baseline' = [f \in files |-> RecordOf(f)] /\ recorded' = [f \in files |-> Now(f)]
      BY <2>4 DEF UpdateBaseline, Exit, Now, File
    <3>2. \A f \in files : IsFile(f, Now(f)) /\ RecordOf(f) = RecordThen(f, Now(f))
      BY <1>1, UnitsNow DEF CInv, CorpusIsSound
    <3>3. \A f \in files : IsFile(f, recorded'[f]) /\ baseline'[f] = RecordThen(f, recorded'[f])
      BY <3>1, <3>2
    <3>4. BaselineIsRecord'
      BY <3>1, <3>3 DEF BaselineIsRecord
    <3> QED
      BY <2>1, <3>1, <3>4 DEF CInv, VerdictIsCurrent
  <2>5. ASSUME NEW why \in {"foreign", "bad path"}, RefuseToRun(why) PROVE CInv'
    <3>1. verdict'.command # "check" /\ UNCHANGED <<baseline, recorded>>
      BY <2>5 DEF RefuseToRun, Exit
    <3> QED
      BY <1>1, <2>1, <3>1 DEF CInv, BaselineIsRecord, VerdictIsCurrent
  <2> QED
    BY <1>1, <2>2, <2>3, <2>4, <2>5 DEF CRun
<1>2. ASSUME CInv, UNCHANGED cvars PROVE CInv'
  <2>1. UNCHANGED <<corpus, outcome, baseline, recorded, verdict>>
    BY <1>2 DEF cvars
  <2> QED
    BY <1>2, <2>1, ExitCodeIsOfState DEF CInv, CorpusIsSound, IsFile, Now, File, BaselineIsRecord, VerdictIsCurrent
<1>3. ASSUME CInv, [CNext]_cvars PROVE CInv'
  BY <1>1, <1>2, <1>3, EditStep DEF CNext
<1> QED
  BY <1>3, CInvInit, PTL DEF CSpec

-----------------------------------------------------------------------------
(* What the gate compares, and what it means *)

LEMMA LevelValues ==
    ASSUME NEW o \in Outcomes, Scored(o.status)
    PROVE  LevelOf(o.status) \in 1..4
<1>1. /\ Len(LEVELS) = 4
      /\ LEVELS[1] = "decompile_error" /\ LEVELS[2] = "syntax_error" /\ LEVELS[3] = "compile_error"
      /\ LEVELS[4] = "compiles"
  BY DEF LEVELS
<1>2. PICK i \in 1..4 : LEVELS[i] = o.status
  BY OutcomesAssumption DEF Scored
<1> QED
  BY <1>1, <1>2 DEF LevelOf

\* Two outcomes: the gate sees that it got worse exactly when it did, and counts more kinds of diagnostics.
LEMMA ChangeMeans ==
    ASSUME NEW now \in Outcomes, NEW before \in Outcomes
    PROVE  /\ Change(before.status, now.status) \subseteq {"lost", "unscorable", "regressed", "improved"}
           /\ Change(before.status, now.status) \cap FAILING_CHANGES # {} => Worse(now, before)
           /\ Worse(now, before) => \/ Change(before.status, now.status) \cap FAILING_CHANGES # {}
                                    \/ MoreKinds(now.noise, before.noise)
           /\ Scored(before.status) /\ ~Scored(now.status) => "lost" \in Change(before.status, now.status)
<1> DEFINE a == now.status
           b == before.status
<1>1. Change(b, a) = IF a = b THEN {}
                     ELSE IF Scored(b) /\ ~Scored(a) THEN {"lost"}
                     ELSE IF ~Scored(b) THEN {"unscorable"}
                     ELSE IF LevelOf(a) < LevelOf(b) THEN {"regressed"} ELSE {"improved"}
  BY DEF Change
<1>2. Scored(a) => LevelOf(a) \in 1..4
  BY LevelValues
<1>3. Worse(now, before) <=> /\ Scored(b)
                             /\ ~Scored(a) \/ LevelOf(a) < LevelOf(b) \/ MoreKinds(now.noise, before.noise)
  BY DEF Worse
<1> HIDE DEF a, b
<1>4. a = b => ~(LevelOf(a) < LevelOf(b)) \/ ~Scored(a)
  BY <1>2
<1>5. CASE a = b
  <2>1. Change(b, a) = {}
    BY <1>1, <1>5
  <2> QED
    BY <1>3, <1>4, <1>5, <2>1 DEF a, b
<1>6. CASE a # b /\ Scored(b) /\ ~Scored(a)
  <2>1. Change(b, a) = {"lost"}
    BY <1>1, <1>6
  <2> QED
    BY <1>3, <1>6, <2>1 DEF a, b, FAILING_CHANGES
<1>7. CASE a # b /\ ~Scored(b)
  <2>1. Change(b, a) = {"unscorable"}
    BY <1>1, <1>7
  <2> QED
    BY <1>3, <1>7, <2>1 DEF a, b, FAILING_CHANGES
<1>8. CASE a # b /\ Scored(b) /\ Scored(a)
  <2>1. Change(b, a) = IF LevelOf(a) < LevelOf(b) THEN {"regressed"} ELSE {"improved"}
    BY <1>1, <1>8
  <2> QED
    BY <1>3, <1>8, <2>1 DEF a, b, FAILING_CHANGES
<1> QED
  BY <1>5, <1>6, <1>7, <1>8

\* The kinds of change that a file's comparison comes to and that fail the gate.
LEMMA FileChangesMean ==
    ASSUME NEW f
    PROVE  LET b == baseline[f]
               units == UnitsOf(f)
               now == DOMAIN units
               before == DOMAIN b.units
           IN  FileChanges(f) \cap FAILING_CHANGES # {} <=>
                   \/ Change(b.status, corpus[f].own.status) \cap FAILING_CHANGES # {}
                   \/ \E label \in {Folded(id) : id \in now} \cap {Folded(id) : id \in before} :
                         LabelCount(now, label) # LabelCount(before, label)
                   \/ \E id \in now \cap before : Change(b.units[id], units[id].status) \cap FAILING_CHANGES # {}
                   \/ Scored(corpus[f].own.status) /\ ~(before \subseteq now)
                   \/ MoreKinds(corpus[f].own.noise, b.noise)
                   \/ \E id \in now \cap before : MoreKinds(units[id].noise, b.noises[id])
<1> DEFINE b == baseline[f]
           units == UnitsOf(f)
           now == DOMAIN units
           before == DOMAIN b.units
           own == Change(b.status, corpus[f].own.status)
           many == \E label \in {Folded(id) : id \in now} \cap {Folded(id) : id \in before} :
                      LabelCount(now, label) # LabelCount(before, label)
           fresh == ~(now \subseteq before)
           drawn == UNION {Change(b.units[id], units[id].status) : id \in now \cap before}
           gone == Scored(corpus[f].own.status) /\ ~(before \subseteq now)
           noisier == \/ MoreKinds(corpus[f].own.noise, b.noise)
                      \/ \E id \in now \cap before : MoreKinds(units[id].noise, b.noises[id])
<1>1. FileChanges(f) = own \cup (IF many THEN {"ambiguous"} ELSE {}) \cup (IF fresh THEN {"new"} ELSE {}) \cup drawn
                           \cup (IF gone THEN {"missing"} ELSE {}) \cup (IF noisier THEN {"noisier"} ELSE {})
  BY DEF FileChanges
<1>2. drawn \cap FAILING_CHANGES # {} <=> \E id \in now \cap before : Change(b.units[id], units[id].status) \cap FAILING_CHANGES # {}
  OBVIOUS
<1> HIDE DEF own, many, fresh, drawn, gone, noisier
<1>3. FileChanges(f) \cap FAILING_CHANGES # {} <=>
          own \cap FAILING_CHANGES # {} \/ many \/ drawn \cap FAILING_CHANGES # {} \/ gone \/ noisier
  BY <1>1 DEF FAILING_CHANGES
<1> QED
  BY <1>2, <1>3 DEF own, many, gone, noisier

LEMMA CodeMeans ==
    ExitCode(DOMAIN corpus) = 1 <=> \/ \E f \in DOMAIN corpus \cap DOMAIN baseline : FileChanges(f) \cap FAILING_CHANGES # {}
                                    \/ ~(DOMAIN baseline \subseteq DOMAIN corpus)
<1> DEFINE drawn == UNION {FileChanges(f) : f \in DOMAIN corpus \cap DOMAIN baseline}
           fresh == IF DOMAIN corpus \subseteq DOMAIN baseline THEN {} ELSE {"new"}
           gone == IF DOMAIN baseline \subseteq DOMAIN corpus THEN {} ELSE {"missing"}
<1>1. Changes(DOMAIN corpus) = drawn \cup fresh \cup gone
  BY DEF Changes
<1>2. drawn \cap FAILING_CHANGES # {} <=> \E f \in DOMAIN corpus \cap DOMAIN baseline : FileChanges(f) \cap FAILING_CHANGES # {}
  OBVIOUS
<1>3. fresh \cap FAILING_CHANGES = {} /\ (gone \cap FAILING_CHANGES # {} <=> ~(DOMAIN baseline \subseteq DOMAIN corpus))
  BY DEF FAILING_CHANGES
<1> HIDE DEF drawn, fresh, gone
<1>4. Changes(DOMAIN corpus) \cap FAILING_CHANGES # {} <=> drawn \cap FAILING_CHANGES # {} \/ gone \cap FAILING_CHANGES # {}
  BY <1>1, <1>3
<1> QED
  BY <1>2, <1>3, <1>4 DEF ExitCode

\* What the baseline says of a file, and what the run finds of it.
LEMMA RecordMeans ==
    ASSUME Unnumbered, CInv, NEW f \in DOMAIN recorded
    PROVE  LET b == baseline[f]
               file == recorded[f]
           IN  /\ IsFile(f, file)
               /\ b.status = file.own.status /\ b.noise = file.own.noise /\ DOMAIN b.units = IdsOf(f, file)
               /\ f \in Sources /\ Scored(file.own.status) =>
                     /\ DOMAIN b.units = {UnitId(file.units, i) : i \in DOMAIN file.units}
                     /\ \A i \in DOMAIN file.units :
                           /\ b.units[UnitId(file.units, i)] = file.outcome[file.units[i]].status
                           /\ b.noises[UnitId(file.units, i)] = file.outcome[file.units[i]].noise
<1> DEFINE b == baseline[f]
           file == recorded[f]
<1>1. IsFile(f, file) /\ b = RecordThen(f, file)
  BY DEF CInv, BaselineIsRecord
<1> HIDE DEF b, file
<1>2. /\ b.status = file.own.status /\ b.noise = file.own.noise
      /\ b.units = [id \in IdsOf(f, file) |-> ResultOf(file, id).status]
      /\ b.noises = [id \in IdsOf(f, file) |-> ResultOf(file, id).noise]
  BY <1>1 DEF RecordThen
<1>3. ASSUME f \in Sources, Scored(file.own.status)
      PROVE  /\ IdsOf(f, file) = {UnitId(file.units, i) : i \in DOMAIN file.units}
             /\ \A i \in DOMAIN file.units :
                   /\ b.units[UnitId(file.units, i)] = file.outcome[file.units[i]].status
                   /\ b.noises[UnitId(file.units, i)] = file.outcome[file.units[i]].noise
  <2>1. IdsOf(f, file) = {UnitId(file.units, i) : i \in DOMAIN file.units}
    BY <1>3 DEF IdsOf
  <2>2. file.units \in Seq(Statements)
    BY <1>1 DEF IsFile
  <2> QED
    BY <1>2, <2>1, <2>2, ResultMeans
<1> QED
  BY <1>1, <1>2, <1>3 DEF b, file

LEMMA FoundMeans ==
    ASSUME Unnumbered, CInv, NEW f \in DOMAIN corpus
    PROVE  /\ corpus[f].own \in Outcomes /\ corpus[f].units \in Seq(Statements)
           /\ outcome \in [Statements -> Outcomes]
           /\ HasUnits(f) =>
                 /\ DOMAIN UnitsOf(f) = {UnitId(corpus[f].units, i) : i \in DOMAIN corpus[f].units}
                 /\ \A i \in DOMAIN corpus[f].units :
                       UnitsOf(f)[UnitId(corpus[f].units, i)] = outcome[corpus[f].units[i]]
           /\ ~HasUnits(f) => DOMAIN UnitsOf(f) = {}
<1> DEFINE file == Now(f)
<1>1. /\ file.own = corpus[f].own /\ file.units = corpus[f].units /\ file.outcome = outcome
  BY DEF Now, File
<1>2. IsFile(f, file)
  BY DEF CInv, CorpusIsSound
<1>3. DOMAIN UnitsOf(f) = IdsOf(f, file) /\ \A id \in IdsOf(f, file) : UnitsOf(f)[id] = ResultOf(file, id)
  BY UnitsNow
<1> HIDE DEF file
<1>4. corpus[f].own \in Outcomes /\ file.units \in Seq(Statements) /\ outcome \in [Statements -> Outcomes]
  BY <1>1, <1>2 DEF IsFile
<1>5. ASSUME HasUnits(f) PROVE IdsOf(f, file) = {UnitId(file.units, i) : i \in DOMAIN file.units}
  BY <1>1, <1>5 DEF IdsOf, HasUnits
<1>6. ASSUME ~HasUnits(f) PROVE IdsOf(f, file) = {}
  BY <1>1, <1>6 DEF IdsOf, HasUnits
<1>7. ASSUME HasUnits(f), NEW i \in DOMAIN file.units PROVE UnitsOf(f)[UnitId(file.units, i)] = outcome[file.units[i]]
  BY <1>1, <1>3, <1>4, <1>5, <1>7, ResultMeans
<1> QED
  BY <1>1, <1>3, <1>4, <1>5, <1>6, <1>7

\* A file that the gate has nothing against.
LEMMA QuietFile ==
    ASSUME Unnumbered, CInv, NEW f \in DOMAIN recorded \cap DOMAIN corpus, FileChanges(f) \cap FAILING_CHANGES = {}
    PROVE  /\ ~Worse(corpus[f].own, recorded[f].own)
           /\ \A s \in RecordedUnits(f) : Shuffled(f, LabelOf[s]) \/ ~StatementWorse(f, s)
<1> DEFINE file == recorded[f]
           b == baseline[f]
           units == corpus[f].units
           found == UnitsOf(f)
           now == DOMAIN found
           before == DOMAIN b.units
<1>1. /\ Change(b.status, corpus[f].own.status) \cap FAILING_CHANGES = {}
      /\ \A label \in {Folded(id) : id \in now} \cap {Folded(id) : id \in before} :
            LabelCount(now, label) = LabelCount(before, label)
      /\ \A id \in now \cap before : /\ Change(b.units[id], found[id].status) \cap FAILING_CHANGES = {}
                                     /\ ~MoreKinds(found[id].noise, b.noises[id])
      /\ Scored(corpus[f].own.status) => before \subseteq now
      /\ ~MoreKinds(corpus[f].own.noise, b.noise)
  BY FileChangesMean
<1>2. /\ file.own \in Outcomes /\ file.units \in Seq(Statements) /\ file.outcome \in [Statements -> Outcomes]
      /\ f \notin Sources => file.units = <<>>
      /\ b.status = file.own.status /\ b.noise = file.own.noise
      /\ f \in Sources /\ Scored(file.own.status) =>
            /\ before = {UnitId(file.units, i) : i \in DOMAIN file.units}
            /\ \A i \in DOMAIN file.units :
                  /\ b.units[UnitId(file.units, i)] = file.outcome[file.units[i]].status
                  /\ b.noises[UnitId(file.units, i)] = file.outcome[file.units[i]].noise
  BY RecordMeans DEF IsFile
<1>3. /\ corpus[f].own \in Outcomes /\ units \in Seq(Statements) /\ outcome \in [Statements -> Outcomes]
      /\ HasUnits(f) => /\ now = {UnitId(units, i) : i \in DOMAIN units}
                        /\ \A i \in DOMAIN units : found[UnitId(units, i)] = outcome[units[i]]
  BY FoundMeans
<1>4. RecordedUnits(f) = IF Scored(file.own.status) THEN {file.units[i] : i \in DOMAIN file.units} ELSE {}
  BY DEF RecordedUnits, Range
<1>5. \A s : StatementWorse(f, s) <=> \/ s \notin {units[i] : i \in DOMAIN units}
                                      \/ HasUnits(f) /\ Worse(outcome[s], file.outcome[s])
  BY DEF StatementWorse, Range
<1>6. \A label : Shuffled(f, label) <=> /\ Twins(units, label) # Twins(file.units, label)
                                        /\ Cardinality(Twins(units, label)) = Cardinality(Twins(file.units, label))
  BY DEF Shuffled
<1> HIDE DEF file, b, units, found, now, before
<1>7. ~Worse(corpus[f].own, file.own) /\ (Scored(file.own.status) => Scored(corpus[f].own.status))
  BY <1>1, <1>2, <1>3, ChangeMeans DEF FAILING_CHANGES
<1>8. ASSUME NEW i \in DOMAIN file.units, Scored(file.own.status), ~Shuffled(f, LabelOf[file.units[i]])
      PROVE  ~StatementWorse(f, file.units[i])
  <2> DEFINE s == file.units[i]
             label == LabelOf[file.units[i]]
             id == UnitId(file.units, i)
  <2>1. f \in Sources
    BY <1>2, <1>8, EmptySeq
  <2>2. HasUnits(f) /\ before \subseteq now
    BY <1>1, <1>7, <1>8, <2>1 DEF HasUnits
  <2>3. id \in before /\ id \in now /\ Folded(id) = label
    BY <1>2, <1>8, <2>1, <2>2, IdMeans
  <2>4. LabelCount(now, label) = LabelCount(before, label)
    BY <1>1, <2>3
  <2>5. Cardinality(Twins(units, label)) = Cardinality(Twins(file.units, label))
    <3>1. LabelCount(now, label) = Cardinality(Twins(units, label))
      BY <1>3, <2>2, CountMeans, TwinsMean
    <3>2. LabelCount(before, label) = Cardinality(Twins(file.units, label))
      BY <1>2, <1>8, <2>1, CountMeans, TwinsMean
    <3> QED
      BY <2>4, <3>1, <3>2
  <2>6. Twins(units, label) = Twins(file.units, label)
    BY <1>6, <1>8, <2>5
  <2>7. PICK k \in DOMAIN units : units[k] = s /\ UnitId(units, k) = id
    <3>1. Twins(units, LabelOf[file.units[i]]) = Twins(file.units, LabelOf[file.units[i]])
      BY <2>6
    <3>2. file.units \in Seq(Statements) /\ units \in Seq(Statements)
      BY <1>2, <1>3
    <3> QED
      BY <1>8, <3>1, <3>2, TwinsKeepIds
  <2>8. found[id] = outcome[s]
    BY <1>3, <2>2, <2>7
  <2>9. b.units[id] = file.outcome[s].status /\ b.noises[id] = file.outcome[s].noise
    BY <1>2, <1>8, <2>1
  <2>10. /\ Change(file.outcome[s].status, outcome[s].status) \cap FAILING_CHANGES = {}
         /\ ~MoreKinds(outcome[s].noise, file.outcome[s].noise)
    BY <1>1, <2>3, <2>8, <2>9
  <2>11. outcome[s] \in Outcomes /\ file.outcome[s] \in Outcomes
    BY <1>2, <1>3
  <2>12. ~Worse(outcome[s], file.outcome[s])
    BY <2>10, <2>11, ChangeMeans
  <2> QED
    BY <1>5, <2>7, <2>12
<1> QED
  BY <1>4, <1>7, <1>8 DEF file

\* A file that it has something against.
LEMMA FailingFile ==
    ASSUME Unnumbered, CInv, NEW f \in DOMAIN recorded \cap DOMAIN corpus, FileChanges(f) \cap FAILING_CHANGES # {}
    PROVE  \/ Worse(corpus[f].own, recorded[f].own)
           \/ MoreKinds(corpus[f].own.noise, recorded[f].own.noise)
           \/ \E s \in RecordedUnits(f) : \/ StatementWorse(f, s)
                                          \/ MoreKinds(outcome[s].noise, recorded[f].outcome[s].noise)
                                          \/ Twins(corpus[f].units, LabelOf[s]) # Twins(recorded[f].units, LabelOf[s])
<1> DEFINE file == recorded[f]
           b == baseline[f]
           units == corpus[f].units
           found == UnitsOf(f)
           now == DOMAIN found
           before == DOMAIN b.units
<1>1. \/ Change(b.status, corpus[f].own.status) \cap FAILING_CHANGES # {}
      \/ \E label \in {Folded(id) : id \in now} \cap {Folded(id) : id \in before} :
            LabelCount(now, label) # LabelCount(before, label)
      \/ \E id \in now \cap before : \/ Change(b.units[id], found[id].status) \cap FAILING_CHANGES # {}
                                     \/ MoreKinds(found[id].noise, b.noises[id])
      \/ Scored(corpus[f].own.status) /\ ~(before \subseteq now)
      \/ MoreKinds(corpus[f].own.noise, b.noise)
  BY FileChangesMean
<1>2. /\ file.own \in Outcomes /\ file.units \in Seq(Statements) /\ file.outcome \in [Statements -> Outcomes]
      /\ b.status = file.own.status /\ b.noise = file.own.noise /\ before = IdsOf(f, file)
      /\ f \in Sources /\ Scored(file.own.status) =>
            /\ before = {UnitId(file.units, i) : i \in DOMAIN file.units}
            /\ \A i \in DOMAIN file.units :
                  /\ b.units[UnitId(file.units, i)] = file.outcome[file.units[i]].status
                  /\ b.noises[UnitId(file.units, i)] = file.outcome[file.units[i]].noise
  BY RecordMeans DEF IsFile
<1>3. /\ corpus[f].own \in Outcomes /\ units \in Seq(Statements) /\ outcome \in [Statements -> Outcomes]
      /\ HasUnits(f) => /\ now = {UnitId(units, i) : i \in DOMAIN units}
                        /\ \A i \in DOMAIN units : found[UnitId(units, i)] = outcome[units[i]]
      /\ ~HasUnits(f) => now = {}
  BY FoundMeans
<1>4. RecordedUnits(f) = IF Scored(file.own.status) THEN {file.units[i] : i \in DOMAIN file.units} ELSE {}
  BY DEF RecordedUnits, Range
<1>5. \A s : StatementWorse(f, s) <=> \/ s \notin {units[i] : i \in DOMAIN units}
                                      \/ HasUnits(f) /\ Worse(outcome[s], file.outcome[s])
  BY DEF StatementWorse, Range
<1>6. before # {} => f \in Sources /\ Scored(file.own.status)
  BY <1>2 DEF IdsOf
<1> HIDE DEF file, b, units, found, now, before
<1>7. CASE Change(b.status, corpus[f].own.status) \cap FAILING_CHANGES # {}
  BY <1>2, <1>3, <1>7, ChangeMeans DEF file
<1>8. CASE MoreKinds(corpus[f].own.noise, b.noise)
  BY <1>2, <1>8 DEF file
<1>9. ASSUME f \in Sources, Scored(file.own.status), NEW i \in DOMAIN file.units,
             Twins(units, LabelOf[file.units[i]]) = Twins(file.units, LabelOf[file.units[i]])
      PROVE  LET id == UnitId(file.units, i)
                 s == file.units[i]
             IN  /\ HasUnits(f) => id \in now /\ found[id] = outcome[s]
                 /\ b.units[id] = file.outcome[s].status /\ b.noises[id] = file.outcome[s].noise
                 /\ outcome[s] \in Outcomes /\ file.outcome[s] \in Outcomes
                 /\ LabelCount({UnitId(units, k) : k \in DOMAIN units}, LabelOf[s])
                       = LabelCount({UnitId(file.units, k) : k \in DOMAIN file.units}, LabelOf[s])
  <2>1. PICK k \in DOMAIN units : units[k] = file.units[i] /\ UnitId(units, k) = UnitId(file.units, i)
    BY <1>2, <1>3, <1>9, TwinsKeepIds, SMTT(30)
  <2>2. LabelCount({UnitId(units, j) : j \in DOMAIN units}, LabelOf[file.units[i]])
          = LabelCount({UnitId(file.units, j) : j \in DOMAIN file.units}, LabelOf[file.units[i]])
    <3> DEFINE label == LabelOf[file.units[i]]
    <3>1. \A u \in Seq(Statements) :
             LabelCount({UnitId(u, j) : j \in DOMAIN u}, label) = Cardinality(Twins(u, label))
      BY CountMeans, TwinsMean
    <3> QED
      BY <1>2, <1>3, <1>9, <3>1
  <2> QED
    BY <1>2, <1>3, <1>9, <2>1, <2>2
<1>10. ASSUME NEW label \in {Folded(id) : id \in now} \cap {Folded(id) : id \in before},
              LabelCount(now, label) # LabelCount(before, label)
       PROVE  \E s \in RecordedUnits(f) : Twins(units, LabelOf[s]) # Twins(file.units, LabelOf[s])
  <2>1. HasUnits(f) /\ f \in Sources /\ Scored(file.own.status)
    BY <1>3, <1>6, <1>10
  <2>2. PICK i \in DOMAIN file.units : Folded(UnitId(file.units, i)) = label
    BY <1>2, <1>10, <2>1
  <2>3. LabelOf[file.units[i]] = label
    BY <1>2, <2>2, IdMeans
  <2>4. Twins(units, label) # Twins(file.units, label)
    BY <1>2, <1>3, <1>9, <1>10, <2>1, <2>3
  <2> QED
    BY <1>4, <2>1, <2>3, <2>4
<1>11. ASSUME NEW id \in now \cap before,
              \/ Change(b.units[id], found[id].status) \cap FAILING_CHANGES # {}
              \/ MoreKinds(found[id].noise, b.noises[id])
       PROVE  \E s \in RecordedUnits(f) : \/ StatementWorse(f, s)
                                          \/ MoreKinds(outcome[s].noise, file.outcome[s].noise)
                                          \/ Twins(units, LabelOf[s]) # Twins(file.units, LabelOf[s])
  <2>1. HasUnits(f) /\ f \in Sources /\ Scored(file.own.status)
    BY <1>3, <1>6, <1>11
  <2>2. PICK i \in DOMAIN file.units : UnitId(file.units, i) = id
    BY <1>2, <1>11, <2>1
  <2> DEFINE s == file.units[i]
  <2>3. CASE Twins(units, LabelOf[s]) = Twins(file.units, LabelOf[s])
    <3>1. /\ found[id] = outcome[s] /\ b.units[id] = file.outcome[s].status /\ b.noises[id] = file.outcome[s].noise
          /\ outcome[s] \in Outcomes /\ file.outcome[s] \in Outcomes
      BY <1>9, <2>1, <2>2, <2>3
    <3>2. Worse(outcome[s], file.outcome[s]) \/ MoreKinds(outcome[s].noise, file.outcome[s].noise)
      BY <1>11, <3>1, ChangeMeans
    <3> QED
      BY <1>4, <1>5, <2>1, <3>2
  <2> QED
    BY <1>4, <2>1, <2>3
<1>12. ASSUME Scored(corpus[f].own.status), ~(before \subseteq now)
       PROVE  \E s \in RecordedUnits(f) : Twins(units, LabelOf[s]) # Twins(file.units, LabelOf[s])
  <2>1. f \in Sources /\ Scored(file.own.status)
    BY <1>6, <1>12
  <2>2. HasUnits(f)
    BY <1>12, <2>1 DEF HasUnits
  <2>3. PICK i \in DOMAIN file.units : UnitId(file.units, i) \notin now
    BY <1>2, <1>12, <2>1
  <2>4. Twins(units, LabelOf[file.units[i]]) # Twins(file.units, LabelOf[file.units[i]])
    BY <1>9, <2>1, <2>2, <2>3
  <2> QED
    BY <1>4, <2>1, <2>4
<1> QED
  BY <1>1, <1>7, <1>8, <1>10, <1>11, <1>12 DEF file, units

-----------------------------------------------------------------------------
(* The theorems *)

(* "Any file or unit that drops to a lower rung than its baseline is a      *)
(* regression and fails the run": when a check of the whole corpus passes,  *)
(* every file and statement the baseline recorded is still there and no     *)
(* worse, wherever it was moved to, unless as many statements with its      *)
(* label as before stand in another order or are others.                    *)
THEOREM PassingIsSafe == ASSUME Unnumbered PROVE CSpec => []PassMeansNoneWorse
<1>1. ASSUME CInv PROVE PassMeansNoneWorse
  <2> SUFFICES ASSUME WholeCheck(0), NEW f \in DOMAIN recorded
               PROVE  /\ f \in DOMAIN corpus
                      /\ ~Worse(corpus[f].own, recorded[f].own)
                      /\ \A s \in RecordedUnits(f) : Shuffled(f, LabelOf[s]) \/ ~StatementWorse(f, s)
    BY DEF PassMeansNoneWorse
  <2>1. verdict.code = 0 /\ verdict.code = ExitCode(DOMAIN corpus)
    BY <1>1 DEF WholeCheck, CInv, VerdictIsCurrent
  <2>2. ~(ExitCode(DOMAIN corpus) = 1)
    BY <2>1
  <2>3. DOMAIN baseline = DOMAIN recorded
    BY <1>1 DEF CInv, BaselineIsRecord
  <2>4. f \in DOMAIN corpus /\ FileChanges(f) \cap FAILING_CHANGES = {}
    BY <2>2, <2>3, CodeMeans
  <2> QED
    BY <1>1, <2>4, QuietFile
<1> QED
  BY <1>1, CInvAlways, PTL

(* "Improvements never break CI", nor do new files, new statements and      *)
(* moves: when the check fails, something recorded has gone or is worse, or *)
(* the statements of one label have changed.                                *)
THEOREM FailingHasAReason == ASSUME Unnumbered PROVE CSpec => []FailMeansSomethingWorse
<1>1. ASSUME CInv PROVE FailMeansSomethingWorse
  <2> SUFFICES ASSUME WholeCheck(1), \A f \in DOMAIN recorded : f \in DOMAIN corpus
               PROVE  \E f \in DOMAIN recorded :
                         \/ Worse(corpus[f].own, recorded[f].own)
                         \/ MoreKinds(corpus[f].own.noise, recorded[f].own.noise)
                         \/ \E s \in RecordedUnits(f) :
                               \/ StatementWorse(f, s)
                               \/ MoreKinds(outcome[s].noise, recorded[f].outcome[s].noise)
                               \/ Twins(corpus[f].units, LabelOf[s]) # Twins(recorded[f].units, LabelOf[s])
    BY DEF FailMeansSomethingWorse
  <2>1. ExitCode(DOMAIN corpus) = 1
    BY <1>1 DEF WholeCheck, CInv, VerdictIsCurrent
  <2>2. DOMAIN baseline = DOMAIN recorded
    BY <1>1 DEF CInv, BaselineIsRecord
  <2>3. PICK f \in DOMAIN recorded \cap DOMAIN corpus : FileChanges(f) \cap FAILING_CHANGES # {}
    BY <2>1, <2>2, CodeMeans
  <2> QED
    BY <1>1, <2>3, FailingFile
<1> QED
  BY <1>1, CInvAlways, PTL

-----------------------------------------------------------------------------
(* The differential gate.                                                   *)

(* check_entry() as a function of what came of the entry and of whether it  *)
(* is to be run, so that it can be asked of the past as well as of now.     *)
StatusOf(t, run) ==
    IF ~CanScore(t, run) THEN NotScored
    ELSE CASE t.decompiled \in {"timeout", "failed", "nothing"} -> "decompile_error"
           [] t.decompiled = "not python" -> "syntax_error"
           [] t.decompiled = "python" /\ ~run -> "compiles"
           [] t.decompiled = "python" /\ run -> IF Mismatch(t) THEN "mismatch" ELSE "equivalent"

NoNoise == [k \in DiagnosticKinds |-> 0]
NoiseOf(t, run) == IF StatusOf(t, run) \notin {NotScored, "decompile_error"} THEN t.noise ELSE NoNoise

\* What a baseline written at that time holds.
StatusThen(then, e, p) == StatusOf(then.trial[<<e, p>>], then.manifest[e].run)
NoiseThen(then, e, p) == NoiseOf(then.trial[<<e, p>>], then.manifest[e].run)
ScoredThen(then, p) == {e \in DOMAIN then.manifest : /\ p \in then.manifest[e].applies
                                                     /\ StatusThen(then, e, p) # NotScored}
FileOf(then, p) ==
    [status |-> [e \in ScoredThen(then, p) |-> StatusThen(then, e, p)],
     noise |-> [e \in {s \in ScoredThen(then, p) : ~Silent(NoiseThen(then, s, p))} |-> NoiseThen(then, e, p)]]

\* A manifest, and what comes of its entries.
Manifest(m) == DOMAIN m \subseteq Entries /\ m \in [DOMAIN m -> [applies : SUBSET Pythons, run : BOOLEAN]]
Sound(m, t) == Manifest(m) /\ t \in [Entries \X Pythons -> Trials]

\* Every baseline says what its Python found when it was written, and nothing that has changed since.
BaselinesAreRecords ==
    \A p \in Pythons : baselines[p] # NoFile => /\ Sound(written[p].manifest, written[p].trial)
                                                /\ baselines[p] = FileOf(written[p], p)

\* The result of a check is the worst of what each Python finds now.
ResultIsCurrent ==
    result.mode = "check" => /\ result.pythons \in (SUBSET Pythons) \ {{}}
                             /\ result.code = Worst({CheckOn(p, result.named) : p \in result.pythons})

DInv == Sound(manifest, trial) /\ BaselinesAreRecords /\ ResultIsCurrent
-----------------------------------------------------------------------------
(* Rungs, and what they say of a trial *)

LEMMA RungValues ==
    /\ RungOf("decompile_error") = 1 /\ RungOf("syntax_error") = 2 /\ RungOf("compiles") = 3
    /\ RungOf("mismatch") = 4 /\ RungOf("equivalent") = 5
<1>1. /\ Len(Rungs) = 5
      /\ Rungs[1] = "decompile_error" /\ Rungs[2] = "syntax_error" /\ Rungs[3] = "compiles"
      /\ Rungs[4] = "mismatch" /\ Rungs[5] = "equivalent"
  BY DEF Rungs
<1>2. ASSUME NEW i \in 1..5 PROVE \A j \in 1..5 : Rungs[j] = Rungs[i] => j = i
  <2>1. i = 1 \/ i = 2 \/ i = 3 \/ i = 4 \/ i = 5
    OBVIOUS
  <2>2. \A j \in 1..5 : j = 1 \/ j = 2 \/ j = 3 \/ j = 4 \/ j = 5
    OBVIOUS
  <2> QED
    BY <1>1, <2>1, <2>2
<1>3. ASSUME NEW i \in 1..5 PROVE RungOf(Rungs[i]) = i
  <2>1. RungOf(Rungs[i]) = CHOOSE j \in 1..5 : Rungs[j] = Rungs[i]
    BY <1>1 DEF RungOf
  <2> QED
    BY <1>2, <2>1
<1> QED
  BY <1>1, <1>3

\* Leaving out what a run that took too long has said makes two such runs alike, and no others.
LEMMA MismatchMeans == ASSUME NEW t PROVE Mismatch(t) <=> ~(Equivalent(t) \/ BothTimeOut(t))
<1> DEFINE late == [ended |-> "timeout", said |-> "nothing"]
<1>1. late.ended = "timeout"
  OBVIOUS
<1> HIDE DEF late
<1>2. /\ Observed(t.original) = IF t.original.ended = "timeout" THEN late ELSE t.original
      /\ Observed(t.rebuilt) = IF t.rebuilt.ended = "timeout" THEN late ELSE t.rebuilt
  BY DEF Observed, late
<1> QED
  BY <1>1, <1>2 DEF Mismatch, Equivalent, BothTimeOut

LEMMA StatusMeans ==
    ASSUME NEW t \in Trials, NEW run \in BOOLEAN
    PROVE  /\ ~CanScore(t, run) => StatusOf(t, run) = NotScored
           /\ CanScore(t, run) =>
                 \/ /\ Reach(t, run) = 0 /\ StatusOf(t, run) = "decompile_error"
                    /\ t.decompiled \notin {"python", "not python"}
                 \/ /\ Reach(t, run) = 1 /\ StatusOf(t, run) = "syntax_error"
                    /\ t.decompiled = "not python"
                 \/ /\ Reach(t, run) = 2 /\ StatusOf(t, run) = IF run THEN "mismatch" ELSE "compiles"
                    /\ t.decompiled = "python"
                 \/ /\ Reach(t, run) = 3 /\ run /\ StatusOf(t, run) = "equivalent"
                    /\ t.decompiled = "python"
<1>1. t.decompiled \in {"timeout", "failed", "nothing", "not python", "python"}
  BY TrialsAssumption
<1>2. ~CanScore(t, run) => StatusOf(t, run) = NotScored
  BY DEF StatusOf
<1>3. CASE CanScore(t, run) /\ t.decompiled \in {"timeout", "failed", "nothing"}
  <2>1. StatusOf(t, run) = "decompile_error"
    BY <1>3 DEF StatusOf
  <2>2. Reach(t, run) = 0
    BY <1>3 DEF Reach
  <2> QED
    BY <1>2, <1>3, <2>1, <2>2
<1>4. CASE CanScore(t, run) /\ t.decompiled = "not python"
  <2>1. StatusOf(t, run) = "syntax_error"
    BY <1>4 DEF StatusOf
  <2>2. Reach(t, run) = 1
    BY <1>4 DEF Reach
  <2> QED
    BY <1>2, <1>4, <2>1, <2>2
<1>5. CASE CanScore(t, run) /\ t.decompiled = "python"
  <2>1. StatusOf(t, run) = IF run THEN IF Mismatch(t) THEN "mismatch" ELSE "equivalent" ELSE "compiles"
    BY <1>5 DEF StatusOf
  <2>2. Reach(t, run) = IF run /\ ~Mismatch(t) THEN 3 ELSE 2
    BY <1>5, MismatchMeans DEF Reach
  <2> QED
    BY <1>2, <1>5, <2>1, <2>2
<1> QED
  BY <1>1, <1>2, <1>3, <1>4, <1>5

Statuses == {"decompile_error", "syntax_error", "compiles", "mismatch", "equivalent"}

LEMMA ScoredMeans ==
    ASSUME NEW t \in Trials, NEW run \in BOOLEAN
    PROVE  /\ CanScore(t, run) <=> StatusOf(t, run) # NotScored
           /\ StatusOf(t, run) \in Statuses \cup {NotScored}
  BY StatusMeans DEF NotScored, Statuses

\* As long as an entry is run or not as it was, a lower rung is a shorter reach.
LEMMA RungsAreReaches ==
    ASSUME NEW t \in Trials, NEW u \in Trials, NEW run \in BOOLEAN, CanScore(t, run), CanScore(u, run)
    PROVE  /\ RungOf(StatusOf(t, run)) < RungOf(StatusOf(u, run)) <=> Reach(t, run) < Reach(u, run)
           /\ StatusOf(t, run) = StatusOf(u, run) => ~(Reach(t, run) < Reach(u, run))
<1> DEFINE Place(v) ==
               \/ Reach(v, run) = 0 /\ RungOf(StatusOf(v, run)) = 1
               \/ Reach(v, run) = 1 /\ RungOf(StatusOf(v, run)) = 2
               \/ Reach(v, run) = 2 /\ RungOf(StatusOf(v, run)) = IF run THEN 4 ELSE 3
               \/ Reach(v, run) = 3 /\ run /\ RungOf(StatusOf(v, run)) = 5
<1>1. ASSUME NEW v \in Trials, CanScore(v, run) PROVE Place(v)
  BY <1>1, StatusMeans, RungValues
<1>2. Place(t) /\ Place(u)
  BY <1>1
<1> QED
  BY <1>2

LEMMA NoiseMeans ==
    ASSUME NEW t \in Trials, NEW run \in BOOLEAN
    PROVE  /\ NoiseOf(t, run) \in [DiagnosticKinds -> Nat]
           /\ CanScore(t, run) => NoiseOf(t, run) = Reported(t)
           /\ ~CanScore(t, run) => NoiseOf(t, run) = NoNoise
<1>1. t.noise \in [DiagnosticKinds -> Nat] /\ NoNoise \in [DiagnosticKinds -> Nat]
  BY TrialsAssumption DEF NoNoise
<1>2. CASE CanScore(t, run) /\ t.decompiled \in {"python", "not python"}
  <2>1. StatusOf(t, run) \notin {NotScored, "decompile_error"}
    BY <1>2, StatusMeans DEF NotScored
  <2> QED
    BY <1>1, <1>2, <2>1 DEF NoiseOf, Reported
<1>3. CASE CanScore(t, run) /\ t.decompiled \notin {"python", "not python"}
  <2>1. StatusOf(t, run) = "decompile_error"
    BY <1>3, StatusMeans
  <2> QED
    BY <1>1, <1>3, <2>1 DEF NoiseOf, Reported, NoNoise
<1>4. CASE ~CanScore(t, run)
  BY <1>1, <1>4, StatusMeans DEF NoiseOf
<1> QED
  BY <1>2, <1>3, <1>4

LEMMA WorstOf ==
    ASSUME NEW codes \in (SUBSET {0, 1, 2}) \ {{}}
    PROVE  Worst(codes) \in codes /\ \A d \in codes : d <= Worst(codes)
<1>1. \E c \in codes : \A d \in codes : d <= c
  <2>1. CASE 2 \in codes
    BY <2>1
  <2>2. CASE 2 \notin codes /\ 1 \in codes
    BY <2>2
  <2>3. CASE 2 \notin codes /\ 1 \notin codes
    BY <2>3
  <2> QED
    BY <2>1, <2>2, <2>3
<1> QED
  BY <1>1 DEF Worst

-----------------------------------------------------------------------------
(* The invariant *)

LEMMA NowMeans ==
    ASSUME NEW e, NEW p
    PROVE  /\ CheckEntry(e, p) = StatusOf(trial[<<e, p>>], manifest[e].run)
           /\ Noise(e, p) = NoiseOf(trial[<<e, p>>], manifest[e].run)
  BY DEF CheckEntry, StatusOf, Noise, NoiseOf, NoNoise

LEMMA WrittenNow ==
    ASSUME NEW p
    PROVE  BaselineOf(p, Applying(p)) = FileOf([manifest |-> manifest, trial |-> trial], p)
<1> DEFINE then == [manifest |-> manifest, trial |-> trial]
           scored == {e \in Applying(p) : CheckEntry(e, p) # NotScored}
<1>1. \A e : CheckEntry(e, p) = StatusThen(then, e, p) /\ Noise(e, p) = NoiseThen(then, e, p)
  BY NowMeans DEF StatusThen, NoiseThen
<1>2. then.manifest = manifest
  OBVIOUS
<1> HIDE DEF then
<1>3. scored = ScoredThen(then, p)
  BY <1>1, <1>2 DEF ScoredThen, Applying
<1>4. BaselineOf(p, Applying(p)) =
          [status |-> [e \in scored |-> CheckEntry(e, p)],
           noise |-> [e \in {s \in scored : ~Silent(Noise(s, p))} |-> Noise(e, p)]]
  BY DEF BaselineOf
<1> HIDE DEF scored
<1>5. [e \in scored |-> CheckEntry(e, p)] = [e \in ScoredThen(then, p) |-> StatusThen(then, e, p)]
  BY <1>1, <1>3
<1>6. {s \in scored : ~Silent(Noise(s, p))} = {s \in ScoredThen(then, p) : ~Silent(NoiseThen(then, s, p))}
  BY <1>1, <1>3
<1>7. [e \in {s \in scored : ~Silent(Noise(s, p))} |-> Noise(e, p)]
        = [e \in {s \in ScoredThen(then, p) : ~Silent(NoiseThen(then, s, p))} |-> NoiseThen(then, e, p)]
  BY <1>1, <1>6
<1> QED
  BY <1>4, <1>5, <1>7 DEF FileOf, then

LEMMA CheckIsOfState ==
    ASSUME UNCHANGED <<manifest, trial, baselines>>
    PROVE  \A p, named : CheckOn(p, named)' = CheckOn(p, named)
  BY DEF CheckOn, CanSelect, Selected, Applying, Gated, KindsOfChange, EntryKind, CheckEntry, IsNew, Noisier, Noise

LEMMA SoundMeans ==
    ASSUME NEW m, NEW t, Sound(m, t), NEW e \in DOMAIN m, NEW p \in Pythons
    PROVE  e \in Entries /\ t[<<e, p>>] \in Trials /\ m[e].run \in BOOLEAN
<1>1. e \in Entries /\ m[e] \in [applies : SUBSET Pythons, run : BOOLEAN]
  BY DEF Sound, Manifest
<1>2. <<e, p>> \in Entries \X Pythons
  BY <1>1
<1> QED
  BY <1>1, <1>2 DEF Sound

LEMMA DInvInit == DInit => DInv
<1> SUFFICES ASSUME DInit PROVE DInv
  OBVIOUS
<1>1. Sound(manifest, trial)
  BY CorporaAssumption DEF DInit, Sound, Manifest
<1>2. BaselinesAreRecords
  BY DEF DInit, BaselinesAreRecords
<1>3. ResultIsCurrent
  BY DEF DInit, ResultIsCurrent, NoResult
<1> QED
  BY <1>1, <1>2, <1>3 DEF DInv

\* What every change of the corpus or of the decompiler has in common.
LEMMA ChangedStep ==
    ASSUME DInv, Changed, Sound(manifest', trial')
    PROVE  DInv'
<1>1. UNCHANGED <<baselines, written>> /\ result' = NoResult
  BY DEF Changed
<1>2. BaselinesAreRecords'
  BY <1>1 DEF DInv, BaselinesAreRecords
<1>3. ResultIsCurrent'
  BY <1>1 DEF ResultIsCurrent, NoResult
<1> QED
  BY <1>2, <1>3 DEF DInv, Sound

LEMMA EntriesEditStep ==
    ASSUME DInv, DEdit
    PROVE  DInv'
<1>1. ASSUME NEW m, SetManifest(m), Manifest(m) PROVE DInv'
  <2>1. manifest' = m /\ trial' = trial /\ Changed
    BY <1>1 DEF SetManifest
  <2> QED
    BY <1>1, <2>1, ChangedStep DEF DInv, Sound
<1> DEFINE Row == [applies : SUBSET Pythons, run : BOOLEAN]
<1>2. DOMAIN manifest \subseteq Entries /\ manifest \in [DOMAIN manifest -> Row]
  BY DEF DInv, Sound, Manifest
<1>3. ASSUME NEW e \in Entries, AddEntry(e) PROVE DInv'
  <2>1. PICK run \in BOOLEAN :
           SetManifest([f \in DOMAIN manifest \cup {e} |-> IF f = e THEN [applies |-> Pythons, run |-> run]
                                                            ELSE manifest[f]])
    BY <1>3 DEF AddEntry
  <2> QED
    BY <1>1, <1>2, <2>1 DEF Manifest
<1>4. ASSUME NEW e \in DOMAIN manifest, RemoveEntry(e) PROVE DInv'
  BY <1>1, <1>2, <1>4 DEF RemoveEntry, Manifest
<1>5. ASSUME NEW e \in DOMAIN manifest, SetEquivalence(e) PROVE DInv'
  <2>1. [manifest[e] EXCEPT !.run = ~manifest[e].run] \in Row
    BY <1>2
  <2> DEFINE m == [manifest EXCEPT ![e].run = ~@]
  <2>2. m = [manifest EXCEPT ![e] = [manifest[e] EXCEPT !.run = ~manifest[e].run]]
    OBVIOUS
  <2>3. Manifest(m)
    BY <1>2, <2>1, <2>2 DEF Manifest
  <2> QED
    BY <1>1, <1>5, <2>3 DEF SetEquivalence
<1>6. ASSUME NEW e \in DOMAIN manifest, SetPythons(e) PROVE DInv'
  <2>1. PICK applies \in SUBSET Pythons : SetManifest([manifest EXCEPT ![e].applies = applies])
    BY <1>6 DEF SetPythons
  <2> QED
    BY <1>1, <1>2, <2>1 DEF Manifest
<1>7. ASSUME NEW e \in DOMAIN manifest, NEW p \in Pythons, ChangeTrial(e, p) PROVE DInv'
  <2>1. PICK t \in Trials : trial' = [trial EXCEPT ![<<e, p>>] = t]
    BY <1>7 DEF ChangeTrial
  <2>2. manifest' = manifest /\ Changed
    BY <1>7 DEF ChangeTrial
  <2>3. Sound(manifest', trial')
    BY <2>1, <2>2 DEF DInv, Sound
  <2> QED
    BY <2>2, <2>3, ChangedStep
<1> QED
  BY <1>3, <1>4, <1>5, <1>6, <1>7 DEF DEdit

LEMMA RunStep ==
    ASSUME DInv, NEW pythons \in (SUBSET Pythons) \ {{}},
           \/ UpdateBaselines(pythons)
           \/ \E named \in SUBSET Entries : CheckEntries(pythons, named) \/ ReportEntries(pythons, named)
    PROVE  DInv'
<1>1. UNCHANGED <<manifest, trial>> /\ Sound(manifest, trial)'
  BY DEF UpdateBaselines, CheckEntries, ReportEntries, Finish, DInv, Sound
<1>2. ASSUME NEW named \in SUBSET Entries, CheckEntries(pythons, named) PROVE DInv'
  <2>1. /\ result' = [code |-> Worst({CheckOn(p, named) : p \in pythons}), mode |-> "check",
                      pythons |-> pythons, named |-> named]
        /\ UNCHANGED <<baselines, written>>
    BY <1>2 DEF CheckEntries, Finish
  <2>2. {CheckOn(p, named)' : p \in pythons} = {CheckOn(p, named) : p \in pythons}
    BY <1>1, <2>1, CheckIsOfState
  <2>3. ResultIsCurrent'
    <3>1. result'.pythons = pythons /\ result'.named = named
          /\ result'.code = Worst({CheckOn(p, named) : p \in pythons})
      BY <2>1
    <3>2. {CheckOn(p, result.named)' : p \in result'.pythons} = {CheckOn(p, named) : p \in pythons}
      <4>1. \A p : CheckOn(p, result.named)' = CheckOn(p, named)'
        BY <3>1 DEF CheckOn, CanSelect, Selected, Gated
      <4> QED
        BY <2>2, <3>1, <4>1
    <3> QED
      BY <3>1, <3>2 DEF ResultIsCurrent, Worst
  <2>4. BaselinesAreRecords'
    BY <2>1 DEF DInv, BaselinesAreRecords
  <2> QED
    BY <1>1, <2>3, <2>4 DEF DInv
<1>3. ASSUME NEW named \in SUBSET Entries, ReportEntries(pythons, named) PROVE DInv'
  <2>1. result'.mode = "report" /\ UNCHANGED <<baselines, written>>
    BY <1>3 DEF ReportEntries, Finish
  <2> QED
    BY <1>1, <2>1 DEF DInv, BaselinesAreRecords, ResultIsCurrent
<1>4. ASSUME UpdateBaselines(pythons) PROVE DInv'
  <2>1. /\ result'.mode = "update"
        /\ baselines' = [p \in Pythons |-> IF p \in pythons THEN UpdateOn(p) ELSE baselines[p]]
        /\ written' = [p \in Pythons |-> IF p \in pythons /\ CanSelect(p, {})
                                         THEN [manifest |-> manifest, trial |-> trial] ELSE written[p]]
    BY <1>4 DEF UpdateBaselines, Finish
  <2>2. BaselinesAreRecords'
    <3> SUFFICES ASSUME NEW p \in Pythons, baselines'[p] # NoFile
                 PROVE  /\ Sound(written'[p].manifest, written'[p].trial)
                        /\ baselines'[p] = FileOf(written'[p], p)
      BY DEF BaselinesAreRecords, Sound, FileOf, ScoredThen, StatusThen, StatusOf, NoiseThen, NoiseOf
    <3>1. CASE p \in pythons /\ CanSelect(p, {})
      <4>1. baselines'[p] = BaselineOf(p, Applying(p)) /\ written'[p] = [manifest |-> manifest, trial |-> trial]
        BY <2>1, <3>1 DEF UpdateOn
      <4> QED
        BY <4>1, WrittenNow DEF DInv, Sound
    <3>2. CASE ~(p \in pythons /\ CanSelect(p, {}))
      <4>1. baselines'[p] = baselines[p] /\ written'[p] = written[p]
        BY <2>1, <3>2 DEF UpdateOn
      <4> QED
        BY <4>1 DEF DInv, BaselinesAreRecords
    <3> QED
      BY <3>1, <3>2
  <2>3. ResultIsCurrent'
    BY <2>1 DEF ResultIsCurrent
  <2> QED
    BY <1>1, <2>2, <2>3 DEF DInv
<1> QED
  BY <1>2, <1>3, <1>4

LEMMA DInvAlways == DSpec => []DInv
<1>1. ASSUME DInv, [DNext]_dvars PROVE DInv'
  <2>1. CASE DEdit
    BY <1>1, <2>1, EntriesEditStep
  <2>2. CASE DRun
    BY <1>1, <2>2, RunStep DEF DRun
  <2>3. CASE Refuse
    <3>1. result'.mode = "refused" /\ UNCHANGED <<manifest, trial, baselines, written>>
      BY <2>3 DEF Refuse, Finish
    <3> QED
      BY <1>1, <3>1 DEF DInv, Sound, BaselinesAreRecords, ResultIsCurrent
  <2>4. CASE UNCHANGED dvars
    <3>1. UNCHANGED <<manifest, trial, baselines, written, result>>
      BY <2>4 DEF dvars
    <3>2. \A p : CheckOn(p, result.named)' = CheckOn(p, result.named)
      BY <3>1, CheckIsOfState DEF CheckOn, CanSelect, Selected, Gated
    <3> QED
      BY <1>1, <3>1, <3>2 DEF DInv, Sound, BaselinesAreRecords, ResultIsCurrent, Worst
  <2> QED
    BY <1>1, <2>1, <2>2, <2>3, <2>4 DEF DNext
<1> QED
  BY <1>1, DInvInit, PTL DEF DSpec

-----------------------------------------------------------------------------
(* What a baseline and a check say of an entry *)

\* The entries a baseline names are those that could be scored when it was written, and what it says of them is
\* what was found then.
LEMMA BaselineMeans ==
    ASSUME DInv, NEW p \in Pythons, baselines[p] # NoFile
    PROVE  /\ DOMAIN baselines[p].status = ScoredThen(written[p], p)
           /\ \A e \in ScoredThen(written[p], p) :
                 /\ e \in Entries /\ WasScored(e, p)
                 /\ Before(e, p) \in Trials /\ written[p].manifest[e].run \in BOOLEAN
                 /\ CanScore(Before(e, p), written[p].manifest[e].run)
                 /\ baselines[p].status[e] = StatusOf(Before(e, p), written[p].manifest[e].run)
           /\ \A e : WasScored(e, p) => e \in ScoredThen(written[p], p)
<1>1. Sound(written[p].manifest, written[p].trial) /\ baselines[p] = FileOf(written[p], p)
  BY DEF DInv, BaselinesAreRecords
<1>2. baselines[p].status = [e \in ScoredThen(written[p], p) |-> StatusThen(written[p], e, p)]
  BY <1>1 DEF FileOf
<1>3. ASSUME NEW e \in DOMAIN written[p].manifest
      PROVE  /\ e \in Entries /\ Before(e, p) \in Trials /\ written[p].manifest[e].run \in BOOLEAN
             /\ StatusThen(written[p], e, p) = StatusOf(Before(e, p), written[p].manifest[e].run)
             /\ StatusThen(written[p], e, p) # NotScored <=> CanScore(Before(e, p), written[p].manifest[e].run)
  <2>1. e \in Entries /\ Before(e, p) \in Trials /\ written[p].manifest[e].run \in BOOLEAN
    BY <1>1, <1>3, SoundMeans DEF Before
  <2>2. StatusThen(written[p], e, p) = StatusOf(Before(e, p), written[p].manifest[e].run)
    BY DEF StatusThen, Before
  <2> QED
    BY <2>1, <2>2, ScoredMeans
<1> QED
  BY <1>2, <1>3 DEF ScoredThen, WasScored

\* What a baseline does not list was silent.
LEMMA RecordedNoise ==
    ASSUME DInv, NEW p \in Pythons, baselines[p] # NoFile, NEW e \in ScoredThen(written[p], p)
    PROVE  (IF e \in DOMAIN baselines[p].noise THEN baselines[p].noise[e] ELSE NoNoise) = Reported(Before(e, p))
<1> DEFINE noise == NoiseThen(written[p], e, p)
           listed == {s \in ScoredThen(written[p], p) : ~Silent(NoiseThen(written[p], s, p))}
<1>1. baselines[p].noise = [s \in listed |-> NoiseThen(written[p], s, p)]
  <2>1. baselines[p] = FileOf(written[p], p)
    BY DEF DInv, BaselinesAreRecords
  <2> QED
    BY <2>1 DEF FileOf
<1>2. noise \in [DiagnosticKinds -> Nat] /\ noise = Reported(Before(e, p))
  BY BaselineMeans, NoiseMeans DEF NoiseThen, Before
<1>3. CASE Silent(noise)
  <2>1. noise = NoNoise
    BY <1>2, <1>3 DEF Silent, NoNoise
  <2> QED
    BY <1>1, <1>2, <1>3, <2>1
<1>4. CASE ~Silent(noise)
  BY <1>1, <1>2, <1>4
<1> QED
  BY <1>3, <1>4

LEMMA AppliesNow ==
    ASSUME DInv, NEW p \in Pythons, NEW e \in Applying(p)
    PROVE  e \in Entries /\ trial[<<e, p>>] \in Trials /\ manifest[e].run \in BOOLEAN
  BY SoundMeans DEF DInv, Applying

\* An entry that is run or not as it was is worse exactly when what the gate compares is.
LEMMA WorseMeans ==
    ASSUME DInv, NEW p \in Pythons, baselines[p] # NoFile, NEW e \in ScoredThen(written[p], p) \cap Applying(p),
           manifest[e].run = written[p].manifest[e].run
    PROVE  EntryWorse(e, p) <=> \/ EntryKind(baselines[p].status[e], CheckEntry(e, p)) \cap {"lost", "regressed"} # {}
                                \/ Noisier(e, p, baselines[p])
<1> DEFINE now == trial[<<e, p>>]
           then == Before(e, p)
           run == manifest[e].run
<1>1. now \in Trials /\ then \in Trials /\ run \in BOOLEAN /\ CanScore(then, run)
  BY AppliesNow, BaselineMeans
<1>2. baselines[p].status[e] = StatusOf(then, run) /\ CheckEntry(e, p) = StatusOf(now, run)
  BY BaselineMeans, NowMeans
<1>3. StatusOf(then, run) # NotScored /\ StatusOf(now, run) = NotScored <=> ~CanScore(now, run)
  BY <1>1, ScoredMeans
<1>4. EntryWorse(e, p) <=> \/ ~CanScore(now, run)
                           \/ Reach(now, run) < Reach(then, run)
                           \/ Louder(Reported(now), Reported(then))
  BY DEF EntryWorse
<1>5. Noisier(e, p, baselines[p]) <=> Louder(NoiseOf(now, run), Reported(then))
  BY NowMeans, RecordedNoise DEF Noisier, Louder, NoNoise
<1> HIDE DEF now, then, run
<1>6. CASE ~CanScore(now, run)
  <2>1. "lost" \in EntryKind(StatusOf(then, run), StatusOf(now, run))
    BY <1>3, <1>6 DEF EntryKind
  <2> QED
    BY <1>2, <1>4, <1>6, <2>1
<1>7. CASE CanScore(now, run)
  <2>1. EntryKind(StatusOf(then, run), StatusOf(now, run)) \cap {"lost", "regressed"} # {}
          <=> StatusOf(now, run) # StatusOf(then, run) /\ RungOf(StatusOf(now, run)) < RungOf(StatusOf(then, run))
    BY <1>3, <1>7 DEF EntryKind
  <2>2. StatusOf(now, run) # StatusOf(then, run) /\ RungOf(StatusOf(now, run)) < RungOf(StatusOf(then, run))
          <=> Reach(now, run) < Reach(then, run)
    BY <1>1, <1>7, RungsAreReaches
  <2>3. NoiseOf(now, run) = Reported(now)
    BY <1>1, <1>7, NoiseMeans
  <2> QED
    BY <1>2, <1>4, <1>5, <1>7, <2>1, <2>2, <2>3
<1> QED
  BY <1>6, <1>7

-----------------------------------------------------------------------------
(* What the check exits with *)

LEMMA CodeOf ==
    ASSUME NEW pythons \in (SUBSET Pythons) \ {{}}, NEW named
    PROVE  LET codes == {CheckOn(p, named) : p \in pythons}
           IN  /\ Worst(codes) = 0 => \A p \in pythons : CheckOn(p, named) = 0
               /\ Worst(codes) = 1 => \E p \in pythons : CheckOn(p, named) = 1
<1> DEFINE codes == {CheckOn(p, named) : p \in pythons}
<1>1. codes \in (SUBSET {0, 1, 2}) \ {{}}
  BY DEF CheckOn
<1>2. Worst(codes) \in codes /\ \A d \in codes : d <= Worst(codes)
  BY <1>1, WorstOf
<1>3. \A d \in codes : d \in {0, 1, 2}
  BY <1>1
<1> HIDE DEF codes
<1>4. Worst(codes) = 0 => \A d \in codes : d = 0
  BY <1>2, <1>3
<1> QED
  BY <1>2, <1>4 DEF codes

LEMMA ResultCodeMeans ==
    ASSUME NEW p, NEW named, CheckOn(p, named) \in {0, 1}
    PROVE  /\ CanSelect(p, named) /\ baselines[p] # NoFile
           /\ CheckOn(p, named) = 0 <=> Gated(named, KindsOfChange(p, baselines[p], Selected(p, named))) = {}
  BY DEF CheckOn

\* A check of everything looks at every entry that applies, and counts every kind of failure.
LEMMA Everything ==
    ASSUME NEW p
    PROVE  /\ Selected(p, {}) = Applying(p)
           /\ \A kinds : Gated({}, kinds) = kinds \cap FailingKinds
  BY DEF Selected, Gated

LEMMA KindsMean ==
    ASSUME NEW p, NEW file, NEW results
    PROVE  LET kinds == KindsOfChange(p, file, results)
               both == results \cap DOMAIN file.status
           IN  /\ "new" \in kinds <=> \E e \in results : IsNew(e, p, file)
               /\ "missing" \in kinds <=> ~(DOMAIN file.status \subseteq results)
               /\ "noisier" \in kinds <=> \E e \in both : Noisier(e, p, file)
               /\ "lost" \in kinds <=> \E e \in both : "lost" \in EntryKind(file.status[e], CheckEntry(e, p))
               /\ "regressed" \in kinds <=> \E e \in both : "regressed" \in EntryKind(file.status[e], CheckEntry(e, p))
<1> DEFINE both == results \cap DOMAIN file.status
           drawn == UNION {EntryKind(file.status[e], CheckEntry(e, p)) : e \in both}
           new == IF \E e \in results : IsNew(e, p, file) THEN {"new"} ELSE {}
           missing == IF DOMAIN file.status \subseteq results THEN {} ELSE {"missing"}
           noisier == IF \E e \in both : Noisier(e, p, file) THEN {"noisier"} ELSE {}
<1>1. drawn \subseteq {"lost", "regressed", "improved"}
  BY DEF EntryKind
<1>2. \A kind : kind \in drawn <=> \E e \in both : kind \in EntryKind(file.status[e], CheckEntry(e, p))
  OBVIOUS
<1>3. KindsOfChange(p, file, results) = drawn \cup new \cup missing \cup noisier
  BY DEF KindsOfChange
<1>4. /\ new \subseteq {"new"} /\ ("new" \in new <=> \E e \in results : IsNew(e, p, file))
      /\ missing \subseteq {"missing"} /\ ("missing" \in missing <=> ~(DOMAIN file.status \subseteq results))
      /\ noisier \subseteq {"noisier"} /\ ("noisier" \in noisier <=> \E e \in both : Noisier(e, p, file))
  OBVIOUS
<1> HIDE DEF drawn, new, missing, noisier
<1> QED
  BY <1>1, <1>2, <1>3, <1>4

(* When a check of everything passes, under however many Pythons, every     *)
(* entry whose behaviour a baseline recorded is still there and no worse,   *)
(* unless it is no longer run as it was, and no scored entry is without a   *)
(* record.                                                                  *)
THEOREM PassingRunIsSafe == DSpec => []PassMeansAllRecorded
<1>1. ASSUME DInv PROVE PassMeansAllRecorded
  <2> SUFFICES ASSUME Checked(0), NEW p \in result.pythons
               PROVE  /\ \A e \in Entries :
                            WasScored(e, p) => \/ ~EntryWorse(e, p)
                                               \/ e \in Applying(p) /\ manifest[e].run # written[p].manifest[e].run
                      /\ \A e \in Applying(p) : CheckEntry(e, p) # NotScored => WasScored(e, p)
    BY DEF PassMeansAllRecorded
  <2>1. p \in Pythons /\ CheckOn(p, {}) = 0
    BY <1>1, CodeOf DEF DInv, ResultIsCurrent, Checked
  <2>2. baselines[p] # NoFile /\ KindsOfChange(p, baselines[p], Applying(p)) \cap FailingKinds = {}
    BY <2>1, ResultCodeMeans, Everything
  <2>3. /\ \A e \in Applying(p) : ~IsNew(e, p, baselines[p])
        /\ DOMAIN baselines[p].status \subseteq Applying(p)
        /\ \A e \in Applying(p) \cap DOMAIN baselines[p].status :
              /\ ~Noisier(e, p, baselines[p])
              /\ EntryKind(baselines[p].status[e], CheckEntry(e, p)) \cap {"lost", "regressed"} = {}
    BY <2>2, KindsMean DEF FailingKinds
  <2>4. ASSUME NEW e \in Entries, WasScored(e, p), manifest[e].run = written[p].manifest[e].run
        PROVE  ~EntryWorse(e, p)
    <3>1. e \in ScoredThen(written[p], p) \cap Applying(p)
      BY <1>1, <2>1, <2>2, <2>3, <2>4, BaselineMeans
    <3> QED
      BY <1>1, <2>1, <2>2, <2>3, <2>4, <3>1, BaselineMeans, WorseMeans
  <2>5. ASSUME NEW e \in Entries, WasScored(e, p) PROVE e \in Applying(p)
    BY <1>1, <2>1, <2>2, <2>3, <2>5, BaselineMeans
  <2>6. ASSUME NEW e \in Applying(p), CheckEntry(e, p) # NotScored PROVE WasScored(e, p)
    BY <1>1, <2>1, <2>2, <2>3, <2>6, BaselineMeans DEF IsNew
  <2> QED
    BY <2>4, <2>5, <2>6
<1> QED
  BY <1>1, DInvAlways, PTL

(* When it fails, some entry is worse than its record, is no longer run as  *)
(* it was, or has no record: an improvement never fails a check.            *)
THEOREM FailingRunHasAReason == DSpec => []FailMeansWorse
<1>1. ASSUME DInv PROVE FailMeansWorse
  <2> SUFFICES ASSUME Checked(1)
               PROVE  \E p \in result.pythons, e \in Entries :
                         \/ WasScored(e, p) /\ (EntryWorse(e, p) \/ manifest[e].run # written[p].manifest[e].run)
                         \/ ~WasScored(e, p) /\ e \in Applying(p) /\ CanScore(trial[<<e, p>>], manifest[e].run)
    BY DEF FailMeansWorse
  <2>1. PICK p \in result.pythons : p \in Pythons /\ CheckOn(p, {}) = 1
    BY <1>1, CodeOf DEF DInv, ResultIsCurrent, Checked
  <2>2. baselines[p] # NoFile /\ KindsOfChange(p, baselines[p], Applying(p)) \cap FailingKinds # {}
    BY <2>1, ResultCodeMeans, Everything
  <2> DEFINE both == Applying(p) \cap DOMAIN baselines[p].status
  <2>3. \/ \E e \in Applying(p) : IsNew(e, p, baselines[p])
        \/ ~(DOMAIN baselines[p].status \subseteq Applying(p))
        \/ \E e \in both : \/ Noisier(e, p, baselines[p])
                           \/ EntryKind(baselines[p].status[e], CheckEntry(e, p)) \cap {"lost", "regressed"} # {}
    BY <2>2, KindsMean, SMTT(30) DEF FailingKinds
  <2>4. CASE \E e \in Applying(p) : IsNew(e, p, baselines[p])
    <3>1. PICK e \in Applying(p) : e \notin DOMAIN baselines[p].status /\ CheckEntry(e, p) # NotScored
      BY <2>4 DEF IsNew
    <3>2. e \in Entries /\ ~WasScored(e, p)
      BY <1>1, <2>1, <2>2, <3>1, BaselineMeans, AppliesNow
    <3>3. CanScore(trial[<<e, p>>], manifest[e].run)
      BY <3>1, NowMeans DEF StatusOf
    <3> QED
      BY <3>1, <3>2, <3>3
  <2>5. CASE ~(DOMAIN baselines[p].status \subseteq Applying(p))
    <3>1. PICK e \in DOMAIN baselines[p].status : e \notin Applying(p)
      BY <2>5
    <3>2. e \in Entries /\ WasScored(e, p)
      BY <1>1, <2>1, <2>2, BaselineMeans
    <3> QED
      BY <3>1, <3>2 DEF EntryWorse
  <2>6. ASSUME NEW e \in both,
               \/ Noisier(e, p, baselines[p])
               \/ EntryKind(baselines[p].status[e], CheckEntry(e, p)) \cap {"lost", "regressed"} # {}
        PROVE  WasScored(e, p) /\ e \in Entries /\ (EntryWorse(e, p) \/ manifest[e].run # written[p].manifest[e].run)
    <3>1. e \in Entries /\ WasScored(e, p) /\ e \in ScoredThen(written[p], p) \cap Applying(p)
      BY <1>1, <2>1, <2>2, BaselineMeans
    <3> QED
      BY <1>1, <2>1, <2>2, <2>6, <3>1, WorseMeans
  <2> QED
    BY <2>3, <2>4, <2>5, <2>6
<1> QED
  BY <1>1, DInvAlways, PTL

(* A run of a few entries, by name, never fails where the check of all of   *)
(* them would not: it looks at less, and leaves out only "missing".         *)
THEOREM NamedRunsAgree == DSpec => []SomeAgreeWithAll
<1>1. ASSUME DInv PROVE SomeAgreeWithAll
  <2> SUFFICES ASSUME result.mode = "check", result.code = 1
               PROVE  \E p \in result.pythons : CheckOn(p, {}) = 1
    BY DEF SomeAgreeWithAll
  <2> DEFINE named == result.named
  <2>1. PICK p \in result.pythons : p \in Pythons /\ CheckOn(p, named) = 1
    BY <1>1, CodeOf DEF DInv, ResultIsCurrent
  <2>2. /\ CanSelect(p, named) /\ baselines[p] # NoFile
        /\ Gated(named, KindsOfChange(p, baselines[p], Selected(p, named))) # {}
    BY <2>1, ResultCodeMeans
  <2>3. CanSelect(p, {}) /\ Selected(p, {}) = Applying(p) /\ Selected(p, named) \subseteq Applying(p)
    BY <2>2 DEF CanSelect, Selected
  <2>4. KindsOfChange(p, baselines[p], Applying(p)) \cap FailingKinds # {}
    <3>1. CASE named = {}
      BY <2>2, <2>3, <3>1 DEF Gated
    <3>2. CASE named # {}
      <4>1. PICK kind \in {"regressed", "new", "lost", "noisier"} :
               kind \in KindsOfChange(p, baselines[p], Selected(p, named))
        BY <2>2, <3>2 DEF Gated, FailingKinds
      <4>2. kind \in KindsOfChange(p, baselines[p], Applying(p))
        BY <2>3, <4>1, KindsMean
      <4> QED
        BY <4>1, <4>2 DEF FailingKinds
    <3> QED
      BY <3>1, <3>2
  <2> QED
    BY <2>1, <2>2, <2>3, <2>4, Everything DEF CheckOn
<1> QED
  BY <1>1, DInvAlways, PTL
============================================================================
